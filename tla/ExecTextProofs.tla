--------------------------- MODULE ExecTextProofs ---------------------------
(***************************************************************************)
(* Proofs about the arguments, the errors and the file name that the log   *)
(* shows for an execve (ArgvRight, ErrorsTrue, FileRight), for any threads *)
(* on the CPU, names, arguments, directory and sizes that meet the         *)
(* module's assumptions.  EInv says what the enter program has made of the *)
(* scratch element so far, whatever was in it, and that the entry of a     *)
(* call is about that call; NInv, that they hold the name of that call.    *)
(* Scanned is the invariant of the loop of resolve_full_path.              *)
(***************************************************************************)
EXTENDS ExecText, SequenceLemmas

-----------------------------------------------------------------------------
(* The invariant *)

Strings == Seq(Char) \cup {Fault}

Calls == [file : Strings, args : Seq(Strings)]

Memory(n) == [1..n -> Char \cup {Nul}]

Elements == [str : Memory(PathSize), len : Int, argv : Memory(ArgsSize), errors : BOOLEAN]

\* What an argument adds to the text, and the text of the first arguments.
Pieces(args) ==
  [k \in 1..Len(Looked(args)) |->
     IF args[k] = Fault THEN <<" ">> ELSE <<" ">> \o Copied(args[k], ArgSize)]

TextOf(args) ==
  CHOOSE f \in [0..Len(Looked(args)) -> Seq(Char)] :
    PutTogether(f, Pieces(args), Len(Looked(args)))

\* The text without the space in front, and the terminator, are in the element.
ReadSoFar(c) ==
  LET text == TextOf(c.args)[arg.i] IN
  /\ arg.i \in 0..Len(Looked(c.args))
  /\ \A k \in 1..arg.i : c.args[k] # Fault
  /\ arg.offset = Len(text)
  /\ arg.offset <= ArgsSize
  /\ \A k \in 1..(arg.offset - 1) : scratch.argv[k] = text[k + 1]
  /\ arg.offset > 0 => scratch.argv[arg.offset] = Nul

NameFault(c) ==
  \/ c.file = Fault
  \/ c.file = <<>> /\ FirstArg(c.args) = Fault

ArgsFault(c) ==
  \/ \E k \in DOMAIN Looked(c.args) : c.args[k] = Fault
  \/ c.args # <<>> /\ Len(Joined(Kept(c.args))) + 1 > ArgsSize - ArgSize

\* The two properties, of one record.
ErrorsOK(c, errors) == errors => NameFault(c) \/ ArgsFault(c)

ArgvOK(c, errors, argv) ==
  ~errors /\ c.args # <<>>
  => /\ \A k \in DOMAIN Looked(c.args) : c.args[k] # Fault
     /\ argv = Joined(Kept(c.args))

ThreadOK(t) ==
  /\ t \in running => \E c \in Calls :
       /\ calling[t] = {c} /\ entry[t] = {}
       /\ scratch.errors => NameFault(c)
       /\ ReadSoFar(c)
  /\ calling[t] = {} => entry[t] = {}
  /\ \A c \in calling[t], e \in entry[t] :
       ErrorsOK(c, e.errors) /\ ArgvOK(c, e.errors, Printed(e.argv))

LogOK == \A p \in printed : ErrorsOK(p.call, p.errors) /\ ArgvOK(p.call, p.errors, p.argv)

TypeOK ==
  /\ scratch \in Elements
  /\ running \in SUBSET Threads
  /\ \A t, u \in running : t = u
  /\ arg \in [i : Nat, offset : Nat]
  /\ calling \in [Threads -> SUBSET Calls]
  /\ entry \in [Threads -> SUBSET Elements]

EInv == TypeOK /\ (\A t \in Threads : ThreadOK(t)) /\ LogOK

-----------------------------------------------------------------------------
(* The texts *)

LEMMA CopiedIs ==
  ASSUME NEW s \in Seq(Char), NEW size \in Nat \ {0}
  PROVE  /\ Copied(s, size) \in Seq(Char)
         /\ Len(Copied(s, size)) \in 0..(size - 1)
         /\ size >= 2 /\ Len(Copied(s, size)) = 0 => s = <<>>
<1>1. Len(s) \in Nat
  OBVIOUS
<1>2. \A m \in 0..Len(s) : SubSeq(s, 1, m) \in Seq(Char) /\ Len(SubSeq(s, 1, m)) = m
  OBVIOUS
<1> DEFINE m == IF Len(s) < size THEN Len(s) ELSE size - 1
<1>3. m \in 0..Len(s) /\ m \in 0..(size - 1) /\ (size >= 2 /\ m = 0 => Len(s) = 0)
  BY <1>1
<1>4. Len(s) = 0 => s = <<>>
  OBVIOUS
<1>5. Copied(s, size) = SubSeq(s, 1, m)
  BY DEF Copied
<1> HIDE DEF m
<1> QED
  BY <1>2, <1>3, <1>4, <1>5

\* A string copied into memory, with its terminator.
ReadRight(n, mem, at, size, s) ==
  LET r == ReadUser(mem, at, size, s)
      c == Copied(s, size)
  IN /\ r.mem \in Memory(n) /\ r.ret \in Int
     /\ s = Fault <=> r.ret < 0
     /\ s # Fault =>
          /\ c \in Seq(Char) /\ Len(c) \in 0..(size - 1)
          /\ r.ret = Len(c) + 1
          /\ \A k \in 1..n :
               r.mem[k] = IF k \in at..(at + Len(c) - 1) THEN c[k - at + 1]
                          ELSE IF k = at + Len(c) THEN Nul ELSE mem[k]

LEMMA ReadUserIs ==
  ASSUME NEW n \in Nat, NEW mem \in Memory(n), NEW at \in Nat \ {0},
         NEW size \in Nat \ {0}, NEW s \in Strings
  PROVE  ReadRight(n, mem, at, size, s)
<1> DEFINE r == ReadUser(mem, at, size, s)
           c == Copied(s, size)
           e == Append(c, Nul)
<1>1. DOMAIN mem = 1..n /\ \A k \in 1..n : mem[k] \in Char \cup {Nul}
  BY DEF Memory
<1>2. CASE s = Fault
  <2>1. r = [ret |-> -1, mem |-> [k \in 1..n |->
                                    IF k \in at..(at + size - 1) THEN Nul ELSE mem[k]]]
    BY <1>1, <1>2 DEF ReadUser
  <2> HIDE DEF r
  <2>2. r.mem \in Memory(n)
    BY <1>1, <2>1 DEF Memory
  <2> QED
    BY <1>2, <2>1, <2>2 DEF r, ReadRight
<1>3. CASE s # Fault
  <2>1. s \in Seq(Char)
    BY <1>3 DEF Strings
  <2>2. c \in Seq(Char) /\ Len(c) \in 0..(size - 1)
    BY <2>1, CopiedIs
  <2>3. r = [ret |-> Len(e), mem |-> [k \in 1..n |->
               IF k \in at..(at + Len(e) - 1) THEN e[k - at + 1] ELSE mem[k]]]
    BY <1>1, <1>3 DEF ReadUser
  <2> HIDE DEF r, c
  <2>4. Len(e) = Len(c) + 1 /\ e[Len(c) + 1] = Nul /\ \A i \in 1..Len(c) : e[i] = c[i]
    BY <2>2
  <2>5. \A i \in 1..Len(c) : c[i] \in Char
    BY <2>2
  <2> HIDE DEF e
  <2>6. ASSUME NEW k \in 1..n
        PROVE  /\ r.mem[k] = IF k \in at..(at + Len(c) - 1) THEN c[k - at + 1]
                             ELSE IF k = at + Len(c) THEN Nul ELSE mem[k]
               /\ r.mem[k] \in Char \cup {Nul}
    <3>1. r.mem[k] = IF k \in at..(at + Len(e) - 1) THEN e[k - at + 1] ELSE mem[k]
      BY <2>3
    <3>2. CASE k \in at..(at + Len(c) - 1)
      <4>1. k \in at..(at + Len(e) - 1) /\ k - at + 1 \in 1..Len(c)
        BY <2>2, <2>4, <3>2
      <4> QED
        BY <2>4, <2>5, <3>1, <3>2, <4>1
    <3>3. CASE k = at + Len(c)
      <4>1. k \in at..(at + Len(e) - 1) /\ k - at + 1 = Len(c) + 1
            /\ k \notin at..(at + Len(c) - 1)
        BY <2>2, <2>4, <3>3
      <4> QED
        BY <2>4, <3>1, <3>3, <4>1
    <3>4. CASE k \notin at..(at + Len(c) - 1) /\ k # at + Len(c)
      <4>1. k \notin at..(at + Len(e) - 1)
        BY <2>2, <2>4, <3>4
      <4> QED
        BY <1>1, <3>1, <3>4, <4>1
    <3> QED
      BY <3>2, <3>3, <3>4
  <2>7. r.mem \in Memory(n)
    <3>1. r.mem = [k \in 1..n |-> r.mem[k]]
      BY <2>3
    <3> QED
      BY <2>6, <3>1 DEF Memory
  <2>8. r.ret = Len(c) + 1 /\ r.ret \in Int /\ r.ret >= 0
    BY <2>2, <2>3, <2>4
  <2> QED
    BY <1>3, <2>2, <2>6, <2>7, <2>8 DEF r, c, ReadRight
<1> QED
  BY <1>2, <1>3

\* A text with a space in front.
LEMMA Spaced ==
  /\ <<" ">> \in Seq(Char)
  /\ \A t \in Seq(Char) :
       /\ <<" ">> \o t \in Seq(Char) /\ Len(<<" ">> \o t) = Len(t) + 1
       /\ (<<" ">> \o t)[1] = " "
       /\ \A i \in 1..Len(t) : (<<" ">> \o t)[i + 1] = t[i]
<1>1. ASSUME NEW x \in Char
      PROVE  /\ <<x>> \in Seq(Char)
             /\ \A t \in Seq(Char) :
                  /\ <<x>> \o t \in Seq(Char) /\ Len(<<x>> \o t) = Len(t) + 1
                  /\ (<<x>> \o t)[1] = x
                  /\ \A i \in 1..Len(t) : (<<x>> \o t)[i + 1] = t[i]
  OBVIOUS
<1>2. " " \in Char
  BY TextAssumption
<1> QED
  BY <1>1, <1>2, Zenon

\* The arguments looked at, and the text of the first of them.
LEMMA TextIs ==
  ASSUME NEW args \in Seq(Strings)
  PROVE  LET n == Len(Looked(args)) f == TextOf(args) IN
         /\ n \in Nat /\ n <= MaxArgs /\ n <= Len(args) /\ DOMAIN Looked(args) = 1..n
         /\ n = MaxArgs \/ n = Len(args)
         /\ Pieces(args) \in [1..n -> Seq(Char)]
         /\ f \in [0..n -> Seq(Char)]
         /\ PutTogether(f, Pieces(args), n)
         /\ FlattenSeq(Pieces(args)) = f[n]
<1> DEFINE n == Len(Looked(args)) f == TextOf(args)
           l == IF Len(args) <= MaxArgs THEN Len(args) ELSE MaxArgs
<1>1. l \in 0..Len(args) /\ l <= MaxArgs /\ (l = MaxArgs \/ l = Len(args))
  BY SizeAssumption
<1>2. n = l /\ DOMAIN Looked(args) = 1..l
  <2>1. \A m \in 0..Len(args) : Len(SubSeq(args, 1, m)) = m /\ DOMAIN SubSeq(args, 1, m) = 1..m
    OBVIOUS
  <2>2. Looked(args) = SubSeq(args, 1, l)
    BY DEF Looked
  <2> HIDE DEF l
  <2> QED
    BY <1>1, <2>1, <2>2
<1>3. Len(args) \in Nat /\ n \in Nat
  BY <1>1, <1>2
<1> HIDE DEF l, n
<1>4. Pieces(args) \in [1..n -> Seq(Char)]
  <2>1. ASSUME NEW k \in 1..n, args[k] # Fault
        PROVE  <<" ">> \o Copied(args[k], ArgSize) \in Seq(Char)
    <3>1. k \in 1..Len(args)
      BY <1>1, <1>2, <1>3
    <3>2. args[k] \in Seq(Char)
      <4>1. args[k] \in Strings
        BY <3>1, ElementOfSeq
      <4> QED
        BY <2>1, <4>1 DEF Strings
    <3>3. Copied(args[k], ArgSize) \in Seq(Char)
      BY <3>2, CopiedIs, SizeAssumption
    <3> QED
      BY <3>3, Spaced
  <2>2. <<" ">> \in Seq(Char)
    BY Spaced
  <2> QED
    BY <2>1, <2>2 DEF Pieces, n
<1>5. f \in [0..n -> Seq(Char)] /\ PutTogether(f, Pieces(args), n)
  <2>1. \E g \in [0..n -> Seq(Char)] : PutTogether(g, Pieces(args), n)
    BY <1>3, <1>4, Joins
  <2> QED
    BY <2>1 DEF TextOf, n
<1>6. FlattenSeq(Pieces(args)) = f[n]
  BY <1>3, <1>4, <1>5, FlattenIs
<1> QED
  BY <1>1, <1>2, <1>3, <1>4, <1>5, <1>6 DEF n

\* Without one that cannot be read it is the arguments with a space before each.
LEMMA JoinedIs ==
  ASSUME NEW args \in Seq(Strings), \A k \in DOMAIN Looked(args) : args[k] # Fault
  PROVE  Joined(Kept(args)) = Tail(TextOf(args)[Len(Looked(args))])
<1> DEFINE n == Len(Looked(args))
<1>1. n \in Nat /\ DOMAIN Looked(args) = 1..n /\ FlattenSeq(Pieces(args)) = TextOf(args)[n]
  BY TextIs
<1>2. Kept(args) = [k \in 1..n |-> Copied(args[k], ArgSize)]
  BY <1>1 DEF Kept
<1>3. [k \in DOMAIN Kept(args) |-> <<" ">> \o Kept(args)[k]] = Pieces(args)
  BY <1>1, <1>2 DEF Pieces
<1> QED
  BY <1>1, <1>3 DEF Joined

\* What fputs prints ends before the first terminator.
LEMMA PrintedIs ==
  ASSUME NEW n \in Nat, NEW mem \in Memory(n), NEW text \in Seq(Char),
         NEW m \in 1..n, Len(text) = m, mem[m] = Nul,
         \A k \in 1..(m - 1) : mem[k] = text[k + 1]
  PROVE  Printed(mem) = Tail(text)
<1> DEFINE ends == {k \in DOMAIN mem : mem[k] = Nul}
           end == CHOOSE k \in ends : \A j \in ends : k <= j
<1>1. mem \in [1..n -> Char \cup {Nul}]
  BY DEF Memory
<1>2. ASSUME NEW k \in 1..(m - 1) PROVE mem[k] = text[k + 1] /\ mem[k] # Nul /\ mem[k] \in Char
  <2>1. k + 1 \in 1..Len(text)
    OBVIOUS
  <2>2. text[k + 1] \in Char
    BY <2>1
  <2> QED
    BY <2>2, TextAssumption
<1>3. m \in ends /\ \A j \in ends : m <= j
  BY <1>1, <1>2
<1>4. end \in ends /\ \A j \in ends : end <= j
  BY <1>3
<1>5. end = m
  <2>1. end <= m /\ m <= end /\ end \in 1..n
    BY <1>1, <1>3, <1>4
  <2> HIDE DEF end
  <2> QED
    BY <2>1
<1>6. Printed(mem) = SubSeq(mem, 1, m - 1)
  <2>1. ends # {}
    BY <1>3
  <2> QED
    BY <1>5, <2>1 DEF Printed
<1>7. SubSeq(mem, 1, m - 1) = [k \in 1..(m - 1) |-> mem[k]]
  <2>1. mem \in Seq(Char \cup {Nul}) /\ Len(mem) = n
    BY <1>1
  <2>2. \A s \in Seq(Char \cup {Nul}) : \A l \in 0..Len(s) :
          SubSeq(s, 1, l) = [k \in 1..l |-> s[k]]
    OBVIOUS
  <2>3. m - 1 \in 0..Len(mem)
    BY <2>1
  <2> QED
    BY <2>1, <2>2, <2>3
<1>8. Tail(text) = [k \in 1..(m - 1) |-> text[k + 1]]
  <2>1. text # <<>>
    OBVIOUS
  <2>2. /\ Tail(text) \in Seq(Char) /\ Len(Tail(text)) = m - 1
        /\ \A k \in 1..(m - 1) : Tail(text)[k] = text[k + 1]
    BY <2>1, HeadTailProperties
  <2> DEFINE tail == Tail(text)
  <2> HIDE DEF tail
  <2>3. tail \in Seq(Char) /\ Len(tail) = m - 1
    BY <2>2 DEF tail
  <2>4. \A k \in 1..(m - 1) : tail[k] = text[k + 1]
    BY <2>2 DEF tail
  <2>5. tail = [k \in 1..(m - 1) |-> text[k + 1]]
    <3>1. tail \in [1..(m - 1) -> Char]
      BY <2>3
    <3> QED
      BY <2>4, <3>1
  <2> QED
    BY <2>5 DEF tail
<1> QED
  BY <1>2, <1>6, <1>7, <1>8

-----------------------------------------------------------------------------
(* The steps *)

LEMMA BlankIs == \A n \in Nat : Blank(n) \in Memory(n)
BY DEF Blank, Memory

LEMMA InitE == Init => EInv
<1> SUFFICES ASSUME Init PROVE EInv
  OBVIOUS
<1>1. scratch \in Elements
  <2>1. scratch = [str |-> Blank(PathSize), len |-> 0, argv |-> Blank(ArgsSize),
                   errors |-> FALSE]
    BY DEF Init
  <2> QED
    BY <2>1, BlankIs, SizeAssumption DEF Elements
<1>2. TypeOK
  BY <1>1 DEF Init, TypeOK
<1>3. \A t \in Threads : ThreadOK(t)
  BY DEF Init, ThreadOK
<1>4. LogOK
  BY DEF Init, LogOK
<1> QED
  BY <1>2, <1>3, <1>4 DEF EInv

\* A step of thread t leaves the others alone.
LEMMA OthersOK ==
  ASSUME NEW t \in Threads, \A u \in Threads : u # t => ThreadOK(u),
         \A u \in Threads : u # t => calling'[u] = calling[u] /\ entry'[u] = entry[u],
         running' \subseteq {t}
  PROVE  \A u \in Threads : u # t => ThreadOK(u)'
<1> SUFFICES ASSUME NEW u \in Threads, u # t PROVE ThreadOK(u)'
  OBVIOUS
<1>1. u \notin running' /\ calling'[u] = calling[u] /\ entry'[u] = entry[u] /\ ThreadOK(u)
  OBVIOUS
<1> QED
  BY <1>1 DEF ThreadOK

LEMMA FirstArgIs ==
  ASSUME NEW args \in Seq(Strings)
  PROVE  FirstArg(args) \in Strings
<1>1. CASE args = <<>>
  BY <1>1 DEF FirstArg, Strings
<1>2. CASE args # <<>>
  <2>1. 1 \in 1..Len(args)
    BY <1>2
  <2>2. args[1] \in Strings
    BY <2>1, ElementOfSeq
  <2> QED
    BY <1>2, <2>2 DEF FirstArg
<1> QED
  BY <1>1, <1>2

\* The enter program begins: whatever earlier calls left, an error is its own.
LEMMA ReadFilenameE ==
  ASSUME EInv, NEW t \in Threads, NEW file \in FileNames, NEW args \in ArgLists,
         ReadFilename(t, file, args)
  PROVE  EInv'
<1> DEFINE r == ReadUser(scratch.str, 1, PathSize, file)
           q == ReadUser(r.mem, 1, PathSize, FirstArg(args))
           c == [file |-> file, args |-> args]
<1>1. file \in Strings /\ args \in Seq(Strings) /\ c \in Calls
  BY TextAssumption DEF Strings, Calls
<1>2. /\ scratch \in Elements /\ calling \in [Threads -> SUBSET Calls]
      /\ entry \in [Threads -> SUBSET Elements] /\ ThreadOK(t)
  BY DEF EInv, TypeOK
<1>3. /\ running = {} /\ calling[t] = {} /\ running' = {t}
      /\ arg' = [i |-> 0, offset |-> 0]
      /\ calling' = [calling EXCEPT ![t] = {c}]
      /\ entry' = entry /\ printed' = printed
      /\ scratch' = [scratch EXCEPT
                       !.errors = r.ret < 0 \/ (r.ret = 1 /\ q.ret < 0),
                       !.str = IF r.ret = 1 THEN q.mem ELSE r.mem,
                       !.len = IF r.ret = 1 THEN @ ELSE r.ret]
  BY DEF ReadFilename
<1>4. PathSize \in Nat /\ PathSize \in Nat \ {0} /\ PathSize >= 2 /\ 1 \in Nat \ {0}
      /\ scratch.str \in Memory(PathSize)
  BY <1>2, SizeAssumption DEF Elements
<1>5. /\ r.mem \in Memory(PathSize) /\ r.ret \in Int
      /\ file = Fault <=> r.ret < 0
      /\ file # Fault => r.ret = Len(Copied(file, PathSize)) + 1
  <2>1. ASSUME NEW mem \in Memory(PathSize), NEW s \in Strings
        PROVE  LET read == ReadUser(mem, 1, PathSize, s) IN
               /\ read.mem \in Memory(PathSize) /\ read.ret \in Int
               /\ s = Fault <=> read.ret < 0
               /\ s # Fault => read.ret = Len(Copied(s, PathSize)) + 1
    <3>1. ReadRight(PathSize, mem, 1, PathSize, s)
      BY <1>4, ReadUserIs
    <3> QED
      BY <3>1 DEF ReadRight
  <2> QED
    BY <1>1, <1>4, <2>1
<1>6. /\ q.mem \in Memory(PathSize) /\ q.ret \in Int
      /\ FirstArg(args) = Fault <=> q.ret < 0
  <2>1. ReadRight(PathSize, r.mem, 1, PathSize, FirstArg(args))
    BY <1>1, <1>4, <1>5, FirstArgIs, ReadUserIs
  <2> QED
    BY <2>1 DEF ReadRight
<1>7. file # Fault /\ r.ret = 1 => file = <<>>
  <2>1. file # Fault => file \in Seq(Char)
    BY <1>1 DEF Strings
  <2>2. file # Fault => Len(Copied(file, PathSize)) \in Nat
    BY <1>4, <2>1, CopiedIs
  <2> QED
    BY <1>4, <1>5, <2>1, <2>2, CopiedIs
<1> HIDE DEF r, q
<1>8. (r.ret < 0 \/ (r.ret = 1 /\ q.ret < 0)) => NameFault(c)
  BY <1>5, <1>6, <1>7 DEF NameFault
<1>9. scratch' \in Elements /\ (scratch'.errors <=> r.ret < 0 \/ (r.ret = 1 /\ q.ret < 0))
  BY <1>2, <1>3, <1>5, <1>6 DEF Elements
<1>10. entry[t] = {}
  BY <1>2, <1>3 DEF ThreadOK
<1>11. TypeOK'
  BY <1>1, <1>2, <1>3, <1>9 DEF TypeOK
<1>12. ReadSoFar(c)'
  <2>1. TextOf(args)[0] = <<>> /\ Len(Looked(args)) \in Nat
    BY <1>1, TextIs DEF PutTogether
  <2>2. arg'.i = 0 /\ arg'.offset = 0 /\ c.args = args
    BY <1>3
  <2> QED
    BY <2>1, <2>2, SizeAssumption DEF ReadSoFar
<1>13. ThreadOK(t)'
  <2>1. calling'[t] = {c} /\ entry'[t] = {}
    BY <1>2, <1>3, <1>10
  <2>2. scratch'.errors => NameFault(c)
    BY <1>8, <1>9
  <2> HIDE DEF c
  <2> QED
    BY <1>1, <1>12, <2>1, <2>2 DEF ThreadOK
<1>14. \A u \in Threads : u # t => ThreadOK(u)'
  <2>1. \A u \in Threads : u # t => ThreadOK(u) /\ calling'[u] = calling[u] /\ entry'[u] = entry[u]
    BY <1>2, <1>3 DEF EInv
  <2> QED
    BY <1>3, <2>1, OthersOK
<1>15. LogOK'
  BY <1>3 DEF EInv, LogOK
<1> QED
  BY <1>11, <1>13, <1>14, <1>15 DEF EInv

\* The call of the thread whose enter program runs.
LEMMA RunningCall ==
  ASSUME EInv, NEW t \in Threads, running = {t}
  PROVE  \E c \in Calls :
           /\ calling[t] = {c} /\ entry[t] = {} /\ Args(t) = c.args
           /\ c.args \in Seq(Strings)
           /\ scratch.errors => NameFault(c)
           /\ ReadSoFar(c)
           /\ scratch \in Elements
           /\ \A u \in Threads : u # t => ThreadOK(u)
<1>1. ThreadOK(t) /\ t \in running
  BY DEF EInv
<1>2. PICK c \in Calls : /\ calling[t] = {c} /\ entry[t] = {}
                         /\ scratch.errors => NameFault(c)
                         /\ ReadSoFar(c)
  BY <1>1 DEF ThreadOK
<1>3. Args(t) = c.args
  BY <1>2 DEF Args
<1>4. c.args \in Seq(Strings)
  BY DEF Calls
<1> QED
  BY <1>2, <1>3, <1>4 DEF EInv, TypeOK

\* The next argument's piece of the text, and where it is.
LEMMA NextPiece ==
  ASSUME NEW args \in Seq(Strings), NEW i \in Nat, i < Len(Looked(args)),
         args[i + 1] # Fault
  PROVE  LET c == Copied(args[i + 1], ArgSize)
             piece == <<" ">> \o c
             text == TextOf(args)[i] IN
         /\ c \in Seq(Char) /\ piece \in Seq(Char) /\ text \in Seq(Char)
         /\ TextOf(args)[i + 1] = text \o piece
<1> DEFINE n == Len(Looked(args))
           f == TextOf(args)
           c == Copied(args[i + 1], ArgSize)
           piece == <<" ">> \o c
<1>1. /\ n \in Nat /\ n <= Len(args)
      /\ f \in [0..n -> Seq(Char)] /\ PutTogether(f, Pieces(args), n)
  BY TextIs
<1>2. i + 1 \in 1..n /\ (i + 1) - 1 = i /\ i \in 0..n /\ i + 1 \in 1..Len(args)
  BY <1>1
<1>3. args[i + 1] \in Seq(Char)
  <2>1. args[i + 1] \in Strings
    BY <1>2, ElementOfSeq
  <2> QED
    BY <2>1 DEF Strings
<1>4. c \in Seq(Char)
  BY <1>3, CopiedIs, SizeAssumption
<1>5. Pieces(args)[i + 1] = piece
  BY <1>2 DEF Pieces
<1>6. f[i + 1] = f[i] \o Pieces(args)[i + 1]
  BY <1>1, <1>2 DEF PutTogether
<1>7. f[i] \in Seq(Char)
  BY <1>1, <1>2
<1> HIDE DEF f, c
<1>8. piece \in Seq(Char)
  BY <1>4, Spaced
<1> QED
  BY <1>4, <1>5, <1>6, <1>7, <1>8 DEF f, c

\* The text is in memory, without its first character.
Holds(mem, text, offset) ==
  /\ offset = Len(text)
  /\ \A k \in 1..(offset - 1) : mem[k] = text[k + 1]

\* c and a terminator are read to what is behind it.
Behind(n, mem, read, offset, c) ==
  /\ offset + Len(c) + 1 <= n
  /\ \A k \in 1..n :
       read[k] = IF k \in (offset + 1)..(offset + Len(c)) THEN c[k - offset]
                 ELSE IF k = offset + Len(c) + 1 THEN Nul ELSE mem[k]

\* An argument put behind the text so far.
AppendRight(n, read, x, text, c, offset) ==
  LET argv == IF offset = 0 THEN read ELSE [read EXCEPT ![offset] = x]
      all == text \o (<<x>> \o c) IN
  /\ argv \in Memory(n)
  /\ all \in Seq(Char) /\ Len(all) = offset + Len(c) + 1
  /\ \A k \in 1..(offset + Len(c)) : argv[k] = all[k + 1]
  /\ argv[offset + Len(c) + 1] = Nul

LEMMA Appended ==
  ASSUME NEW n \in Nat, NEW mem \in Memory(n), NEW read \in Memory(n), NEW x \in Char,
         NEW text \in Seq(Char), NEW c \in Seq(Char), NEW offset \in Nat,
         Holds(mem, text, offset), Behind(n, mem, read, offset, c)
  PROVE  AppendRight(n, read, x, text, c, offset)
<1>0. /\ offset = Len(text) /\ offset + Len(c) + 1 <= n
      /\ \A k \in 1..(offset - 1) : mem[k] = text[k + 1]
      /\ \A k \in 1..n :
           read[k] = IF k \in (offset + 1)..(offset + Len(c)) THEN c[k - offset]
                     ELSE IF k = offset + Len(c) + 1 THEN Nul ELSE mem[k]
  BY DEF Holds, Behind
<1> DEFINE argv == IF offset = 0 THEN read ELSE [read EXCEPT ![offset] = x]
           piece == <<x>> \o c
           all == text \o piece
           l == Len(c)
<1>1. l \in Nat
  OBVIOUS
<1>2. /\ piece \in Seq(Char) /\ Len(piece) = l + 1 /\ piece[1] = x
      /\ \A i \in 1..l : piece[i + 1] = c[i]
  OBVIOUS
<1> HIDE DEF piece
<1>3. /\ all \in Seq(Char) /\ Len(all) = Len(text) + Len(piece)
      /\ \A i \in 1..Len(text) : all[i] = text[i]
      /\ \A i \in 1..Len(piece) : all[Len(text) + i] = piece[i]
  <2>1. \A s, q \in Seq(Char) :
          /\ s \o q \in Seq(Char) /\ Len(s \o q) = Len(s) + Len(q)
          /\ \A i \in 1..Len(s) : (s \o q)[i] = s[i]
          /\ \A i \in 1..Len(q) : (s \o q)[Len(s) + i] = q[i]
    OBVIOUS
  <2> QED
    BY <1>2, <2>1
<1>4. read \in [1..n -> Char \cup {Nul}]
  BY DEF Memory
<1>5. \A y \in Char \cup {Nul} : \A k \in 1..n :
        /\ [read EXCEPT ![k] = y] \in [1..n -> Char \cup {Nul}]
        /\ [read EXCEPT ![k] = y][k] = y
        /\ \A j \in 1..n : j # k => [read EXCEPT ![k] = y][j] = read[j]
  BY <1>4
<1>6. x \in Char \cup {Nul}
  OBVIOUS
<1>7. offset # 0 => offset \in 1..n
  BY <1>0, <1>1
<1> HIDE DEF l
<1>8. /\ argv \in [1..n -> Char \cup {Nul}]
      /\ offset # 0 => argv[offset] = x
      /\ \A j \in 1..n : j # offset => argv[j] = read[j]
  <2>1. CASE offset = 0
    BY <1>4, <2>1
  <2>2. CASE offset # 0
    <3>1. argv = [read EXCEPT ![offset] = x]
      BY <2>2
    <3> HIDE DEF argv
    <3> QED
      BY <1>5, <1>6, <1>7, <2>2, <3>1, Zenon
  <2> QED
    BY <2>1, <2>2
<1> HIDE DEF argv, all
<1>9. ASSUME NEW k \in 1..(offset + l) PROVE argv[k] = all[k + 1]
  <2>1. CASE k < offset
    <3>1. k \in 1..(offset - 1) /\ k + 1 \in 1..Len(text) /\ k \in 1..n /\ k # offset
          /\ k \notin (offset + 1)..(offset + l) /\ k # offset + l + 1
      BY <1>0, <1>1, <2>1 DEF l
    <3>2. argv[k] = read[k] /\ read[k] = mem[k]
      BY <1>0, <1>8, <3>1 DEF l
    <3> QED
      BY <1>0, <1>3, <3>1, <3>2
  <2>2. CASE k = offset
    <3>1. k # 0 /\ 1 \in 1..Len(piece) /\ k + 1 = Len(text) + 1
      BY <1>0, <1>1, <1>2, <2>2
    <3>2. all[Len(text) + 1] = piece[1]
      BY <1>0, <1>3, <3>1
    <3> QED
      BY <1>2, <1>8, <2>2, <3>1, <3>2
  <2>3. CASE k > offset
    <3>1. k \in (offset + 1)..(offset + l) /\ k \in 1..n /\ k # offset
          /\ k - offset \in 1..l /\ (k - offset) + 1 \in 1..Len(piece)
          /\ k + 1 = Len(text) + ((k - offset) + 1)
      BY <1>0, <1>1, <1>2, <2>3 DEF l
    <3>2. argv[k] = read[k] /\ read[k] = c[k - offset]
      BY <1>0, <1>8, <3>1 DEF l
    <3>3. all[k + 1] = piece[(k - offset) + 1]
      BY <1>0, <1>3, <3>1
    <3> QED
      BY <1>2, <3>1, <3>2, <3>3
  <2> QED
    BY <1>1, <2>1, <2>2, <2>3
<1>10. argv[offset + l + 1] = Nul
  <2>1. /\ offset + l + 1 \in 1..n /\ offset + l + 1 # offset
        /\ offset + l + 1 \notin (offset + 1)..(offset + l)
    BY <1>0, <1>1 DEF l
  <2> QED
    BY <1>0, <1>8, <2>1 DEF l
<1>11. Len(all) = offset + l + 1
  BY <1>0, <1>1, <1>2, <1>3
<1> QED
  BY <1>3, <1>8, <1>9, <1>10, <1>11 DEF Memory, argv, all, piece, l, AppendRight

\* One more argument is read: it is put behind the text of those before it.
LEMMA ReadArgE ==
  ASSUME EInv, NEW t \in Threads, ReadArg(t)
  PROVE  EInv'
<1> DEFINE r == ReadUser(scratch.argv, arg.offset + 1, ArgSize, Args(t)[arg.i + 1])
<1>1. /\ running = {t} /\ arg.i < MaxArgs /\ arg.i < Len(Args(t))
      /\ arg.offset <= ArgsSize - ArgSize /\ r.ret >= 0
      /\ scratch' = [scratch EXCEPT !.argv = IF arg.offset = 0 THEN r.mem
                                             ELSE [r.mem EXCEPT ![arg.offset] = " "]]
      /\ arg' = [i |-> arg.i + 1, offset |-> arg.offset + r.ret]
      /\ running' = running /\ calling' = calling /\ entry' = entry /\ printed' = printed
  BY DEF ReadArg
<1>2. PICK c \in Calls :
        /\ calling[t] = {c} /\ entry[t] = {} /\ Args(t) = c.args
        /\ c.args \in Seq(Strings)
        /\ scratch.errors => NameFault(c)
        /\ ReadSoFar(c)
        /\ scratch \in Elements
        /\ \A u \in Threads : u # t => ThreadOK(u)
  BY <1>1, RunningCall
<1> DEFINE args == c.args
           n == Len(Looked(args))
           i == arg.i
           offset == arg.offset
           next == args[i + 1]
           text == TextOf(args)[i]
           cut == Copied(next, ArgSize)
           all == TextOf(args)[i + 1]
           argv == scratch'.argv
<1>3. /\ i \in 0..n /\ offset \in Nat /\ offset = Len(text)
      /\ \A k \in 1..i : args[k] # Fault
      /\ \A k \in 1..(offset - 1) : scratch.argv[k] = text[k + 1]
  BY <1>2 DEF EInv, TypeOK, ReadSoFar
<1>4. i \in Nat /\ i < n /\ i + 1 \in 0..n /\ i + 1 \in 1..Len(args)
  <2>1. n \in Nat /\ n <= Len(args) /\ (n = MaxArgs \/ n = Len(args))
    BY <1>2, TextIs
  <2>2. i < MaxArgs /\ i < Len(args)
    BY <1>1, <1>2
  <2> HIDE DEF n, i
  <2> QED
    BY <1>3, <2>1, <2>2
<1>5. next \in Strings
  BY <1>2, <1>4, ElementOfSeq
<1>6. scratch.argv \in Memory(ArgsSize) /\ ArgsSize \in Nat /\ ArgSize \in Nat \ {0}
      /\ offset + 1 \in Nat \ {0}
  BY <1>2, <1>3, SizeAssumption DEF Elements
<1>7. r = ReadUser(scratch.argv, offset + 1, ArgSize, next)
  BY <1>2
<1> HIDE DEF next, cut, r, offset, i, args, all, text, n
<1>8. /\ next # Fault /\ r.mem \in Memory(ArgsSize)
      /\ cut \in Seq(Char) /\ Len(cut) \in 0..(ArgSize - 1) /\ r.ret = Len(cut) + 1
      /\ \A k \in 1..ArgsSize :
           r.mem[k] = IF k \in (offset + 1)..((offset + 1) + Len(cut) - 1)
                      THEN cut[k - (offset + 1) + 1]
                      ELSE IF k = (offset + 1) + Len(cut) THEN Nul ELSE scratch.argv[k]
  <2>1. ReadRight(ArgsSize, scratch.argv, offset + 1, ArgSize, next)
    BY <1>5, <1>6, ReadUserIs
  <2>2. /\ r.mem \in Memory(ArgsSize) /\ r.ret \in Int
        /\ next = Fault <=> r.ret < 0
        /\ next # Fault =>
             /\ cut \in Seq(Char) /\ Len(cut) \in 0..(ArgSize - 1)
             /\ r.ret = Len(cut) + 1
             /\ \A k \in 1..ArgsSize :
                  r.mem[k] = IF k \in (offset + 1)..((offset + 1) + Len(cut) - 1)
                             THEN cut[k - (offset + 1) + 1]
                             ELSE IF k = (offset + 1) + Len(cut) THEN Nul
                             ELSE scratch.argv[k]
    BY <1>7, <2>1 DEF ReadRight, cut
  <2>3. next # Fault
    <3>1. r.ret \in Int /\ r.ret >= 0 /\ (next = Fault <=> r.ret < 0)
      BY <1>1, <2>2, Zenon
    <3> QED
      BY <3>1
  <2> QED
    BY <2>2, <2>3, Zenon
<1>9. \A k \in 1..ArgsSize :
        r.mem[k] = IF k \in (offset + 1)..(offset + Len(cut)) THEN cut[k - offset]
                   ELSE IF k = offset + Len(cut) + 1 THEN Nul ELSE scratch.argv[k]
  <2>1. Len(cut) \in Nat /\ offset \in Nat
    BY <1>3, <1>8
  <2>2. /\ (offset + 1) + Len(cut) - 1 = offset + Len(cut)
        /\ (offset + 1) + Len(cut) = offset + Len(cut) + 1
        /\ \A k \in 1..ArgsSize : k - (offset + 1) + 1 = k - offset
    BY <1>6, <2>1
  <2> QED
    BY <1>8, <2>2
<1>10. text \in Seq(Char) /\ all = text \o (<<" ">> \o cut)
  BY <1>2, <1>4, <1>8, NextPiece DEF next, cut, text, all, args, n
<1>11. offset + Len(cut) + 1 <= ArgsSize /\ offset + Len(cut) \in Nat
  <2>1. offset <= ArgsSize - ArgSize
    BY <1>1 DEF offset
  <2> QED
    BY <1>3, <1>6, <1>8, <2>1
<1>12. /\ argv = IF offset = 0 THEN r.mem ELSE [r.mem EXCEPT ![offset] = " "]
       /\ scratch' = [scratch EXCEPT !.argv = argv]
  BY <1>1, <1>2 DEF Elements, offset, r
<1> HIDE DEF argv
<1>13. /\ argv \in Memory(ArgsSize)
       /\ Len(all) = offset + Len(cut) + 1
       /\ \A k \in 1..(offset + Len(cut)) : argv[k] = all[k + 1]
       /\ argv[offset + Len(cut) + 1] = Nul
  <2>1. Holds(scratch.argv, text, offset)
    BY <1>3 DEF Holds
  <2>2. Behind(ArgsSize, scratch.argv, r.mem, offset, cut)
    BY <1>9, <1>11 DEF Behind
  <2>3. " " \in Char
    BY TextAssumption
  <2>4. AppendRight(ArgsSize, r.mem, " ", text, cut, offset)
    BY <1>3, <1>6, <1>8, <1>10, <2>1, <2>2, <2>3, Appended, Zenon
  <2> QED
    BY <1>10, <1>12, <2>4, Zenon DEF AppendRight
<1>14. scratch' \in Elements /\ scratch'.errors = scratch.errors
  <2>1. scratch \in [str : Memory(PathSize), len : Int, argv : Memory(ArgsSize),
                      errors : BOOLEAN]
    BY <1>2 DEF Elements
  <2> QED
    BY <1>12, <1>13, <2>1 DEF Elements
<1>15. arg' = [i |-> i + 1, offset |-> offset + Len(cut) + 1]
  <2>1. arg' = [i |-> i + 1, offset |-> offset + r.ret]
    BY <1>1 DEF i, offset
  <2>2. offset + r.ret = offset + Len(cut) + 1
    BY <1>3, <1>8
  <2> QED
    BY <2>1, <2>2
<1>16. ReadSoFar(c)'
  <2>1. arg'.i = i + 1 /\ arg'.offset = offset + Len(cut) + 1
    BY <1>15
  <2>2. TextOf(c.args)[arg'.i] = all
    BY <2>1 DEF all, args
  <2>3. arg'.i \in 0..Len(Looked(c.args))
    BY <1>4, <2>1 DEF n, args
  <2>4. \A k \in 1..arg'.i : c.args[k] # Fault
    <3>1. ASSUME NEW k \in 1..(i + 1) PROVE args[k] # Fault
      <4>1. CASE k = i + 1
        BY <1>8, <4>1 DEF next
      <4>2. CASE k # i + 1
        <5>1. k \in 1..i
          BY <1>4, <4>2
        <5> QED
          BY <1>3, <5>1
      <4> QED
        BY <4>1, <4>2
    <3> QED
      BY <2>1, <3>1 DEF args
  <2>5. arg'.offset - 1 = offset + Len(cut)
    BY <1>11, <2>1
  <2>6. \A k \in 1..(arg'.offset - 1) : scratch'.argv[k] = all[k + 1]
    BY <1>13, <2>5 DEF argv
  <2>7. scratch'.argv[arg'.offset] = Nul
    BY <1>13, <2>1 DEF argv
  <2> QED
    BY <1>11, <1>13, <2>1, <2>2, <2>3, <2>4, <2>6, <2>7 DEF ReadSoFar
<1>17. TypeOK'
  <2>1. arg' \in [i : Nat, offset : Nat]
    BY <1>4, <1>11, <1>15
  <2> QED
    BY <1>1, <1>14, <2>1 DEF EInv, TypeOK
<1>18. ThreadOK(t)'
  BY <1>1, <1>2, <1>14, <1>16 DEF ThreadOK
<1>19. \A u \in Threads : u # t => ThreadOK(u)'
  <2>1. \A u \in Threads : u # t => calling'[u] = calling[u] /\ entry'[u] = entry[u]
    BY <1>1
  <2> QED
    BY <1>1, <1>2, <2>1, OthersOK
<1>20. LogOK'
  BY <1>1 DEF EInv, LogOK
<1> QED
  BY <1>17, <1>18, <1>19, <1>20 DEF EInv

\* The enter program ends, with an entry about its call.
LEMMA StoreE ==
  ASSUME EInv, NEW t \in Threads, running = {t}, NEW s \in Elements, Store(t, s),
         \A c \in calling[t] : ErrorsOK(c, s.errors) /\ ArgvOK(c, s.errors, Printed(s.argv))
  PROVE  EInv'
<1>1. /\ scratch' = s /\ entry' = [entry EXCEPT ![t] = {s}] /\ running' = {}
      /\ arg' = arg /\ calling' = calling /\ printed' = printed
  BY DEF Store
<1>2. TypeOK'
  BY <1>1 DEF EInv, TypeOK
<1>3. entry'[t] = {s} /\ \A u \in Threads : u # t => entry'[u] = entry[u]
  BY <1>1 DEF EInv, TypeOK
<1>4. PICK c \in Calls : calling[t] = {c}
  BY RunningCall
<1>5. ThreadOK(t)'
  BY <1>1, <1>3, <1>4 DEF ThreadOK
<1>6. \A u \in Threads : u # t => ThreadOK(u)'
  <2>1. \A u \in Threads : u # t => ThreadOK(u)
    BY DEF EInv
  <2>2. \A u \in Threads : u # t => calling'[u] = calling[u] /\ entry'[u] = entry[u]
    BY <1>1, <1>3
  <2> QED
    BY <1>1, <2>1, <2>2, OthersOK
<1>7. LogOK'
  BY <1>1 DEF EInv, LogOK
<1> QED
  BY <1>2, <1>5, <1>6, <1>7 DEF EInv

\* Where every argument can be read, the text of them all ends with a piece of the last.
LEMMA LastPiece ==
  ASSUME NEW args \in Seq(Strings), Len(Looked(args)) > 0,
         \A k \in DOMAIN Looked(args) : args[k] # Fault
  PROVE  LET text == TextOf(args)[Len(Looked(args))] IN
         /\ text \in Seq(Char) /\ Len(text) \in Nat \ {0}
         /\ Tail(text) = Joined(Kept(args))
         /\ Len(text) = Len(Joined(Kept(args))) + 1
<1> DEFINE n == Len(Looked(args))
           f == TextOf(args)
           i == n - 1
           c == Copied(args[i + 1], ArgSize)
           piece == <<" ">> \o c
<1>1. /\ n \in Nat /\ DOMAIN Looked(args) = 1..n
      /\ f \in [0..n -> Seq(Char)]
  BY TextIs
<1>2. i \in Nat /\ i < n /\ i + 1 = n /\ n \in 1..n /\ n \in 0..n
  BY <1>1
<1>3. args[i + 1] # Fault
  BY <1>1, <1>2
<1> HIDE DEF i
<1>4. c \in Seq(Char) /\ piece \in Seq(Char) /\ f[i] \in Seq(Char) /\ f[i + 1] = f[i] \o piece
  BY <1>2, <1>3, NextPiece
<1>5. Len(piece) = Len(c) + 1
  BY <1>4, Spaced
<1> HIDE DEF piece, c
<1>6. \A s, t \in Seq(Char) : Len(s \o t) = Len(s) + Len(t) /\ Len(s) \in Nat
  OBVIOUS
<1> DEFINE text == f[n]
<1>7. text \in Seq(Char) /\ text = f[i] \o piece
  BY <1>1, <1>2, <1>4
<1>8. Tail(text) = Joined(Kept(args))
  BY JoinedIs
<1> HIDE DEF f, text
<1>9. Len(text) \in Nat \ {0}
  <2>1. Len(text) = Len(f[i]) + Len(piece)
    BY <1>4, <1>6, <1>7
  <2>2. Len(f[i]) \in Nat
    BY <1>4
  <2>3. Len(piece) \in Nat \ {0}
    <3>1. Len(c) \in Nat
      BY <1>4
    <3> QED
      BY <1>5, <3>1
  <2> QED
    BY <2>1, <2>2, <2>3
<1>10. Len(Tail(text)) = Len(text) - 1
  <2>1. text # <<>>
    BY <1>9
  <2> QED
    BY <1>7, <2>1, HeadTailProperties
<1>11. Len(text) = Len(Tail(text)) + 1
  BY <1>9, <1>10
<1> QED
  BY <1>7, <1>8, <1>9, <1>11 DEF text, f, n

\* All arguments are read: the element has their text.
LEMMA ReadArgvEndsE ==
  ASSUME EInv, NEW t \in Threads, ReadArgvEnds(t)
  PROVE  EInv'
<1>1. /\ running = {t} /\ Store(t, scratch)
      /\ arg.i = MaxArgs \/ arg.i = Len(Args(t))
  BY DEF ReadArgvEnds
<1>2. PICK c \in Calls :
        /\ calling[t] = {c} /\ Args(t) = c.args
        /\ c.args \in Seq(Strings)
        /\ scratch.errors => NameFault(c)
        /\ ReadSoFar(c)
        /\ scratch \in Elements
  BY <1>1, RunningCall
<1> DEFINE args == c.args
           n == Len(Looked(args))
           text == TextOf(args)[n]
           m == arg.offset
<1>3. /\ n \in Nat /\ n <= MaxArgs /\ n <= Len(args) /\ (n = MaxArgs \/ n = Len(args))
      /\ DOMAIN Looked(args) = 1..n
  BY <1>2, TextIs
<1>4. arg.i = n
  <2>1. arg.i \in 0..n /\ (arg.i = MaxArgs \/ arg.i = Len(args))
    BY <1>1, <1>2 DEF ReadSoFar
  <2> HIDE DEF n
  <2> QED
    BY <1>3, <2>1
<1>5. /\ \A k \in 1..n : args[k] # Fault
      /\ m = Len(text) /\ m <= ArgsSize
      /\ \A k \in 1..(m - 1) : scratch.argv[k] = text[k + 1]
      /\ m > 0 => scratch.argv[m] = Nul
  BY <1>2, <1>4 DEF ReadSoFar
<1>6. ErrorsOK(c, scratch.errors)
  BY <1>2 DEF ErrorsOK
<1>7. ASSUME args # <<>> PROVE Printed(scratch.argv) = Joined(Kept(args))
  <2>1. n > 0
    <3>1. Len(args) \in Nat /\ Len(args) > 0
      BY <1>2, <1>7
    <3> HIDE DEF n
    <3> QED
      BY <1>3, <3>1, SizeAssumption
  <2>2. /\ text \in Seq(Char) /\ Len(text) \in Nat \ {0}
        /\ Tail(text) = Joined(Kept(args))
    BY <1>2, <1>3, <1>5, <2>1, LastPiece
  <2>3. scratch.argv \in Memory(ArgsSize) /\ ArgsSize \in Nat
    BY <1>2, SizeAssumption DEF Elements
  <2> HIDE DEF text, m
  <2>4. m \in 1..ArgsSize /\ m > 0
    BY <1>5, <2>2, <2>3
  <2>5. Len(text) = m /\ scratch.argv[m] = Nul
    BY <1>5, <2>4
  <2>6. Printed(scratch.argv) = Tail(text)
    BY <1>5, <2>2, <2>3, <2>4, <2>5, PrintedIs
  <2> QED
    BY <2>2, <2>6
<1>8. ArgvOK(c, scratch.errors, Printed(scratch.argv))
  BY <1>3, <1>5, <1>7 DEF ArgvOK
<1> QED
  BY <1>1, <1>2, <1>6, <1>8, StoreE

\* Not all arguments are read: the call's own arguments are the reason.
LEMMA ReadArgvFailsE ==
  ASSUME EInv, NEW t \in Threads, ReadArgvFails(t)
  PROVE  EInv'
<1>1. /\ running = {t} /\ arg.i < MaxArgs /\ arg.i < Len(Args(t))
      /\ \/ /\ arg.offset > ArgsSize - ArgSize
            /\ Store(t, [scratch EXCEPT !.errors = TRUE])
         \/ /\ Args(t)[arg.i + 1] = Fault
            /\ Store(t, [scratch EXCEPT !.errors = TRUE,
                 !.argv = ReadUser(@, arg.offset + 1, ArgSize, Fault).mem])
  BY DEF ReadArgvFails
<1>2. PICK c \in Calls :
        /\ calling[t] = {c} /\ Args(t) = c.args
        /\ c.args \in Seq(Strings)
        /\ ReadSoFar(c)
        /\ scratch \in Elements
  BY <1>1, RunningCall
<1> DEFINE args == c.args
           n == Len(Looked(args))
           i == arg.i
           f == TextOf(args)
<1>3. /\ n \in Nat /\ n <= Len(args) /\ (n = MaxArgs \/ n = Len(args))
      /\ DOMAIN Looked(args) = 1..n
      /\ Pieces(args) \in [1..n -> Seq(Char)]
      /\ f \in [0..n -> Seq(Char)] /\ PutTogether(f, Pieces(args), n)
  BY <1>2, TextIs
<1>4. i \in 0..n /\ arg.offset = Len(f[i])
  BY <1>2 DEF ReadSoFar
<1>5. i \in Nat /\ i < n /\ n > 0 /\ i + 1 \in 1..n
  <2>1. i < MaxArgs /\ i < Len(args)
    BY <1>1, <1>2
  <2> HIDE DEF n, i
  <2> QED
    BY <1>3, <1>4, <2>1
<1>6. \A s \in Elements : s.errors = TRUE /\ ArgsFault(c)
        => ErrorsOK(c, s.errors) /\ ArgvOK(c, s.errors, Printed(s.argv))
  BY DEF ErrorsOK, ArgvOK
<1>7. CASE /\ arg.offset > ArgsSize - ArgSize
           /\ Store(t, [scratch EXCEPT !.errors = TRUE])
  <2> DEFINE s == [scratch EXCEPT !.errors = TRUE]
  <2>1. s \in Elements /\ s.errors = TRUE
    BY <1>2 DEF Elements
  <2>2. ASSUME \A k \in 1..n : args[k] # Fault PROVE ArgsFault(c)
    <3> DEFINE text == f[n]
               joined == Len(Joined(Kept(args)))
    <3>1. Len(text) \in Nat \ {0} /\ Len(text) = joined + 1
      BY <1>2, <1>3, <1>5, <2>2, LastPiece
    <3>2. Len(f[i]) <= Len(text)
      BY <1>3, <1>4, Begins
    <3>3. args # <<>>
      BY <1>3, <1>5
    <3> HIDE DEF joined, text
    <3>4. Len(f[i]) \in Nat
      BY <1>3, <1>4
    <3>5. joined + 1 > ArgsSize - ArgSize
      BY <1>4, <1>7, <3>1, <3>2, <3>4, SizeAssumption
    <3> QED
      BY <3>3, <3>5 DEF ArgsFault, joined
  <2>3. ArgsFault(c)
    BY <1>3, <2>2 DEF ArgsFault
  <2> HIDE DEF s
  <2>4. Store(t, s)
    BY <1>7 DEF s
  <2> QED
    BY <1>1, <1>2, <1>6, <2>1, <2>3, <2>4, StoreE
<1>8. CASE /\ Args(t)[arg.i + 1] = Fault
           /\ Store(t, [scratch EXCEPT !.errors = TRUE,
                !.argv = ReadUser(@, arg.offset + 1, ArgSize, Fault).mem])
  <2> DEFINE mem == ReadUser(scratch.argv, arg.offset + 1, ArgSize, Fault).mem
             s == [scratch EXCEPT !.errors = TRUE, !.argv = mem]
  <2>1. mem \in Memory(ArgsSize)
    <3>1. /\ scratch.argv \in Memory(ArgsSize) /\ ArgsSize \in Nat /\ ArgSize \in Nat \ {0}
          /\ arg.offset \in Nat
      BY <1>2, SizeAssumption DEF EInv, TypeOK, Elements
    <3>2. arg.offset + 1 \in Nat \ {0} /\ Fault \in Strings
      BY <3>1 DEF Strings
    <3>3. ReadRight(ArgsSize, scratch.argv, arg.offset + 1, ArgSize, Fault)
      BY <3>1, <3>2, ReadUserIs
    <3> QED
      BY <3>3 DEF ReadRight
  <2>2. Store(t, s)
    BY <1>8
  <2> HIDE DEF mem
  <2>3. s \in Elements /\ s.errors = TRUE
    BY <1>2, <2>1 DEF Elements
  <2>4. ArgsFault(c)
    BY <1>2, <1>3, <1>5, <1>8 DEF ArgsFault
  <2> HIDE DEF s
  <2> QED
    BY <1>1, <1>2, <1>6, <2>2, <2>3, <2>4, StoreE
<1> QED
  BY <1>1, <1>7, <1>8

\* The exit program makes the record of the entry, which is about the call.
LEMMA SysExitE ==
  ASSUME EInv, NEW t \in Threads, SysExit(t)
  PROVE  EInv'
<1>1. PICK e \in entry[t], c \in calling[t] :
        printed' = {[call |-> c, errors |-> e.errors,
                     file |-> FileText(e), argv |-> Printed(e.argv)]}
  BY DEF SysExit
<1>2. /\ running = {}
      /\ calling' = [calling EXCEPT ![t] = {}]
      /\ entry' = [entry EXCEPT ![t] = {}]
      /\ scratch' = scratch /\ running' = running /\ arg' = arg
  BY DEF SysExit
<1>3. TypeOK'
  BY <1>2 DEF EInv, TypeOK
<1>4. ThreadOK(t)
  BY DEF EInv
<1>5. calling'[t] = {} /\ entry'[t] = {}
      /\ \A u \in Threads : u # t => calling'[u] = calling[u] /\ entry'[u] = entry[u]
  BY <1>2 DEF EInv, TypeOK
<1>6. ThreadOK(t)'
  BY <1>2, <1>5 DEF ThreadOK
<1>7. \A u \in Threads : u # t => ThreadOK(u)'
  <2>1. \A u \in Threads : u # t => ThreadOK(u)
    BY DEF EInv
  <2> QED
    BY <1>2, <1>5, <2>1, OthersOK
<1>8. LogOK'
  <2>1. ErrorsOK(c, e.errors) /\ ArgvOK(c, e.errors, Printed(e.argv))
    BY <1>1, <1>4 DEF ThreadOK
  <2> DEFINE p == [call |-> c, errors |-> e.errors,
                   file |-> FileText(e), argv |-> Printed(e.argv)]
  <2>2. p.call = c /\ p.errors = e.errors /\ p.argv = Printed(e.argv) /\ printed' = {p}
    BY <1>1
  <2> HIDE DEF p
  <2> QED
    BY <2>1, <2>2 DEF LogOK
<1> QED
  BY <1>3, <1>6, <1>7, <1>8 DEF EInv

-----------------------------------------------------------------------------
(* The theorems *)

LEMMA SpecEInv == Spec => []EInv
<1>1. Init => EInv
  BY InitE
<1>2. EInv /\ [Next]_vars => EInv'
  <2> SUFFICES ASSUME EInv, [Next]_vars PROVE EInv'
    OBVIOUS
  <2>1. ASSUME NEW t \in Threads, NEW file \in FileNames, NEW args \in ArgLists,
               ReadFilename(t, file, args)
        PROVE  EInv'
    BY <2>1, ReadFilenameE
  <2>2. ASSUME NEW t \in Threads, ReadArg(t) PROVE EInv'
    BY <2>2, ReadArgE
  <2>3. ASSUME NEW t \in Threads, ReadArgvEnds(t) PROVE EInv'
    BY <2>3, ReadArgvEndsE
  <2>4. ASSUME NEW t \in Threads, ReadArgvFails(t) PROVE EInv'
    BY <2>4, ReadArgvFailsE
  <2>5. ASSUME NEW t \in Threads, SysExit(t) PROVE EInv'
    BY <2>5, SysExitE
  <2>6. CASE UNCHANGED vars
    BY <2>6 DEF vars, EInv, TypeOK, ThreadOK, ReadSoFar, LogOK
  <2> QED
    BY <2>1, <2>2, <2>3, <2>4, <2>5, <2>6 DEF Next
<1> QED
  BY <1>1, <1>2, PTL DEF Spec

\* What a record without errors shows of the arguments are those of its call,
\* each cut to its length, whatever other threads left in the scratch element
\* of the CPU and however they take turns (on_sys_enter_execve, read_argv,
\* on_sys_exit_execve, fprint_sys_execve).
THEOREM ArgumentsRight == Spec => []ArgvRight
<1>1. EInv => ArgvRight
  BY DEF EInv, LogOK, ArgvOK, ArgvRight
<1> QED
  BY <1>1, SpecEInv, PTL

\* A record has errors only where the name or the arguments of its own call
\* are the cause; the flag never comes from an earlier call on the CPU.
THEOREM ErrorsExplained == Spec => []ErrorsTrue
<1>1. EInv => ErrorsTrue
  BY DEF EInv, LogOK, ErrorsOK, NameFault, ArgsFault, ErrorsTrue
<1> QED
  BY <1>1, SpecEInv, PTL

-----------------------------------------------------------------------------
(* How resolve_full_path reads a name *)

\* Going up a number of components after one.
LEMMA UpUp ==
  ASSUME NEW C, NEW X \in Comps(C), NEW n \in Nat
  PROVE  UpFrom(UpFrom(X, 1), n) = UpFrom(X, n + 1)
<1>1. PICK m \in Nat : m = Len(X)
  BY DEF Comps
<1> DEFINE a == IF 1 <= m THEN m - 1 ELSE 0
           b == IF n <= a THEN a - n ELSE 0
           b2 == IF n + 1 <= m THEN m - (n + 1) ELSE 0
<1>2. a \in 0..m /\ b \in 0..a /\ b = b2
  BY <1>1
<1> HIDE DEF b2
<1>3. UpFrom(X, n + 1) = SubSeq(X, 1, b)
  BY <1>1, <1>2 DEF UpFrom, b2
<1>4. UpFrom(X, 1) = SubSeq(X, 1, a)
  BY <1>1 DEF UpFrom
<1> HIDE DEF a
<1>5. PICK Y \in Comps(C) : Y = SubSeq(X, 1, a) /\ Len(Y) = a /\ \A i \in 1..a : Y[i] = X[i]
  <2>1. 0 \in 0..Len(X) /\ a \in 0..Len(X) /\ 0 + 1 = 1 /\ a - 0 = a /\ X \in Seq(Seq(C))
    BY <1>1, <1>2 DEF Comps
  <2>2. /\ SubSeq(X, 1, a) \in Seq(Seq(C)) /\ Len(SubSeq(X, 1, a)) = a
        /\ \A k \in 1..a : SubSeq(X, 1, a)[k] = X[0 + k]
    BY <2>1, Piece
  <2>3. \A k \in 1..a : 0 + k = k
    BY <1>2
  <2> QED
    BY <2>2, <2>3 DEF Comps
<1>6. UpFrom(UpFrom(X, 1), n) = SubSeq(Y, 1, b)
  BY <1>4, <1>5 DEF UpFrom
<1> HIDE DEF b
<1>7. SubSeq(Y, 1, b) = SubSeq(X, 1, b)
  <2>1. \A k \in 1..b : Y[k] = X[k]
    BY <1>2, <1>5
  <2>2. b \in 0..Len(Y) /\ b \in 0..Len(X)
    BY <1>1, <1>2, <1>5
  <2>3. \A z \in Seq(Seq(C)) : \A l \in 0..Len(z) : SubSeq(z, 1, l) = [k \in 1..l |-> z[k]]
    OBVIOUS
  <2>4. SubSeq(Y, 1, b) = [k \in 1..b |-> Y[k]] /\ SubSeq(X, 1, b) = [k \in 1..b |-> X[k]]
    BY <2>2, <2>3 DEF Comps
  <2> QED
    BY <2>1, <2>4
<1> QED
  BY <1>3, <1>6, <1>7

\* A place with the directory that lies p components above its own.
Raised(L, p) == [L EXCEPT !.done = UpFrom(@, p)]

\* Going up from a directory, and past ".." and past any other component.
LEMMA RaisedIs ==
  ASSUME NEW C, NEW X \in Comps(C), NEW c \in Seq(C), NEW p \in Nat
  PROVE  /\ Raised(In(X), p) = In(UpFrom(X, p))
         /\ \A L \in Places(C) : Raised(L, 0) = L
         /\ Raised(In(EnterComponent(X, <<".", ".">>)), p) = Raised(In(X), p + 1)
         /\ Raised(In(Append(X, c)), p + 1) = Raised(In(X), p)
<1>1. ASSUME NEW Z, NEW q PROVE Raised(In(Z), q) = In(UpFrom(Z, q))
  BY DEF Raised, In
<1>2. ASSUME NEW L \in Places(C) PROVE Raised(L, 0) = L
  <2>1. L.done \in Comps(C) /\ L = [done |-> L.done, cur |-> L.cur]
    BY DEF Places
  <2>2. UpFrom(L.done, 0) = L.done
    BY <2>1, UpIs
  <2> QED
    BY <2>1, <2>2 DEF Raised
<1>3. UpFrom(EnterComponent(X, <<".", ".">>), p) = UpFrom(X, p + 1)
  <2>1. UpFrom(X, 0) = X /\ EnterComponent(UpFrom(X, 0), <<".", ".">>) = UpFrom(X, 0 + 1)
    <3>1. 0 \in Nat
      OBVIOUS
    <3> QED
      BY <3>1, UpIs
  <2>2. 0 + 1 = 1
    OBVIOUS
  <2> QED
    BY <2>1, <2>2, UpUp
<1>4. UpFrom(Append(X, c), p + 1) = UpFrom(X, p)
  <2>1. PICK Z \in Comps(C) : Z = Append(X, c)
    <3>1. Append(X, c) \in Seq(Seq(C))
      BY AppendProperties DEF Comps
    <3> QED
      BY <3>1 DEF Comps
  <2>2. UpFrom(Z, 0) = Z /\ 0 \in Nat /\ 0 + 1 = 1
    <3>1. 0 \in Nat
      OBVIOUS
    <3> QED
      BY <3>1, UpIs
  <2>3. UpFrom(Z, 1) = X
    BY <2>1, <2>2, UpOne, SMTT(60)
  <2> QED
    BY <2>1, <2>3, UpUp
<1> QED
  BY <1>1, <1>2, <1>3, <1>4

\* Where the first i characters of a name lead.
At(D, name, i) == LeadsTo(In(D), SubSeq(name, 1, i))

\* The part of a name between two slashes is one component.
Passed(C, D, name, j, i, X, c) ==
  /\ Len(c) = (i - 1) - j /\ \A k \in 1..((i - 1) - j) : c[k] = name[j + k]
  /\ At(D, name, j) = In(X)
  /\ At(D, name, i) = In(EnterComponent(X, c))

\* Between two slashes with none between them there is one component.
LEMMA Passes ==
  ASSUME NEW C, "/" \in C, NEW D \in Comps(C), NEW name \in Seq(C),
         NEW i \in 1..Len(name), name[i] = "/", NEW j \in 0..(i - 1), j = 0 \/ name[j] = "/",
         \A k \in (j + 1)..(i - 1) : name[k] # "/"
  PROVE  \E X \in Comps(C), c \in Seq(C) : Passed(C, D, name, j, i, X, c)
<1>1. PICK m \in Nat : m = Len(name)
  OBVIOUS
<1>2. /\ j \in 0..m /\ i - 1 \in 0..m /\ i - 1 \in j..m /\ i \in 0..m /\ i \in (i - 1)..m
      /\ (i - 1) + 1 = i /\ 0 \in 0..m /\ j \in 0..m /\ 0 + 1 = 1 /\ j - 0 = j /\ i \in Nat
      /\ i - (i - 1) = 1
  BY <1>1
<1>3. PICK a \in Seq(C) : /\ a = SubSeq(name, 1, j) /\ Len(a) = j
                          /\ \A k \in 1..j : a[k] = name[k]
  <2>1. /\ SubSeq(name, 1, j) \in Seq(C) /\ Len(SubSeq(name, 1, j)) = j
        /\ \A k \in 1..j : SubSeq(name, 1, j)[k] = name[0 + k]
    BY <1>1, <1>2, Piece
  <2>2. \A k \in 1..j : 0 + k = k
    BY <1>2
  <2> QED
    BY <2>1, <2>2
<1>4. a = <<>> \/ a[Len(a)] = "/"
  <2>1. CASE j = 0
    BY <1>3, <2>1, EmptySeq
  <2>2. CASE j # 0
    <3>1. j \in 1..j
      BY <2>2
    <3> QED
      BY <1>3, <2>2, <3>1
  <2> QED
    BY <2>1, <2>2
<1>5. PICK X \in Comps(C) : LeadsTo(In(D), a) = In(X)
  BY <1>4, DoneLeads
<1>6. PICK c \in Seq(C) :
        /\ c = SubSeq(name, j + 1, i - 1) /\ Len(c) = (i - 1) - j
        /\ \A k \in 1..((i - 1) - j) : c[k] = name[j + k]
        /\ SubSeq(name, 1, i - 1) = a \o c
  <2>1. /\ SubSeq(name, j + 1, i - 1) \in Seq(C) /\ Len(SubSeq(name, j + 1, i - 1)) = (i - 1) - j
        /\ \A k \in 1..((i - 1) - j) : SubSeq(name, j + 1, i - 1)[k] = name[j + k]
        /\ SubSeq(name, 1, i - 1) = SubSeq(name, 1, j) \o SubSeq(name, j + 1, i - 1)
    <3>1. PICK l \in j..Len(name) : l = i - 1
      BY <1>1, <1>2
    <3>2. j \in 0..Len(name)
      BY <1>1, <1>2
    <3>3. /\ SubSeq(name, j + 1, l) \in Seq(C) /\ Len(SubSeq(name, j + 1, l)) = l - j
          /\ \A k \in 1..(l - j) : SubSeq(name, j + 1, l)[k] = name[j + k]
          /\ SubSeq(name, 1, l) = SubSeq(name, 1, j) \o SubSeq(name, j + 1, l)
      BY <3>2, Piece
    <3> QED
      BY <3>1, <3>3, Zenon
  <2> QED
    BY <1>3, <2>1, Zenon
<1>7. \A k \in 1..Len(c) : c[k] # "/"
  <2>1. \A k \in 1..((i - 1) - j) : j + k \in (j + 1)..(i - 1)
    BY <1>2
  <2> QED
    BY <1>6, <2>1
<1>8. SubSeq(name, 1, i) = (a \o c) \o <<"/">>
  <2>1. SubSeq(name, 1, i) = SubSeq(name, 1, i - 1) \o <<name[i]>>
    BY <1>1, <1>2, SubSeqRecursiveSecond
  <2> QED
    BY <1>6, <2>1, Zenon
<1>9. PICK t \in Seq(C) : t = <<"/">>
  <2>1. <<"/">> \in Seq(C)
    OBVIOUS
  <2> QED
    BY <2>1
<1>10. LeadsTo(In(D), (a \o c) \o t) = LeadsTo(LeadsTo(In(D), a), c \o t)
  BY InIs, LeadsToThree
<1>11. LeadsTo(In(X), c \o <<"/">>) = In(EnterComponent(X, c))
  BY <1>7, SlashLeads
<1>12. At(D, name, i) = In(EnterComponent(X, c))
  BY <1>5, <1>8, <1>9, <1>10, <1>11, Zenon DEF At
<1> QED
  BY <1>3, <1>5, <1>6, <1>12 DEF Passed, At

\* resolve_full_path between two iterations.
Scans == [i : Nat, parents : Nat, out : Seq(Char \cup {Nul}), room : Int]

Passing(r, i, p) == [r EXCEPT !.i = i, !.parents = p]
Taking(r, ch) == [r EXCEPT !.i = @ - 1, !.out = <<ch>> \o @, !.room = @ - 1]

\* The character at a position, if the text has it.
CharAt(s, k) == IF k >= 1 THEN s[k] ELSE Nul

\* An iteration, by what is found before position i.
LEMMA NextScanIs ==
  ASSUME NEW s, NEW r \in Scans, NEW i \in Nat, i = r.i, NEW p \in Nat, p = r.parents,
         NEW b1, b1 = CharAt(s, i - 1), NEW b2, b2 = CharAt(s, i - 2)
  PROVE  /\ s[i] = "/" /\ b1 = "." /\ b2 = "." => NextScan(s, r) = Passing(r, i - 3, p + 1)
         /\ s[i] = "/" /\ b1 = "." /\ b2 # "." => NextScan(s, r) = Passing(r, i - 2, p)
         /\ s[i] = "/" /\ b1 = "/" => NextScan(s, r) = Passing(r, i - 1, p)
         /\ s[i] = "/" /\ b1 \notin {".", "/"} /\ p > 0
            => NextScan(s, r) = Passing(r, SlashBefore(s, i), p - 1)
         /\ s[i] # "/" \/ (b1 \notin {".", "/"} /\ p = 0) => NextScan(s, r) = Taking(r, s[i])
<1> DEFINE a == s[i]
<1>1. NextScan(s, r) =
        CASE a = "/" /\ b1 = "." /\ b2 = "." ->
               [r EXCEPT !.i = @ - 3, !.parents = @ + 1]
          [] a = "/" /\ b1 = "." /\ b2 # "." -> [r EXCEPT !.i = @ - 2]
          [] a = "/" /\ b1 = "/" -> [r EXCEPT !.i = @ - 1]
          [] a = "/" /\ b1 \notin {".", "/"} /\ r.parents > 0 ->
               [r EXCEPT !.i = SlashBefore(s, @), !.parents = @ - 1]
          [] OTHER -> [r EXCEPT !.i = @ - 1, !.out = <<a>> \o @, !.room = @ - 1]
  BY DEF NextScan, CharAt
<1> DEFINE two == [r EXCEPT !.i = @ - 3, !.parents = @ + 1]
           one == [r EXCEPT !.i = @ - 2]
           none == [r EXCEPT !.i = @ - 1]
           back == [r EXCEPT !.i = SlashBefore(s, @), !.parents = @ - 1]
           take == [r EXCEPT !.i = @ - 1, !.out = <<a>> \o @, !.room = @ - 1]
<1>2. /\ two = Passing(r, i - 3, p + 1) /\ one = Passing(r, i - 2, p)
      /\ none = Passing(r, i - 1, p) /\ back = Passing(r, SlashBefore(s, i), p - 1)
      /\ take = Taking(r, a)
  BY DEF Passing, Taking, Scans
<1> HIDE DEF two, one, none, back, take
<1>3. NextScan(s, r) =
        CASE a = "/" /\ b1 = "." /\ b2 = "." -> two
          [] a = "/" /\ b1 = "." /\ b2 # "." -> one
          [] a = "/" /\ b1 = "/" -> none
          [] a = "/" /\ b1 \notin {".", "/"} /\ r.parents > 0 -> back
          [] OTHER -> take
  BY <1>1 DEF two, one, none, back, take
<1> QED
  BY <1>2, <1>3

\* The last slash before a position.
LEMMA SlashBeforeIs ==
  ASSUME NEW s, NEW i \in Nat \ {0}
  PROVE  /\ SlashBefore(s, i) \in 0..(i - 1)
         /\ SlashBefore(s, i) = 0 \/ s[SlashBefore(s, i)] = "/"
         /\ \A k \in (SlashBefore(s, i) + 1)..(i - 1) : s[k] # "/"
<1> DEFINE found == {k \in 1..(i - 1) : s[k] = "/"}
<1>1. SlashBefore(s, i) = IF found = {} THEN 0 ELSE CHOOSE k \in found : \A j \in found : j <= k
  BY DEF SlashBefore
<1>2. CASE found = {}
  <2>1. SlashBefore(s, i) = 0
    BY <1>1, <1>2
  <2>2. \A k \in 1..(i - 1) : s[k] # "/"
    BY <1>2
  <2> QED
    BY <2>1, <2>2
<1>3. CASE found # {}
  <2> DEFINE T == {i - k : k \in found}
  <2>1. T \subseteq Nat /\ T # {}
    BY <1>3
  <2>2. PICK x \in T : \A y \in T : x <= y
    BY <2>1, Least
  <2>3. PICK m \in found : x = i - m
    BY <2>2
  <2>4. \A k \in found : k <= m
    BY <2>2, <2>3
  <2>5. PICK j : j = CHOOSE k \in found : \A l \in found : l <= k
    OBVIOUS
  <2>6. j \in found /\ \A l \in found : l <= j
    BY <2>4, <2>5
  <2>7. SlashBefore(s, i) = j
    BY <1>1, <1>3, <2>5
  <2>8. j \in 0..(i - 1) /\ s[j] = "/" /\ \A k \in (j + 1)..(i - 1) : s[k] # "/"
    BY <2>6
  <2> QED
    BY <2>7, <2>8
<1> QED
  BY <1>2, <1>3

\* What a component between two slashes changes about the place.
PassedRight(D, name, i, j, p) ==
  /\ j = i - 1 => Raised(At(D, name, i), p) = Raised(At(D, name, j), p)
  /\ j = i - 2 /\ name[i - 1] = "." => Raised(At(D, name, i), p) = Raised(At(D, name, j), p)
  /\ j = i - 3 /\ name[i - 1] = "." /\ name[i - 2] = "."
     => Raised(At(D, name, i), p) = Raised(At(D, name, j), p + 1)
  /\ j # i - 1 /\ name[i - 1] # "."
     => Raised(At(D, name, i), p + 1) = Raised(At(D, name, j), p)

LEMMA PassedIs ==
  ASSUME NEW C, "/" \in C, "." \in C, NEW D \in Comps(C), NEW name \in Seq(C),
         NEW i \in 1..Len(name), name[i] = "/", NEW j \in 0..(i - 1), j = 0 \/ name[j] = "/",
         \A k \in (j + 1)..(i - 1) : name[k] # "/", NEW p \in Nat
  PROVE  PassedRight(D, name, i, j, p)
<1>1. PICK X \in Comps(C), c \in Seq(C) : Passed(C, D, name, j, i, X, c)
  BY Passes
<1>2. PICK n \in Nat : n = (i - 1) - j
  OBVIOUS
<1>3. /\ Len(c) = n /\ \A k \in 1..n : c[k] = name[j + k]
      /\ At(D, name, j) = In(X) /\ At(D, name, i) = In(EnterComponent(X, c))
  BY <1>1, <1>2 DEF Passed
<1>4. CASE j = i - 1
  <2>1. n = 0
    BY <1>2, <1>4
  <2>2. c = <<>>
    BY <1>3, <2>1, EmptySeq
  <2>3. EnterComponent(X, c) = X
    BY <2>2 DEF EnterComponent
  <2> QED
    BY <1>3, <1>4, <2>3 DEF PassedRight
<1>5. CASE j = i - 2 /\ name[i - 1] = "."
  <2>1. n = 1 /\ j + 1 = i - 1
    BY <1>2, <1>5
  <2>2. c[1] = "." /\ Len(c) = 1
    BY <1>3, <1>5, <2>1
  <2>3. c = <<".">>
    BY <2>2
  <2>4. EnterComponent(X, c) = X
    BY <2>3 DEF EnterComponent
  <2> QED
    BY <1>3, <1>5, <2>1, <2>4 DEF PassedRight
<1>6. CASE j = i - 3 /\ name[i - 1] = "." /\ name[i - 2] = "."
  <2>1. n = 2 /\ j + 1 = i - 2 /\ j + 2 = i - 1
    BY <1>2, <1>6
  <2>2. c[1] = "." /\ c[2] = "." /\ Len(c) = 2
    BY <1>3, <1>6, <2>1
  <2>3. c = <<".", ".">>
    BY <2>2
  <2>4. Raised(In(EnterComponent(X, c)), p) = Raised(In(X), p + 1)
    BY <2>3, RaisedIs
  <2> QED
    BY <1>3, <1>6, <2>1, <2>4 DEF PassedRight
<1>7. CASE j # i - 1 /\ name[i - 1] # "."
  <2>1. n \in 1..n /\ j + n = i - 1
    BY <1>2, <1>7
  <2>2. Len(c) = n /\ c[n] # "." /\ n # 0
    BY <1>3, <1>7, <2>1
  <2>3. c \notin {<<>>, <<".">>, <<".", ".">>}
    <3>1. /\ Len(<<>>) = 0 /\ Len(<<".">>) = 1 /\ <<".">>[1] = "."
          /\ Len(<<".", ".">>) = 2 /\ <<".", ".">>[2] = "."
      OBVIOUS
    <3> QED
      BY <2>2, <3>1, Zenon
  <2>4. EnterComponent(X, c) = Append(X, c)
    BY <2>3 DEF EnterComponent
  <2>5. Raised(In(Append(X, c)), p + 1) = Raised(In(X), p)
    BY RaisedIs
  <2> QED
    BY <1>3, <1>7, <2>4, <2>5 DEF PassedRight
<1>8. i - 1 # i - 2 /\ i - 1 # i - 3
  OBVIOUS
<1> QED
  BY <1>4, <1>5, <1>6, <1>7 DEF PassedRight

\* What is copied, and what is skipped, before an iteration: where the name leads
\* from D is where the copied text leads from the place that the rest of the name
\* leads to, as many components up as are still to be skipped.
Scanned(name, D, r, o) ==
  /\ r \in Scans /\ o \in Seq(Char) /\ r.out = o \o <<Nul>>
  /\ r.i \in 0..Len(name) /\ Len(o) + r.i <= Len(name) /\ r.room = PathSize - (Len(o) + 1)
  /\ r.parents > 0 => r.i = 0 \/ name[r.i] = "/"
  /\ LeadsTo(In(D), name) = LeadsTo(Raised(At(D, name, r.i), r.parents), o)

\* An iteration makes q of r, and goes on.
ScansOn(name, D, r, q) == (\E x \in Seq(Char) : Scanned(name, D, q, x)) /\ q.i < r.i

\* What the two kinds of iteration leave.
LEMMA PassingIs ==
  ASSUME NEW r \in Scans, NEW j \in Nat, NEW q \in Nat
  PROVE  \E x \in Scans : /\ x = Passing(r, j, q)
                          /\ x.i = j /\ x.parents = q /\ x.out = r.out /\ x.room = r.room
<1>1. PICK x : x = Passing(r, j, q)
  OBVIOUS
<1>2. x \in Scans /\ x.i = j /\ x.parents = q /\ x.out = r.out /\ x.room = r.room
  BY <1>1 DEF Passing, Scans
<1> QED
  BY <1>1, <1>2

\* Copying a character: the position, the buffer and its room.
LEMMA TakingIs ==
  ASSUME NEW r \in Scans, NEW j \in Nat, r.i = j + 1, NEW ch \in Char \cup {Nul},
         <<ch>> \o r.out \in Seq(Char \cup {Nul})
  PROVE  \E x \in Scans :
           /\ x = Taking(r, ch)
           /\ x.i = j /\ x.parents = r.parents /\ x.out = <<ch>> \o r.out /\ x.room = r.room - 1
<1> DEFINE out == <<ch>> \o r.out
<1> HIDE DEF out
<1>0. PICK x : x = Taking(r, ch)
  OBVIOUS
<1>1. PICK room \in Int, e \in Nat : room = r.room - 1 /\ e = r.i
  <2>1. PICK w \in Int, e \in Nat : w = r.room /\ e = r.i
    BY DEF Scans
  <2>2. PICK room \in Int : room = w - 1
    OBVIOUS
  <2> QED
    BY <2>1, <2>2
<1>2. x = [r EXCEPT !.i = e - 1, !.out = out, !.room = room]
  BY <1>0, <1>1 DEF Taking, out
<1>3. e - 1 \in Nat /\ e - 1 = j
  BY <1>1
<1>4. x = [r EXCEPT !.i = j, !.out = out, !.room = room]
  BY <1>1, <1>2, <1>3
<1>5. x \in Scans /\ x.i = j /\ x.parents = r.parents /\ x.out = out /\ x.room = room
  <2>1. out \in Seq(Char \cup {Nul})
    BY DEF out
  <2> QED
    BY <1>4, <2>1 DEF Scans
<1> QED
  BY <1>0, <1>1, <1>5 DEF out

\* A component, or what is left of one, is skipped.
LEMMA PassStep ==
  ASSUME NEW name, NEW D, NEW r, NEW o, Scanned(name, D, r, o), NEW i, i = r.i, NEW p, p = r.parents,
         Len(name) \in Nat, NEW j \in 0..(i - 1), j = 0 \/ name[j] = "/", NEW q \in Nat,
         Raised(At(D, name, i), p) = Raised(At(D, name, j), q)
  PROVE  Scanned(name, D, Passing(r, j, q), o) /\ Passing(r, j, q).i = j
<1>1. /\ r \in Scans /\ o \in Seq(Char) /\ r.out = o \o <<Nul>>
      /\ i \in 0..Len(name) /\ Len(o) + i <= Len(name) /\ r.room = PathSize - (Len(o) + 1)
      /\ LeadsTo(In(D), name) = LeadsTo(Raised(At(D, name, i), p), o)
  BY DEF Scanned
<1>2. PICK x \in Scans : /\ x = Passing(r, j, q)
                         /\ x.i = j /\ x.parents = q /\ x.out = r.out /\ x.room = r.room
  <2>1. r \in Scans /\ j \in Nat
    BY <1>1
  <2> QED
    BY <2>1, PassingIs
<1>3. PICK m \in Nat : m = Len(o)
  BY <1>1
<1>4. j \in 0..Len(name) /\ Len(o) + j <= Len(name)
  BY <1>1, <1>3
<1>5. LeadsTo(In(D), name) = LeadsTo(Raised(At(D, name, j), q), o)
  BY <1>1, Zenon
<1> QED
  BY <1>1, <1>2, <1>4, <1>5 DEF Scanned

\* A character is copied where nothing is to be skipped.
LEMMA TakeStep ==
  ASSUME NEW name \in Seq(Char), NEW D \in Comps(Char), NEW r, NEW o, Scanned(name, D, r, o),
         NEW i \in 1..Len(name), i = r.i, r.parents = 0
  PROVE  ScansOn(name, D, r, Taking(r, name[i]))
<1> DEFINE q == Taking(r, name[i])
           x == <<name[i]>> \o o
<1>1. /\ r \in Scans /\ o \in Seq(Char) /\ r.out = o \o <<Nul>>
      /\ Len(o) + i <= Len(name) /\ r.room = PathSize - (Len(o) + 1)
      /\ LeadsTo(In(D), name) = LeadsTo(Raised(At(D, name, i), 0), o)
  BY DEF Scanned
<1>2. PICK m \in Nat : m = Len(name)
  OBVIOUS
<1>3. PICK ch \in Char : ch = name[i]
  OBVIOUS
<1>4. PICK t \in Seq(Char) : t = <<ch>> /\ Len(t) = 1
  <2>1. <<ch>> \in Seq(Char) /\ Len(<<ch>>) = 1
    OBVIOUS
  <2> QED
    BY <2>1
<1>5. x = t \o o /\ x \in Seq(Char) /\ Len(x) = Len(o) + 1
  <2>1. t \o o \in Seq(Char) /\ Len(t \o o) = Len(t) + Len(o)
    BY <1>1, Concat
  <2>2. Len(o) \in Nat
    BY <1>1
  <2> QED
    BY <1>3, <1>4, <2>1, <2>2
<1>6. x \o <<Nul>> = <<name[i]>> \o r.out /\ x \o <<Nul>> \in Seq(Char \cup {Nul})
  <2>1. t \in Seq(Char \cup {Nul}) /\ o \in Seq(Char \cup {Nul}) /\ <<Nul>> \in Seq(Char \cup {Nul})
    BY <1>1
  <2>2. (t \o o) \o <<Nul>> = t \o (o \o <<Nul>>)
    BY <2>1, ThreeParts, SMTT(60)
  <2>3. (t \o o) \o <<Nul>> \in Seq(Char \cup {Nul})
    BY <2>1, ThreeParts
  <2> QED
    BY <1>1, <1>3, <1>4, <2>2, <2>3
<1>7. PICK l \in Nat : l = Len(o)
  BY <1>1
<1>8. /\ q \in Scans /\ q.i = i - 1 /\ q.parents = 0 /\ q.out = x \o <<Nul>>
      /\ q.room = PathSize - (Len(x) + 1)
  <2>1. PICK out \in Seq(Char \cup {Nul}) : out = <<name[i]>> \o r.out /\ out = x \o <<Nul>>
    BY <1>6
  <2> HIDE DEF q, x
  <2>2. q = Taking(r, name[i])
    BY DEF q
  <2>3. i - 1 \in Nat
    OBVIOUS
  <2>4. q \in Scans /\ q.i = i - 1 /\ q.parents = r.parents /\ q.out = out /\ q.room = r.room - 1
    <3>1. PICK k \in Nat : k = i - 1
      BY <2>3
    <3>2. r \in Scans /\ r.i = k + 1 /\ <<ch>> \o r.out \in Seq(Char \cup {Nul})
      BY <1>1, <1>3, <2>1, <3>1
    <3>3. PICK y \in Scans : /\ y = Taking(r, ch) /\ y.i = k /\ y.parents = r.parents
                             /\ y.out = <<ch>> \o r.out /\ y.room = r.room - 1
      <4>1. ch \in Char \cup {Nul}
        OBVIOUS
      <4> QED
        BY <3>2, <4>1, TakingIs
    <3> QED
      BY <1>3, <2>1, <2>2, <3>1, <3>3
  <2>6. r.room - 1 = PathSize - (Len(x) + 1)
    BY <1>1, <1>5, <1>7, SizeAssumption
  <2> QED
    BY <2>1, <2>4, <2>6
<1> HIDE DEF q, x
<1>9. i - 1 \in 0..Len(name) /\ Len(x) + (i - 1) <= Len(name)
  BY <1>1, <1>2, <1>5, <1>7
<1>10. PICK s \in Seq(Char) : s = SubSeq(name, 1, i - 1) /\ SubSeq(name, 1, i) = s \o t
  <2>1. PICK k \in 0..Len(name) : k = i - 1
    BY <1>9
  <2>2. SubSeq(name, 1, k) \in Seq(Char)
    OBVIOUS
  <2>3. SubSeq(name, 1, i) = SubSeq(name, 1, i - 1) \o <<name[i]>>
    <3>1. 1 \in 1..Len(name) /\ i \in 1..Len(name)
      BY <1>2
    <3> QED
      BY <3>1, SubSeqRecursiveSecond
  <2> QED
    BY <1>3, <1>4, <2>1, <2>2, <2>3
<1>11. In(D) \in Places(Char)
  BY InIs
<1>12. \A k \in 0..Len(name) : Raised(At(D, name, k), 0) = At(D, name, k)
  <2> TAKE k \in 0..Len(name)
  <2>1. SubSeq(name, 1, k) \in Seq(Char)
    OBVIOUS
  <2>2. At(D, name, k) \in Places(Char)
    BY <1>11, <2>1, LeadsToType DEF At
  <2>3. 0 \in Nat /\ <<>> \in Seq(Char)
    OBVIOUS
  <2> QED
    BY <2>2, <2>3, RaisedIs
<1>13. LeadsTo(At(D, name, i), o) = LeadsTo(At(D, name, i - 1), x)
  <2>1. LeadsTo(In(D), (s \o t) \o o) = LeadsTo(LeadsTo(In(D), s), t \o o)
    BY <1>1, <1>11, LeadsToThree
  <2>2. LeadsTo(In(D), (s \o t) \o o) = LeadsTo(LeadsTo(In(D), s \o t), o)
    <3>1. PICK st \in Seq(Char) : st = s \o t
      BY Concat
    <3>2. LeadsTo(In(D), st \o o) = LeadsTo(LeadsTo(In(D), st), o)
      BY <1>1, <1>11, LeadsToParts
    <3> QED
      BY <3>1, <3>2
  <2> QED
    BY <1>5, <1>10, <2>1, <2>2 DEF At
<1>14. LeadsTo(In(D), name) = LeadsTo(Raised(At(D, name, i - 1), 0), x)
  BY <1>1, <1>9, <1>12, <1>13
<1> QED
  <2>1. q.parents > 0 => q.i = 0 \/ name[q.i] = "/"
    BY <1>8
  <2>2. Scanned(name, D, q, x)
    BY <1>5, <1>8, <1>9, <1>14, <2>1 DEF Scanned
  <2>3. q.i < r.i
    BY <1>8
  <2> QED
    BY <1>5, <2>2, <2>3, Zenon DEF q, ScansOn

\* An iteration of resolve_full_path.
LEMMA ScanStep ==
  ASSUME NEW name \in Seq(Char), NEW D \in Comps(Char),
         NEW s, \A k \in 1..Len(name) : s[k] = name[k],
         name # <<>> => name[1] # "/", ~MisreadFull(name),
         NEW r, NEW o, Scanned(name, D, r, o), r.i # 0
  PROVE  ScansOn(name, D, r, NextScan(s, r))
<1>1. PICK m \in Nat : m = Len(name)
  OBVIOUS
<1>2. PICK i \in 1..Len(name), p \in Nat : i = r.i /\ p = r.parents /\ r \in Scans /\ o \in Seq(Char)
  BY <1>1 DEF Scanned, Scans
<1>3. /\ i \in 1..m /\ i \in Nat \ {0} /\ i \in Nat /\ name # <<>> /\ name[1] # "/"
      /\ s[i] = name[i] /\ Len(name) \in Nat
  BY <1>1, <1>2
<1>4. Nul \notin Char /\ "/" \in Char /\ "." \in Char
  BY TextAssumption
<1>5. PICK b1, b2 : b1 = CharAt(s, i - 1) /\ b2 = CharAt(s, i - 2)
  OBVIOUS
<1>6. /\ i >= 2 => b1 = name[i - 1] /\ s[i - 1] = name[i - 1]
      /\ i >= 3 => b2 = name[i - 2]
      /\ i < 3 => b2 = Nul
  BY <1>1, <1>2, <1>5, SMTT(60) DEF CharAt
<1>7. /\ s[i] = "/" /\ b1 = "." /\ b2 = "." => NextScan(s, r) = Passing(r, i - 3, p + 1)
      /\ s[i] = "/" /\ b1 = "." /\ b2 # "." => NextScan(s, r) = Passing(r, i - 2, p)
      /\ s[i] = "/" /\ b1 = "/" => NextScan(s, r) = Passing(r, i - 1, p)
      /\ s[i] = "/" /\ b1 \notin {".", "/"} /\ p > 0
         => NextScan(s, r) = Passing(r, SlashBefore(s, i), p - 1)
      /\ s[i] # "/" \/ (b1 \notin {".", "/"} /\ p = 0) => NextScan(s, r) = Taking(r, s[i])
  BY <1>2, <1>3, <1>5, NextScanIs, SMTT(60)
<1>8. ASSUME NEW j \in 0..(i - 1), j = 0 \/ name[j] = "/", NEW q \in Nat,
             Raised(At(D, name, i), p) = Raised(At(D, name, j), q),
             NextScan(s, r) = Passing(r, j, q)
      PROVE  ScansOn(name, D, r, NextScan(s, r))
  <2>1. Scanned(name, D, Passing(r, j, q), o) /\ Passing(r, j, q).i = j
    BY <1>2, <1>3, <1>8, PassStep
  <2>2. j < r.i
    BY <1>2
  <2> QED
    BY <1>2, <1>8, <2>1, <2>2 DEF ScansOn
<1>9. ASSUME p = 0, NextScan(s, r) = Taking(r, s[i])
      PROVE  ScansOn(name, D, r, NextScan(s, r))
  <2>1. r.parents = 0
    BY <1>2, <1>9
  <2>2. ScansOn(name, D, r, Taking(r, name[i]))
    BY <1>2, <2>1, TakeStep
  <2> QED
    BY <1>3, <1>9, <2>2
<1>10. p > 0 => name[i] = "/"
  BY <1>2, <1>3 DEF Scanned
<1>11. ASSUME name[i] = "/", NEW j \in 0..(i - 1), j = 0 \/ name[j] = "/",
              \A k \in (j + 1)..(i - 1) : name[k] # "/", NEW n \in Nat
       PROVE  PassedRight(D, name, i, j, n)
  BY <1>3, <1>4, <1>11, PassedIs, Zenon
<1>12. CASE name[i] # "/"
  BY <1>3, <1>7, <1>9, <1>10, <1>12
<1>13. CASE name[i] = "/"
  <2>1. i >= 2 /\ s[i] = "/" /\ b1 = name[i - 1]
    <3>1. i # 1
      BY <1>3, <1>13
    <3>2. i >= 2
      BY <1>3, <3>1
    <3> QED
      BY <1>3, <1>6, <1>13, <3>2
  <2>2. CASE b1 = "." /\ b2 = "."
    <3>1. i >= 3 /\ name[i - 1] = "." /\ name[i - 2] = "."
      BY <1>3, <1>4, <1>6, <2>1, <2>2
    <3>2. ComponentAt(name, i - 2)
      <4>1. PICK k \in 1..(Len(name) - 1) : k = i - 1 /\ k + 1 = i /\ k - 1 = i - 2
        BY <1>1, <1>2, <3>1
      <4>2. ComponentAt(name, k) \/ ParentAt(name, k - 1)
        BY <1>13, <3>1, <4>1 DEF MisreadFull
      <4>3. ~ComponentAt(name, k)
        BY <3>1, <4>1 DEF ComponentAt
      <4> QED
        BY <4>1, <4>2, <4>3 DEF ParentAt, DotsAt
    <3>3. PICK j \in 0..(i - 1) : /\ j = i - 3 /\ (j = 0 \/ name[j] = "/")
                                  /\ j + 1 = i - 2 /\ j + 2 = i - 1
      <4>1. i - 3 \in 0..(i - 1) /\ (i - 3) + 1 = i - 2 /\ (i - 3) + 2 = i - 1
        BY <3>1
      <4>2. i - 2 = 1 \/ name[(i - 2) - 1] = "/"
        BY <3>2 DEF ComponentAt
      <4>3. i - 3 = 0 \/ name[i - 3] = "/"
        BY <4>1, <4>2
      <4> QED
        BY <4>1, <4>3
    <3>4. \A k \in (j + 1)..(i - 1) : name[k] # "/"
      <4>1. \A k \in (j + 1)..(i - 1) : k = i - 1 \/ k = i - 2
        BY <3>3
      <4> QED
        BY <3>1, <4>1
    <3>5. Raised(At(D, name, i), p) = Raised(At(D, name, j), p + 1)
      <4>1. PassedRight(D, name, i, j, p)
        BY <1>11, <1>13, <3>3, <3>4
      <4> QED
        BY <3>1, <3>3, <4>1 DEF PassedRight
    <3>6. NextScan(s, r) = Passing(r, j, p + 1) /\ p + 1 \in Nat
      BY <1>7, <2>1, <2>2, <3>3
    <3> QED
      BY <1>8, <3>3, <3>5, <3>6
  <2>3. CASE b1 = "." /\ b2 # "."
    <3>1. name[i - 1] = "." /\ (i >= 3 => name[i - 2] # ".")
      BY <1>6, <2>1, <2>3
    <3>2. ComponentAt(name, i - 1)
      <4>1. PICK k \in 1..(Len(name) - 1) : k = i - 1 /\ k + 1 = i /\ k - 1 = i - 2
        BY <1>1, <1>2, <2>1
      <4>2. ComponentAt(name, k) \/ ParentAt(name, k - 1)
        BY <1>13, <3>1, <4>1 DEF MisreadFull
      <4>3. ~ParentAt(name, k - 1)
        <5>1. SUFFICES ASSUME ParentAt(name, k - 1) PROVE FALSE
          OBVIOUS
        <5>2. k - 1 \in 1..Len(name) /\ name[k - 1] = "."
          BY <5>1 DEF ParentAt, DotsAt, ComponentAt
        <5>3. i >= 3
          BY <4>1, <5>2
        <5> QED
          BY <3>1, <4>1, <5>2, <5>3
      <4> QED
        BY <4>1, <4>2, <4>3
    <3>3. PICK j \in 0..(i - 1) : j = i - 2 /\ (j = 0 \/ name[j] = "/") /\ j + 1 = i - 1
      <4>1. i - 2 \in 0..(i - 1) /\ (i - 2) + 1 = i - 1
        BY <2>1
      <4>2. i - 1 = 1 \/ name[(i - 1) - 1] = "/"
        BY <3>2 DEF ComponentAt
      <4>3. i - 2 = 0 \/ name[i - 2] = "/"
        BY <4>1, <4>2
      <4> QED
        BY <4>1, <4>3
    <3>4. \A k \in (j + 1)..(i - 1) : name[k] # "/"
      <4>1. \A k \in (j + 1)..(i - 1) : k = i - 1
        BY <3>3
      <4> QED
        BY <3>1, <4>1
    <3>5. Raised(At(D, name, i), p) = Raised(At(D, name, j), p)
      <4>1. PassedRight(D, name, i, j, p)
        BY <1>11, <1>13, <3>3, <3>4
      <4> QED
        BY <3>1, <3>3, <4>1 DEF PassedRight
    <3>6. NextScan(s, r) = Passing(r, j, p)
      BY <1>7, <2>1, <2>3, <3>3
    <3> QED
      BY <1>2, <1>8, <3>3, <3>5, <3>6
  <2>4. CASE b1 = "/"
    <3>1. PICK j \in 0..(i - 1) : j = i - 1 /\ name[j] = "/"
      <4>1. i - 1 \in 0..(i - 1)
        BY <2>1
      <4> QED
        BY <2>1, <2>4, <4>1
    <3>2. \A k \in (j + 1)..(i - 1) : name[k] # "/"
      BY <3>1
    <3>3. Raised(At(D, name, i), p) = Raised(At(D, name, j), p)
      <4>1. PassedRight(D, name, i, j, p)
        BY <1>11, <1>13, <3>1, <3>2
      <4> QED
        BY <3>1, <4>1 DEF PassedRight
    <3>4. NextScan(s, r) = Passing(r, j, p)
      BY <1>7, <2>1, <2>4, <3>1
    <3> QED
      BY <1>2, <1>8, <3>1, <3>3, <3>4
  <2>5. CASE b1 \notin {".", "/"} /\ p > 0
    <3>1. PICK j : j = SlashBefore(s, i)
      OBVIOUS
    <3>2. j \in 0..(i - 1) /\ (j = 0 \/ s[j] = "/") /\ \A k \in (j + 1)..(i - 1) : s[k] # "/"
      BY <1>3, <3>1, SlashBeforeIs
    <3>3. \A k \in 1..(i - 1) : s[k] = name[k]
      BY <1>1, <1>2
    <3>4. (j = 0 \/ name[j] = "/") /\ \A k \in (j + 1)..(i - 1) : name[k] # "/"
      BY <3>2, <3>3
    <3>5. j # i - 1 /\ name[i - 1] # "."
      <4>1. i - 1 # 0
        BY <2>1
      <4> QED
        BY <2>1, <2>5, <3>4, <4>1
    <3>6. PICK n \in Nat : n = p - 1 /\ n + 1 = p
      BY <2>5
    <3>7. Raised(At(D, name, i), p) = Raised(At(D, name, j), n)
      <4>1. PassedRight(D, name, i, j, n)
        BY <1>11, <1>13, <3>2, <3>4
      <4> QED
        BY <3>5, <3>6, <4>1 DEF PassedRight
    <3>8. NextScan(s, r) = Passing(r, j, n)
      BY <1>7, <2>1, <2>5, <3>1, <3>6
    <3> QED
      BY <1>8, <3>2, <3>4, <3>7, <3>8
  <2>6. CASE b1 \notin {".", "/"} /\ p = 0
    BY <1>7, <1>9, <2>6
  <2>7. p > 0 \/ p = 0
    OBVIOUS
  <2> QED
    BY <2>2, <2>3, <2>4, <2>5, <2>6, <2>7
<1> QED
  BY <1>12, <1>13

FirstScan(len) == [i |-> len, parents |-> 0, out |-> <<>>, room |-> PathSize]
AfterScan(s, r) == IF r.i = 0 \/ r.room = 0 THEN r ELSE NextScan(s, r)

\* A name of len characters with its terminator, and not misread, in memory s.
NameIn(s, name, len) ==
  /\ \A k \in 1..Len(name) : s[k] = name[k]
  /\ len = Len(name) + 1 /\ s[len] = Nul /\ len <= PathSize
  /\ name # <<>> => name[1] # "/"
  /\ ~MisreadFull(name)

\* The first iteration copies the terminator.
LEMMA FirstStep ==
  ASSUME NEW name \in Seq(Char), NEW D \in Comps(Char), NEW s, NEW len, NameIn(s, name, len)
  PROVE  ScansOn(name, D, FirstScan(len), AfterScan(s, FirstScan(len)))
<1>1. PICK m \in Nat : m = Len(name) /\ m + 1 = len
  BY DEF NameIn
<1>2. PICK r : r = FirstScan(len)
  OBVIOUS
<1>3. /\ r \in Scans /\ r.i = len /\ r.parents = 0 /\ r.out = <<>> /\ r.room = PathSize
      /\ len \in Nat /\ r.i = m + 1
  <2>1. <<>> \in Seq(Char \cup {Nul}) /\ len \in Nat /\ 0 \in Nat
    BY <1>1
  <2> QED
    BY <1>1, <1>2, <2>1, SizeAssumption DEF FirstScan, Scans
<1>4. AfterScan(s, r) = NextScan(s, r)
  BY <1>1, <1>3, SizeAssumption DEF AfterScan
<1>5. s[len] # "/" /\ s[len] = Nul
  BY TextAssumption DEF NameIn
<1>6. NextScan(s, r) = Taking(r, Nul)
  <2>1. 0 \in Nat
    OBVIOUS
  <2>2. PICK b1, b2 : b1 = CharAt(s, len - 1) /\ b2 = CharAt(s, len - 2)
    OBVIOUS
  <2> QED
    BY <1>3, <1>5, <2>1, <2>2, NextScanIs
<1>7. <<Nul>> \o <<>> = <<Nul>> /\ <<>> \o <<Nul>> = <<Nul>> /\ <<Nul>> \in Seq(Char \cup {Nul})
      /\ <<>> \in Seq(Char) /\ Len(<<>>) = 0
  OBVIOUS
<1>8. PICK x \in Scans : /\ x = Taking(r, Nul) /\ x.i = m /\ x.parents = r.parents
                         /\ x.out = <<Nul>> \o r.out /\ x.room = r.room - 1
  <2>1. Nul \in Char \cup {Nul} /\ <<Nul>> \o r.out \in Seq(Char \cup {Nul})
    BY <1>3, <1>7
  <2> QED
    BY <1>3, <2>1, TakingIs
<1>9. LeadsTo(In(D), name) = LeadsTo(Raised(At(D, name, m), 0), <<>>)
  <2>1. SubSeq(name, 1, m) = name
    BY <1>1, SubSeqFull
  <2>2. In(D) \in Places(Char)
    BY InIs
  <2>3. PICK L \in Places(Char) : L = LeadsTo(In(D), name)
    BY <2>2, LeadsToType
  <2>4. At(D, name, m) = L
    BY <2>1, <2>3 DEF At
  <2>5. Raised(L, 0) = L
    <3>1. 0 \in Nat /\ <<>> \in Seq(Char)
      OBVIOUS
    <3> QED
      BY <3>1, RaisedIs
  <2>6. LeadsTo(L, <<>>) = L
    BY LeadsToNone
  <2> QED
    BY <2>3, <2>4, <2>5, <2>6
<1>10. Scanned(name, D, x, <<>>)
  <2>1. x.out = <<>> \o <<Nul>> /\ x.parents = 0 /\ x.room = PathSize - (0 + 1)
    BY <1>3, <1>7, <1>8
  <2>2. m \in 0..Len(name) /\ 0 + m <= Len(name)
    BY <1>1
  <2>3. ~(x.parents > 0)
    BY <2>1
  <2> QED
    BY <1>7, <1>8, <1>9, <2>1, <2>2, <2>3 DEF Scanned
<1>11. x.i < r.i
  BY <1>1, <1>3, <1>8
<1> QED
  BY <1>2, <1>4, <1>6, <1>7, <1>8, <1>10, <1>11 DEF ScansOn

\* Any other goes on until the first character.
LEMMA AfterStep ==
  ASSUME NEW name \in Seq(Char), NEW D \in Comps(Char), NEW s, NEW len, NameIn(s, name, len),
         NEW r, NEW o, Scanned(name, D, r, o)
  PROVE  IF r.i = 0 THEN AfterScan(s, r) = r ELSE ScansOn(name, D, r, AfterScan(s, r))
<1>1. CASE r.i = 0
  BY <1>1 DEF AfterScan
<1>2. CASE r.i # 0
  <2>1. PICK m \in Nat, l \in Nat, i \in Nat : m = Len(name) /\ l = Len(o) /\ i = r.i
    BY DEF Scanned, Scans
  <2>2. r.room = PathSize - (l + 1) /\ l + i <= m /\ m + 1 <= PathSize /\ i # 0
    BY <1>2, <2>1 DEF Scanned, NameIn
  <2>3. r.room # 0
    BY <2>1, <2>2, SizeAssumption
  <2>4. AfterScan(s, r) = NextScan(s, r)
    BY <1>2, <2>3 DEF AfterScan
  <2>5. ScansOn(name, D, r, NextScan(s, r))
    BY <1>2, ScanStep DEF NameIn
  <2> QED
    BY <1>2, <2>4, <2>5
<1> QED
  BY <1>1, <1>2

ScannedSet(name, D) == {r \in Scans : \E o \in Seq(Char) : Scanned(name, D, r, o)}

\* resolve_full_path comes to the front of the name.
LEMMA ScanLeads ==
  ASSUME NEW name \in Seq(Char), NEW D \in Comps(Char), NEW s, NEW len, NameIn(s, name, len)
  PROVE  \E o \in Seq(Char) :
           LET r == Scan(s, len, PathSize) IN Scanned(name, D, r, o) /\ r.i = 0
<1>1. PICK m \in Nat : m = Len(name) /\ m + 1 = len /\ len \in Nat
  BY DEF NameIn
<1> DEFINE first == FirstScan(len)
           S == {first} \cup ScannedSet(name, D)
           step == [p \in S \X (1..len) |-> AfterScan(s, p[1])]
           body(at) == [n \in 0..len |-> IF n = 0 THEN first ELSE AfterScan(s, at[n - 1])]
           at == CHOOSE g : g = body(g)
<1>2. ScansOn(name, D, first, AfterScan(s, first))
  BY FirstStep
<1>3. ASSUME NEW r \in ScannedSet(name, D)
      PROVE  IF r.i = 0 THEN AfterScan(s, r) = r ELSE ScansOn(name, D, r, AfterScan(s, r))
  <2>1. PICK o \in Seq(Char) : Scanned(name, D, r, o)
    BY DEF ScannedSet
  <2> QED
    BY <2>1, AfterStep
<1>4. ASSUME NEW r, NEW q, ScansOn(name, D, r, q) PROVE q \in ScannedSet(name, D) /\ q.i < r.i
  BY <1>4 DEF ScansOn, ScannedSet, Scanned
<1>5. first.i = len /\ Scan(s, len, PathSize) = at[len]
  BY DEF Scan, AfterScan, FirstScan
<1> HIDE DEF first
<1>6. ASSUME NEW r \in S PROVE AfterScan(s, r) \in S
  BY <1>2, <1>3, <1>4
<1>7. step \in [S \X (1..len) -> S] /\ first \in S
  BY <1>6
<1>8. \A r \in S, i \in 1..len : step[<<r, i>>] = AfterScan(s, r)
  OBVIOUS
<1> HIDE DEF step
<1>9. PICK f \in [0..len -> S] : Repeated(f, step, first, len)
  <2> HIDE DEF S
  <2> QED
    BY <1>1, <1>7, Repeats
<1>10. f[0] = first /\ \A i \in 1..len : f[i] = AfterScan(s, f[i - 1])
  <2>1. ASSUME NEW i \in 1..len PROVE f[i] = AfterScan(s, f[i - 1])
    <3>1. i - 1 \in 0..len
      BY <1>1
    <3>2. f[i - 1] \in S
      BY <3>1
    <3> QED
      BY <1>8, <1>9, <3>2 DEF Repeated
  <2> QED
    BY <1>9, <2>1 DEF Repeated
<1>11. f = body(f)
  <2>1. ASSUME NEW i \in 0..len
        PROVE  f[i] = IF i = 0 THEN first ELSE AfterScan(s, f[i - 1])
    <3>1. CASE i = 0
      BY <1>10, <3>1
    <3>2. CASE i # 0
      <4>1. i \in 1..len
        BY <1>1, <3>2
      <4> QED
        BY <1>10, <3>2, <4>1
    <3> QED
      BY <3>1, <3>2
  <2> QED
    BY <2>1
<1>12. at = body(at)
  BY <1>11
<1> HIDE DEF at
<1>13. \A i \in 0..len : at[i] = IF i = 0 THEN first ELSE AfterScan(s, at[i - 1])
  BY <1>12
<1> DEFINE T == {n \in 0..len : /\ n = 0 => at[n] = first
                                /\ n # 0 => at[n] \in ScannedSet(name, D) /\ at[n].i <= len - n}
<1>14. 0 \in T
  BY <1>1, <1>13
<1>15. ASSUME NEW n \in 1..len, n - 1 \in T PROVE n \in T
  <2>1. n \in 0..len /\ n # 0 /\ n - 1 \in 0..len /\ n \in Nat
    BY <1>1
  <2>2. PICK r, q : r = at[n - 1] /\ q = at[n] /\ q = AfterScan(s, r)
    BY <1>13, <2>1
  <2>3. CASE n = 1
    <3>1. r = first
      BY <1>15, <2>2, <2>3
    <3>2. q \in ScannedSet(name, D) /\ q.i < len
      BY <1>2, <1>4, <1>5, <2>2, <3>1
    <3>3. q.i \in Nat
      BY <3>2 DEF ScannedSet, Scans
    <3>4. q.i <= len - n
      BY <1>1, <2>3, <3>2, <3>3
    <3> QED
      BY <2>1, <2>2, <3>2, <3>4
  <2>4. CASE n # 1
    <3>1. n - 1 # 0
      BY <2>4
    <3>2. r \in ScannedSet(name, D) /\ r.i <= len - (n - 1)
      BY <1>15, <2>2, <3>1
    <3>3. r.i \in Nat
      BY <3>2 DEF ScannedSet, Scans
    <3>4. CASE r.i = 0
      <4>1. q = r
        BY <1>3, <2>2, <3>2, <3>4
      <4>2. q.i <= len - n
        BY <1>1, <2>1, <3>4, <4>1
      <4> QED
        BY <2>1, <2>2, <3>2, <4>1, <4>2
    <3>5. CASE r.i # 0
      <4>1. q \in ScannedSet(name, D) /\ q.i < r.i
        BY <1>3, <1>4, <2>2, <3>2, <3>5
      <4>2. q.i \in Nat
        BY <4>1 DEF ScannedSet, Scans
      <4>3. q.i <= len - n
        BY <1>1, <2>1, <3>2, <3>3, <4>1, <4>2
      <4> QED
        BY <2>1, <2>2, <4>1, <4>3
    <3> QED
      BY <3>4, <3>5
  <2> QED
    BY <2>3, <2>4
<1>16. len \in T
  <2> HIDE DEF T
  <2>1. \A n \in 0..len : n \in T
    BY <1>1, <1>14, <1>15, Climb
  <2> QED
    BY <1>1, <2>1
<1>17. at[len] \in ScannedSet(name, D) /\ at[len].i <= 0
  <2>1. len # 0 /\ len - len = 0
    BY <1>1
  <2> QED
    BY <1>16, <2>1
<1>18. at[len].i = 0
  <2>1. at[len].i \in Nat
    BY <1>17 DEF ScannedSet, Scans
  <2> QED
    BY <1>17, <2>1
<1> QED
  BY <1>5, <1>17, <1>18 DEF ScannedSet

\* find_parent_dentry leaves the text of a directory, from which n components are gone.
LEMMA ParentEndLeads ==
  ASSUME NEW C, "/" \in C, NEW dir \in Seq(C), DirText(dir), NEW D \in Comps(C),
         LeadsTo(Root, dir) = In(D), \A k \in 1..Len(dir) : Above(dir, D, k), NEW n \in Nat
  PROVE  /\ ParentEnd(dir, n) \in 1..Len(dir)
         /\ LeadsTo(Root, SubSeq(dir, 1, ParentEnd(dir, n))) = In(UpFrom(D, n))
<1>1. PICK m \in Nat : m = Len(dir) /\ m >= 1
  <2>1. Len(dir) \in Nat /\ Len(dir) >= 1
    BY EmptySeq DEF DirText
  <2> QED
    BY <2>1
<1>2. CASE n = 0
  <2>1. ParentEnd(dir, n) = m /\ m \in 1..m
    BY <1>1, <1>2 DEF ParentEnd
  <2>2. SubSeq(dir, 1, m) = dir
    BY <1>1, SubSeqFull
  <2>3. UpFrom(D, 0) = D
    <3>1. 0 \in Nat
      OBVIOUS
    <3> QED
      BY <3>1, UpIs
  <2> QED
    BY <1>1, <1>2, <2>1, <2>2, <2>3
<1>3. CASE n # 0
  <2>1. n \in Nat \ {0}
    BY <1>3
  <2> DEFINE found == NthSlash(dir, n, 1, m - 1)
  <2>2. \A k : k \in found <=> k \in 1..(m - 1) /\ dir[k] = "/" /\ SlashesFrom(dir, k) = n
    BY <1>1 DEF NthSlash, SlashesFrom
  <2>3. ParentEnd(dir, n) = IF found # {} THEN CHOOSE k \in found : TRUE ELSE 1
    BY <1>1, <1>3 DEF ParentEnd
  <2> HIDE DEF found
  <2>4. PICK e : e = ParentEnd(dir, n)
    OBVIOUS
  <2>5. Cut(dir, n, e) /\ e \in 1..m
    <3>1. CASE found # {}
      <4>1. e \in found
        BY <2>3, <2>4, <3>1
      <4>2. e \in 1..(m - 1) /\ dir[e] = "/" /\ SlashesFrom(dir, e) = n
        BY <2>2, <4>1
      <4>3. e \in 1..m
        BY <4>2
      <4> QED
        BY <1>1, <4>2, <4>3 DEF Cut
    <3>2. CASE found = {}
      <4>1. e = 1 /\ 1 \in 1..m
        BY <1>1, <2>3, <2>4, <3>2
      <4>2. \A k \in 2..(m - 1) : dir[k] = "/" => SlashesFrom(dir, k) # n
        BY <2>2, <3>2
      <4> QED
        BY <1>1, <4>1, <4>2 DEF Cut
    <3> QED
      BY <3>1, <3>2
  <2>6. LeadsTo(Root, SubSeq(dir, 1, e)) = In(UpFrom(D, n))
    BY <2>1, <2>5, CutLeads
  <2> QED
    BY <1>1, <2>4, <2>5, <2>6
<1> QED
  BY <1>2, <1>3

\* A text in memory is printed up to its terminator.
LEMMA PrintedText ==
  ASSUME NEW s \in Seq(Char \cup {Nul}), NEW t \in Seq(Char), Len(t) < Len(s),
         \A k \in 1..Len(t) : s[k] = t[k], s[Len(t) + 1] = Nul
  PROVE  Printed(s) = t
<1> DEFINE ends == {k \in DOMAIN s : s[k] = Nul}
           end == CHOOSE k \in ends : \A j \in ends : k <= j
<1>1. PICK n \in Nat, m \in Nat : n = Len(s) /\ m = Len(t) /\ m < n
  OBVIOUS
<1>2. \A k \in 1..m : s[k] # Nul
  <2>1. \A k \in 1..m : t[k] \in Char
    BY <1>1
  <2> QED
    BY <1>1, <2>1, TextAssumption
<1>3. m + 1 \in ends /\ \A j \in ends : m + 1 <= j
  BY <1>1, <1>2
<1>4. end \in ends /\ \A j \in ends : end <= j
  BY <1>3
<1>5. end = m + 1
  <2>1. end <= m + 1 /\ m + 1 <= end /\ end \in 1..n
    BY <1>1, <1>3, <1>4
  <2> HIDE DEF end
  <2> QED
    BY <1>1, <2>1
<1>6. Printed(s) = SubSeq(s, 1, (m + 1) - 1)
  <2>1. ends # {}
    BY <1>3
  <2> QED
    BY <1>5, <2>1 DEF Printed
<1>7. SubSeq(s, 1, m) = [k \in 1..m |-> s[k]]
  <2>1. \A z \in Seq(Char \cup {Nul}) : \A l \in 0..Len(z) : SubSeq(z, 1, l) = [k \in 1..l |-> z[k]]
    OBVIOUS
  <2>2. m \in 0..Len(s)
    BY <1>1
  <2> QED
    BY <2>1, <2>2
<1>8. t = [k \in 1..m |-> t[k]]
  BY <1>1
<1>9. (m + 1) - 1 = m /\ \A k \in 1..m : s[k] = t[k]
  BY <1>1
<1> QED
  BY <1>6, <1>7, <1>8, <1>9

\* So is a text with its terminator behind it.
LEMMA PrintedAppended ==
  ASSUME NEW t \in Seq(Char)
  PROVE  Printed(t \o <<Nul>>) = t
<1>1. PICK e \in Seq(Char \cup {Nul}) : e = <<Nul>> /\ Len(e) = 1 /\ e[1] = Nul
  <2>1. <<Nul>> \in Seq(Char \cup {Nul}) /\ Len(<<Nul>>) = 1 /\ <<Nul>>[1] = Nul
    OBVIOUS
  <2> QED
    BY <2>1
<1>2. PICK u \in Seq(Char \cup {Nul}) : u = t
  <2>1. t \in Seq(Char \cup {Nul})
    OBVIOUS
  <2> QED
    BY <2>1
<1>3. PICK s \in Seq(Char \cup {Nul}) :
        /\ s = t \o e /\ Len(s) = Len(t) + 1
        /\ \A i \in 1..Len(t) : s[i] = t[i]
        /\ s[Len(t) + 1] = Nul
  <2>1. /\ u \o e \in Seq(Char \cup {Nul}) /\ Len(u \o e) = Len(u) + Len(e)
        /\ \A i \in 1..Len(u) : (u \o e)[i] = u[i]
        /\ \A i \in 1..Len(e) : (u \o e)[Len(u) + i] = e[i]
    BY Concat
  <2>2. 1 \in 1..Len(e)
    BY <1>1
  <2>3. (u \o e)[Len(u) + 1] = Nul
    BY <1>1, <2>1, <2>2
  <2> QED
    BY <1>1, <1>2, <2>1, <2>3
<1>4. Len(t) < Len(s) /\ s[Len(t) + 1] = Nul
  BY <1>3
<1>5. Printed(s) = t
  BY <1>3, <1>4, PrintedText
<1> QED
  BY <1>1, <1>3, <1>5

\* fprint_full_path prints a name of the file that is meant.
LEMMA FullLeads ==
  ASSUME NEW name \in Seq(Char), name # <<>>, NEW s, s # <<>>, NEW len, NameIn(s, name, len),
         Len(Cwd) + Len(name) < PathSize
  PROVE  NamesSame(Full(Cwd, s, len, PathSize), Cwd, name)
<1>1. "/" \in Char /\ Cwd \in Seq(Char) /\ DirText(Cwd)
  BY TextAssumption, CwdAssumption
<1>2. PICK D \in Comps(Char) : LeadsTo(Root, Cwd) = In(D) /\ \A k \in 1..Len(Cwd) : Above(Cwd, D, k)
  BY <1>1, AboveAll
<1>3. PICK o \in Seq(Char), r \in Scans :
        r = Scan(s, len, PathSize) /\ Scanned(name, D, r, o) /\ r.i = 0
  BY ScanLeads DEF Scanned
<1>4. PICK p \in Nat : p = r.parents
  BY DEF Scans
<1>5. /\ r.out = o \o <<Nul>> /\ r.room = PathSize - (Len(o) + 1) /\ Len(o) <= Len(name)
      /\ LeadsTo(In(D), name) = LeadsTo(Raised(At(D, name, 0), p), o)
  <2>1. Len(o) + 0 = Len(o)
    OBVIOUS
  <2> QED
    BY <1>3, <1>4, <2>1 DEF Scanned
<1>6. Raised(At(D, name, 0), p) = In(UpFrom(D, p))
  <2>1. SubSeq(name, 1, 0) = <<>> /\ <<>> \in Seq(Char)
    OBVIOUS
  <2>2. At(D, name, 0) = In(D)
    BY <2>1, InIs, LeadsToNone DEF At
  <2> QED
    BY <2>1, <2>2, RaisedIs
<1>7. PICK e \in 1..Len(Cwd) : /\ e = ParentEnd(Cwd, p)
                               /\ LeadsTo(Root, SubSeq(Cwd, 1, e)) = In(UpFrom(D, p))
  BY <1>1, <1>2, ParentEndLeads
<1>8. PICK d \in Seq(Char) : d = SubSeq(Cwd, 1, e)
  <2>1. \A z \in Seq(Char) : \A k \in 1..Len(z) : SubSeq(z, 1, k) \in Seq(Char)
    OBVIOUS
  <2> QED
    BY <1>1, <2>1
<1>9. ~(e > r.room)
  <2>1. PICK a \in Nat, b \in Nat, c \in Nat : a = Len(Cwd) /\ b = Len(name) /\ c = Len(o)
    BY <1>1
  <2>2. e \in 1..a /\ r.room = PathSize - (c + 1) /\ c <= b /\ a + b < PathSize
    BY <1>5, <2>1
  <2> QED
    BY <2>1, <2>2, SizeAssumption
<1>10. s[1] # Nul /\ s[1] # "/"
  <2>1. 1 \in 1..Len(name)
    OBVIOUS
  <2>2. s[1] = name[1] /\ name[1] # "/" /\ name[1] \in Char
    BY <2>1 DEF NameIn
  <2> QED
    BY <2>2, TextAssumption
<1>11. Full(Cwd, s, len, PathSize) = Printed(d \o r.out)
  BY <1>3, <1>4, <1>7, <1>8, <1>9, <1>10 DEF Full
<1>12. PICK x \in Seq(Char) : x = d \o o
  BY Concat
<1>13. Full(Cwd, s, len, PathSize) = x
  <2>1. PICK z \in Seq(Char \cup {Nul}) : z = <<Nul>>
    <3>1. <<Nul>> \in Seq(Char \cup {Nul})
      OBVIOUS
    <3> QED
      BY <3>1
  <2>2. d \in Seq(Char \cup {Nul}) /\ o \in Seq(Char \cup {Nul})
    OBVIOUS
  <2>3. (d \o o) \o z = d \o (o \o z)
    BY <2>1, <2>2, ThreeParts, SMTT(60)
  <2>4. Printed(x \o <<Nul>>) = x
    BY PrintedAppended
  <2> QED
    BY <1>5, <1>11, <1>12, <2>1, <2>3, <2>4, Zenon
<1>14. PICK t \in Seq(Char) : t = <<"/">>
  <2>1. <<"/">> \in Seq(Char)
    BY <1>1
  <2> QED
    BY <2>1
<1>15. Root \in Places(Char)
  BY RootIs
<1>16. LeadsTo(Root, (d \o o) \o t) = LeadsTo(In(UpFrom(D, p)), o \o t)
  <2>1. LeadsTo(Root, (d \o o) \o t) = LeadsTo(LeadsTo(Root, d), o \o t)
    BY <1>15, LeadsToThree
  <2> QED
    BY <1>7, <1>8, <2>1, Zenon
<1>17. LeadsTo(Root, (Cwd \o name) \o t) = LeadsTo(In(D), name \o t)
  <2>1. LeadsTo(Root, (Cwd \o name) \o t) = LeadsTo(LeadsTo(Root, Cwd), name \o t)
    BY <1>1, <1>15, LeadsToThree
  <2> QED
    BY <1>2, <2>1, Zenon
<1>18. LeadsTo(In(D), name \o t) = LeadsTo(In(UpFrom(D, p)), o \o t)
  <2>1. PICK U \in Comps(Char) : U = UpFrom(D, p)
    BY UpIs
  <2>2. LeadsTo(In(D), name) = LeadsTo(In(U), o)
    BY <1>5, <1>6, <2>1, Zenon
  <2>3. In(D) \in Places(Char) /\ In(U) \in Places(Char)
    BY InIs
  <2>4. LeadsTo(In(D), name \o t) = LeadsTo(LeadsTo(In(D), name), t)
    BY <2>3, LeadsToParts
  <2>5. LeadsTo(In(U), o \o t) = LeadsTo(LeadsTo(In(U), o), t)
    BY <2>3, LeadsToParts
  <2> QED
    BY <2>1, <2>2, <2>4, <2>5, Zenon
<1>19. Denoted(d \o o) = Denoted(Cwd \o name)
  BY <1>14, <1>16, <1>17, <1>18 DEF Denoted
<1>20. IsPrefix(<<"/">>, d \o o)
  BY <1>1, <1>8, BeginsText DEF DirText
<1> QED
  BY <1>12, <1>13, <1>19, <1>20 DEF NamesSame

-----------------------------------------------------------------------------
(* The name of a call *)

\* The element holds the name of the call with its terminator, unless there is none
\* or it is cut.
NameHeld(c, e) ==
  /\ c.file = Fault => e.errors
  /\ c.file \notin {Fault, <<>>} /\ Len(c.file) < PathSize =>
       /\ e.len = Len(c.file) + 1 /\ e.str[e.len] = Nul
       /\ \A k \in 1..Len(c.file) : e.str[k] = c.file[k]

\* The property, of one record.
FileOK(name, errors, file) ==
  ~errors /\ name # <<>>
  => /\ name # Fault
     /\ \/ Len(name) >= PathSize
        \/ name[1] = "/" /\ file = name
        \/ /\ name[1] # "/"
           /\ \/ MisreadFull(name)
              \/ Len(Cwd) + Len(name) >= PathSize
              \/ NamesSame(file, Cwd, name)

ThreadNamed(t) ==
  \A c \in calling[t] : /\ t \in running => NameHeld(c, scratch)
                        /\ \A e \in entry[t] : NameHeld(c, e)

LogNamed == \A p \in printed : FileOK(p.call.file, p.errors, p.file)

NInv == (\A t \in Threads : ThreadNamed(t)) /\ LogNamed

\* Nothing is called, and nothing printed.
LEMMA InitN == Init => NInv
BY DEF Init, NInv, ThreadNamed, LogNamed

\* The name that the enter program reads.
LEMMA NameRead ==
  ASSUME NEW mem \in Memory(PathSize), NEW file \in Strings, NEW r,
         r = ReadUser(mem, 1, PathSize, file)
  PROVE  /\ file = Fault => r.ret < 0
         /\ file \notin {Fault, <<>>} /\ Len(file) < PathSize =>
              /\ r.ret = Len(file) + 1 /\ r.ret # 1 /\ r.mem[r.ret] = Nul
              /\ \A k \in 1..Len(file) : r.mem[k] = file[k]
<1>1. PathSize \in Nat /\ PathSize \in Nat \ {0} /\ 1 \in Nat \ {0}
  BY SizeAssumption
<1>2. PICK c : c = Copied(file, PathSize)
  OBVIOUS
<1>3. /\ file = Fault <=> r.ret < 0
      /\ file # Fault =>
           /\ r.ret = Len(c) + 1
           /\ \A k \in 1..PathSize :
                r.mem[k] = IF k \in 1..(1 + Len(c) - 1) THEN c[k - 1 + 1]
                           ELSE IF k = 1 + Len(c) THEN Nul ELSE mem[k]
  <2>1. ReadRight(PathSize, mem, 1, PathSize, file)
    BY <1>1, ReadUserIs
  <2> QED
    BY <1>2, <2>1 DEF ReadRight
<1>4. CASE file \notin {Fault, <<>>} /\ Len(file) < PathSize
  <2>1. file \in Seq(Char)
    BY <1>4 DEF Strings
  <2>2. PICK m \in Nat : m = Len(file) /\ m # 0 /\ m < PathSize
    <3>1. Len(file) \in Nat /\ Len(file) # 0
      BY <1>4, <2>1, EmptySeq
    <3> QED
      BY <1>4, <3>1
  <2>3. c = file
    <3>1. c = SubSeq(file, 1, Len(file))
      BY <1>2, <1>4 DEF Copied
    <3> QED
      BY <2>1, <3>1, SubSeqFull
  <2>4. r.ret = m + 1 /\ r.ret # 1
    BY <1>3, <1>4, <2>2, <2>3
  <2>5. ASSUME NEW k \in 1..m PROVE r.mem[k] = file[k]
    <3>1. k \in 1..PathSize /\ k \in 1..(1 + m - 1) /\ k - 1 + 1 = k
      BY <1>1, <2>2
    <3> QED
      BY <1>3, <1>4, <2>2, <2>3, <3>1
  <2>6. r.mem[m + 1] = Nul
    <3>1. m + 1 \in 1..PathSize /\ m + 1 \notin 1..(1 + m - 1) /\ m + 1 = 1 + m
      BY <1>1, <2>2
    <3> QED
      BY <1>3, <1>4, <2>2, <2>3, <3>1
  <2> QED
    BY <1>4, <2>2, <2>4, <2>5, <2>6
<1> QED
  BY <1>3, <1>4

\* A step of thread t leaves the others alone.
LEMMA OthersNamed ==
  ASSUME NInv, NEW t \in Threads,
         \A u \in Threads : u # t => calling'[u] = calling[u] /\ entry'[u] = entry[u],
         running' \subseteq {t}, ThreadNamed(t)', LogNamed'
  PROVE  NInv'
<1>1. ASSUME NEW u \in Threads, u # t PROVE ThreadNamed(u)'
  <2>1. u \notin running' /\ calling'[u] = calling[u] /\ entry'[u] = entry[u] /\ ThreadNamed(u)
    BY <1>1 DEF NInv
  <2> QED
    BY <2>1 DEF ThreadNamed
<1> QED
  BY <1>1 DEF NInv

\* The enter program reads the name of its own call.
LEMMA ReadFilenameN ==
  ASSUME EInv, NInv, NEW t \in Threads, NEW file \in FileNames, NEW args \in ArgLists,
         ReadFilename(t, file, args)
  PROVE  NInv'
<1> DEFINE r == ReadUser(scratch.str, 1, PathSize, file)
           q == ReadUser(r.mem, 1, PathSize, FirstArg(args))
           c == [file |-> file, args |-> args]
<1>1. /\ scratch \in Elements /\ calling \in [Threads -> SUBSET Calls]
      /\ ThreadOK(t) /\ file \in Strings
  BY TextAssumption DEF EInv, TypeOK, Strings
<1>2. /\ calling[t] = {} /\ running' = {t}
      /\ calling' = [calling EXCEPT ![t] = {c}]
      /\ entry' = entry /\ printed' = printed
      /\ scratch' = [scratch EXCEPT
                       !.errors = r.ret < 0 \/ (r.ret = 1 /\ q.ret < 0),
                       !.str = IF r.ret = 1 THEN q.mem ELSE r.mem,
                       !.len = IF r.ret = 1 THEN @ ELSE r.ret]
  BY DEF ReadFilename
<1>3. /\ file = Fault => r.ret < 0
      /\ file \notin {Fault, <<>>} /\ Len(file) < PathSize =>
           /\ r.ret = Len(file) + 1 /\ r.ret # 1 /\ r.mem[r.ret] = Nul
           /\ \A k \in 1..Len(file) : r.mem[k] = file[k]
  <2>1. scratch.str \in Memory(PathSize)
    BY <1>1 DEF Elements
  <2> QED
    BY <1>1, <2>1, NameRead
<1> HIDE DEF r, q
<1>4. /\ scratch'.errors = (r.ret < 0 \/ (r.ret = 1 /\ q.ret < 0))
      /\ scratch'.str = (IF r.ret = 1 THEN q.mem ELSE r.mem)
      /\ scratch'.len = (IF r.ret = 1 THEN scratch.len ELSE r.ret)
  BY <1>1, <1>2 DEF Elements
<1>5. NameHeld(c, scratch')
  BY <1>3, <1>4 DEF NameHeld
<1>6. calling'[t] = {c} /\ entry'[t] = {}
  <2>1. entry[t] = {}
    BY <1>1, <1>2 DEF ThreadOK
  <2> QED
    BY <1>1, <1>2, <2>1
<1> HIDE DEF c
<1>7. ThreadNamed(t)'
  BY <1>5, <1>6 DEF ThreadNamed
<1>8. LogNamed'
  BY <1>2 DEF NInv, LogNamed
<1>9. \A u \in Threads : u # t => calling'[u] = calling[u] /\ entry'[u] = entry[u]
  BY <1>1, <1>2
<1> QED
  BY <1>2, <1>7, <1>8, <1>9, OthersNamed

\* The call of the running thread, and its name in the scratch element.
LEMMA RunningNamed ==
  ASSUME EInv, NInv, NEW t \in Threads, running = {t}
  PROVE  /\ scratch \in Elements /\ entry[t] = {}
         /\ \A c \in calling[t] : NameHeld(c, scratch)
<1>1. t \in running /\ ThreadNamed(t) /\ ThreadOK(t) /\ scratch \in Elements
  BY DEF EInv, TypeOK, NInv
<1> QED
  BY <1>1 DEF ThreadNamed, ThreadOK

\* The arguments are read behind it.
LEMMA ReadArgN ==
  ASSUME EInv, NInv, NEW t \in Threads, ReadArg(t)
  PROVE  NInv'
<1>1. /\ running = {t} /\ running' = {t} /\ calling' = calling /\ entry' = entry /\ printed' = printed
  BY DEF ReadArg
<1>2. scratch \in Elements /\ entry[t] = {} /\ \A c \in calling[t] : NameHeld(c, scratch)
  BY <1>1, RunningNamed
<1>3. scratch'.str = scratch.str /\ scratch'.len = scratch.len /\ scratch'.errors = scratch.errors
  <2>1. PICK argv : scratch' = [scratch EXCEPT !.argv = argv]
    BY DEF ReadArg
  <2> QED
    BY <1>2, <2>1 DEF Elements
<1>4. ThreadNamed(t)'
  BY <1>1, <1>2, <1>3 DEF ThreadNamed, NameHeld
<1>5. LogNamed'
  BY <1>1 DEF NInv, LogNamed
<1> QED
  BY <1>1, <1>4, <1>5, OthersNamed

\* The entry in the map has the name of the element.
LEMMA StoreN ==
  ASSUME EInv, NInv, NEW t \in Threads, running = {t}, NEW s, Store(t, s),
         s.str = scratch.str, s.len = scratch.len, scratch.errors => s.errors
  PROVE  NInv'
<1>1. /\ entry' = [entry EXCEPT ![t] = {s}] /\ running' = {} /\ calling' = calling
      /\ printed' = printed /\ entry \in [Threads -> SUBSET Elements]
  BY DEF Store, EInv, TypeOK
<1>2. \A c \in calling[t] : NameHeld(c, scratch)
  BY RunningNamed
<1>3. \A c \in calling[t] : NameHeld(c, s)
  BY <1>2 DEF NameHeld
<1>4. ThreadNamed(t)'
  <2>1. entry'[t] = {s}
    BY <1>1
  <2> QED
    BY <1>1, <1>3, <2>1 DEF ThreadNamed
<1>5. LogNamed'
  BY <1>1 DEF NInv, LogNamed
<1>6. \A u \in Threads : u # t => calling'[u] = calling[u] /\ entry'[u] = entry[u]
  BY <1>1
<1> QED
  BY <1>1, <1>4, <1>5, <1>6, OthersNamed

\* Whether read_argv comes to its end, or fails.
LEMMA ReadArgvEndsN ==
  ASSUME EInv, NInv, NEW t \in Threads, ReadArgvEnds(t)
  PROVE  NInv'
BY StoreN DEF ReadArgvEnds

LEMMA ReadArgvFailsN ==
  ASSUME EInv, NInv, NEW t \in Threads, ReadArgvFails(t)
  PROVE  NInv'
<1>1. running = {t} /\ scratch \in Elements
  BY DEF ReadArgvFails, EInv, TypeOK
<1>2. PICK argv : \/ Store(t, [scratch EXCEPT !.errors = TRUE])
                  \/ Store(t, [scratch EXCEPT !.errors = TRUE, !.argv = argv])
  BY DEF ReadArgvFails
<1>3. ASSUME NEW s, s = [scratch EXCEPT !.errors = TRUE]
                   \/ s = [scratch EXCEPT !.errors = TRUE, !.argv = argv]
      PROVE  s.str = scratch.str /\ s.len = scratch.len /\ s.errors = TRUE
  BY <1>1, <1>3 DEF Elements
<1>4. PICK s : Store(t, s) /\ s.str = scratch.str /\ s.len = scratch.len /\ s.errors
  BY <1>2, <1>3
<1> QED
  BY <1>1, <1>4, StoreN

\* What is printed of a name that the record holds.
LEMMA NamePrinted ==
  ASSUME NEW c \in Calls, NEW e \in Elements, NameHeld(c, e)
  PROVE  FileOK(c.file, e.errors, FileText(e))
<1>1. PICK name \in Strings : name = c.file
  BY DEF Calls
<1>2. SUFFICES ASSUME ~e.errors, name # <<>>, name # Fault, Len(name) < PathSize
               PROVE  \/ name[1] = "/" /\ FileText(e) = name
                      \/ /\ name[1] # "/"
                         /\ \/ MisreadFull(name)
                            \/ Len(Cwd) + Len(name) >= PathSize
                            \/ NamesSame(FileText(e), Cwd, name)
  <2>1. name \in Seq(Char) \cup {Fault} /\ (~e.errors => name # Fault)
    BY <1>1 DEF Strings, NameHeld
  <2>2. name \in Seq(Char) => Len(name) \in Nat
    OBVIOUS
  <2>3. name # Fault => Len(name) >= PathSize \/ Len(name) < PathSize
    BY <2>1, <2>2, SizeAssumption
  <2> QED
    BY <1>1, <2>1, <2>3 DEF FileOK
<1>3. name \in Seq(Char)
  BY <1>2 DEF Strings
<1>4. PICK m \in Nat : m = Len(name) /\ m # 0
  <2>1. Len(name) \in Nat /\ Len(name) # 0
    BY <1>2, <1>3, EmptySeq
  <2> QED
    BY <2>1
<1>5. PICK s \in Seq(Char \cup {Nul}), len \in Nat :
        /\ s = e.str /\ Len(s) = PathSize /\ len = e.len /\ len = m + 1
        /\ s[len] = Nul /\ \A k \in 1..m : s[k] = name[k]
  <2>1. e.str \in Seq(Char \cup {Nul}) /\ Len(e.str) = PathSize
    BY SizeAssumption DEF Elements, Memory
  <2>2. e.len = m + 1 /\ e.str[e.len] = Nul /\ \A k \in 1..m : e.str[k] = name[k]
    BY <1>1, <1>2, <1>4 DEF NameHeld
  <2> QED
    BY <2>1, <2>2
<1>6. s[1] = name[1] /\ s[1] # Nul
  <2>1. 1 \in 1..Len(name)
    BY <1>4
  <2>2. name[1] \in Char
    BY <1>3, <2>1
  <2> QED
    BY <1>4, <1>5, <2>1, <2>2, TextAssumption
<1>7. CASE name[1] = "/"
  <2>1. FileText(e) = Printed(s)
    BY <1>5, <1>6, <1>7 DEF FileText
  <2>2. Len(name) < Len(s) /\ s[Len(name) + 1] = Nul /\ \A k \in 1..Len(name) : s[k] = name[k]
    BY <1>2, <1>4, <1>5
  <2>3. Printed(s) = name
    BY <1>3, <2>2, PrintedText
  <2> QED
    BY <1>7, <2>1, <2>3
<1>8. CASE name[1] # "/"
  <2>1. FileText(e) = Full(Cwd, s, len, PathSize)
    BY <1>5, <1>6, <1>8 DEF FileText
  <2>2. SUFFICES ASSUME ~MisreadFull(name), Len(Cwd) + Len(name) < PathSize
                 PROVE  NamesSame(FileText(e), Cwd, name)
    <3>1. Len(Cwd) \in Nat
      BY CwdAssumption
    <3>2. Len(Cwd) + Len(name) < PathSize \/ Len(Cwd) + Len(name) >= PathSize
      BY <1>4, <3>1, SizeAssumption
    <3> QED
      BY <1>8, <3>2
  <2>3. NameIn(s, name, len)
    BY <1>2, <1>4, <1>5, <1>8, <2>2, SizeAssumption DEF NameIn
  <2>4. s # <<>>
    BY <1>5, SizeAssumption
  <2> QED
    BY <1>2, <1>3, <2>1, <2>2, <2>3, <2>4, FullLeads
<1> QED
  BY <1>7, <1>8

\* The record is made of the entry of its own call.
LEMMA SysExitN ==
  ASSUME EInv, NInv, NEW t \in Threads, SysExit(t)
  PROVE  NInv'
<1>1. /\ running' = running /\ running = {} /\ calling' = [calling EXCEPT ![t] = {}]
      /\ entry' = [entry EXCEPT ![t] = {}]
      /\ calling \in [Threads -> SUBSET Calls] /\ entry \in [Threads -> SUBSET Elements]
      /\ ThreadNamed(t)
  BY DEF SysExit, EInv, TypeOK, NInv
<1>2. PICK e \in entry[t], c \in calling[t] :
        printed' = {[call |-> c, errors |-> e.errors,
                     file |-> FileText(e), argv |-> Printed(e.argv)]}
  BY DEF SysExit
<1>3. c \in Calls /\ e \in Elements /\ NameHeld(c, e)
  BY <1>1 DEF ThreadNamed
<1>4. FileOK(c.file, e.errors, FileText(e))
  BY <1>3, NamePrinted
<1>5. LogNamed'
  BY <1>2, <1>4 DEF LogNamed
<1>6. ThreadNamed(t)'
  <2>1. calling'[t] = {}
    BY <1>1
  <2> QED
    BY <2>1 DEF ThreadNamed
<1>7. \A u \in Threads : u # t => calling'[u] = calling[u] /\ entry'[u] = entry[u]
  BY <1>1
<1> QED
  BY <1>1, <1>5, <1>6, <1>7, OthersNamed

\* A record without errors names the file of its call, however many threads use the
\* CPU, for any name that fits its buffers and is not misread, and any directory
\* (on_sys_enter_execve, on_sys_exit_execve, fprint_full_path).
THEOREM NamesRight == Spec => []FileRight
<1>1. EInv /\ NInv /\ [Next]_vars => NInv'
  <2> SUFFICES ASSUME EInv, NInv, [Next]_vars PROVE NInv'
    OBVIOUS
  <2>1. ASSUME NEW t \in Threads, NEW file \in FileNames, NEW args \in ArgLists,
               ReadFilename(t, file, args)
        PROVE  NInv'
    BY <2>1, ReadFilenameN
  <2>2. ASSUME NEW t \in Threads, ReadArg(t) PROVE NInv'
    BY <2>2, ReadArgN
  <2>3. ASSUME NEW t \in Threads, ReadArgvEnds(t) PROVE NInv'
    BY <2>3, ReadArgvEndsN
  <2>4. ASSUME NEW t \in Threads, ReadArgvFails(t) PROVE NInv'
    BY <2>4, ReadArgvFailsN
  <2>5. ASSUME NEW t \in Threads, SysExit(t) PROVE NInv'
    BY <2>5, SysExitN
  <2>6. CASE UNCHANGED vars
    BY <2>6 DEF vars, NInv, ThreadNamed, LogNamed
  <2> QED
    BY <2>1, <2>2, <2>3, <2>4, <2>5, <2>6 DEF Next
<1>2. NInv => FileRight
  BY DEF NInv, LogNamed, FileOK, FileRight
<1> QED
  BY <1>1, <1>2, InitN, SpecEInv, PTL DEF Spec
=============================================================================
