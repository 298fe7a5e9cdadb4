-------------------------------- MODULE Diff --------------------------------
(***************************************************************************)
(* diff.c: the edit script between two texts by the linear-space variant   *)
(* of Myers' algorithm.  shortest_edit_script trims what a box of lines    *)
(* has in common at both ends, finds a point in the middle of a shortest   *)
(* path through the rest and splits the box there; what has lines on one   *)
(* side only is printed as deleted or added.                               *)
(*                                                                         *)
(* The recursion is the sequence of boxes that wait.  find_middle goes     *)
(* forwards from the upper corner and backwards from the lower one, a step *)
(* for each diagonal k.  fv and bv are memory: functions on the indices    *)
(* that were written, so a read of another index has no value.  The code   *)
(* does not keep the indices within the two arrays; beyond them it may     *)
(* find the memory as it left it, or anything may happen ("undefined").    *)
(***************************************************************************)
EXTENDS Integers, Sequences, FiniteSets, FiniteSetsExt, Near

CONSTANTS
  Lines,     \* the lines that occur in the texts
  MaxLines   \* bound on the lines of a text

ASSUME SizeAssumption == MaxLines \in Nat

VARIABLES
  a, b,     \* the texts; the code counts their lines from 0
  work,     \* the boxes that wait, the next one first
  search,   \* the state of find_middle and search_path
  script,   \* what is printed: <<"del", line of a>> or <<"add", line of b>>
  phase     \* "script", "search" or "undefined"

vars == <<a, b, work, search, script, phase>>

Box(x1, y1, x2, y2) == [x1 |-> x1, y1 |-> y1, x2 |-> x2, y2 |-> y2]

\* Every text has a line, if an empty one.
Texts == UNION {[1..n -> Lines] : n \in 1..MaxLines}

Init ==
  /\ a \in Texts /\ b \in Texts
  /\ work = <<Box(0, 0, Len(a), Len(b))>>
  /\ search = <<>>
  /\ script = <<>>
  /\ phase = "script"

-----------------------------------------------------------------------------
(* shortest_edit_script *)

Same(x, y) == a[x + 1] = b[y + 1]

\* The number of lines equal from (x, y) on, before the end of a box.
Ahead(x, y, box) ==
  LET limit == Max({0, Min({box.x2 - x, box.y2 - y})}) IN
  CHOOSE r \in 0..limit :
    /\ \A i \in 0..(r - 1) : Same(x + i, y + i)
    /\ r < limit => ~Same(x + r, y + r)

\* The number of lines equal before (x, y), after the start of a box.
Behind(x, y, box) ==
  LET limit == Max({0, Min({x - box.x1, y - box.y1})}) IN
  CHOOSE r \in 0..limit :
    /\ \A i \in 1..r : Same(x - i, y - i)
    /\ r < limit => ~Same(x - r - 1, y - r - 1)

\* Variant of Trimmed for the mutation checks: the lines at the end stay.
TrimmedStart(box) ==
  LET p == Ahead(box.x1, box.y1, box)
  IN Box(box.x1 + p, box.y1 + p, box.x2, box.y2)

\* A box without the lines it has in common at its start, then at its end.
Trimmed(box) ==
  LET p == Ahead(box.x1, box.y1, box)
      rest == Box(box.x1 + p, box.y1 + p, box.x2, box.y2)
      q == Behind(rest.x2, rest.y2, rest)
  IN Box(rest.x1, rest.y1, rest.x2 - q, rest.y2 - q)

NextBox == Trimmed(Head(work))

Edits(kind, first, end) == [i \in 1..(end - first) |-> <<kind, first + i - 1>>]

\* Variant of Emit for the mutation checks: the lines that go are forgotten
\* when there are two of them.
EmitShort ==
  LET box == NextBox IN
  /\ phase = "script" /\ work # <<>>
  /\ box.x1 = box.x2 \/ box.y1 = box.y2
  /\ script' = script \o Edits("del", box.x1, Min({box.x2, box.x1 + 1}))
                      \o Edits("add", box.y1, box.y2)
  /\ work' = Tail(work)
  /\ UNCHANGED <<a, b, search, phase>>

\* Lines on one side only: they are deleted, or added.
Emit ==
  LET box == NextBox IN
  /\ phase = "script" /\ work # <<>>
  /\ box.x1 = box.x2 \/ box.y1 = box.y2
  /\ script' = script \o Edits("del", box.x1, box.x2)
                      \o Edits("add", box.y1, box.y2)
  /\ work' = Tail(work)
  /\ UNCHANGED <<a, b, search, phase>>

-----------------------------------------------------------------------------
(* find_middle and search_path *)

Delta(box) == (box.x2 - box.x1) - (box.y2 - box.y1)

\* Variant of Half for the mutation checks: rounded down.
HalfDown(box) == ((box.x2 - box.x1) + (box.y2 - box.y1)) \div 2

\* d_max: no script of a box has more than twice as many lines.
Half(box) == ((box.x2 - box.x1) + (box.y2 - box.y1) + 1) \div 2

Abs(n) == IF n < 0 THEN -n ELSE n

\* The indices that the arrays fv and bv of a box have.
Allocated(box) == 0..(2 * Half(box))

\* Memory of which one element was written, and memory v after one more.
Element(i, val) == [j \in {i} |-> val]

Written(v, i, val) == [j \in DOMAIN v \cup {i} |-> IF j = i THEN val ELSE v[j]]

\* Lines on both sides: find_middle is called and writes its first elements.
StartSearch ==
  LET box == NextBox h == Half(box) IN
  /\ phase = "script" /\ work # <<>>
  /\ box.x1 < box.x2 /\ box.y1 < box.y2
  /\ work' = <<box>> \o Tail(work)
  /\ search' = [dir |-> "forward", d |-> 0, k |-> 0,
                fv |-> Element(1 + h, box.x1),
                bv |-> Element(1 + h + Delta(box), box.y2)]
  /\ phase' = "search"
  /\ UNCHANGED <<a, b, script>>

\* Variant of Split for the mutation checks: the second box starts in the wrong
\* row.
SplitShifted(x1, y1, x2, y2) ==
  LET box == Head(work) IN
  /\ work' = <<Box(box.x1, box.y1, x1, y1), Box(x2, y1, box.x2, box.y2)>>
               \o Tail(work)
  /\ search' = <<>>
  /\ phase' = "script"

\* find_middle found the box from (x1, y1) to (x2, y2): the parts before and
\* after it are next.
Split(x1, y1, x2, y2) ==
  LET box == Head(work) IN
  /\ work' = <<Box(box.x1, box.y1, x1, y1), Box(x2, y2, box.x2, box.y2)>>
               \o Tail(work)
  /\ search' = <<>>
  /\ phase' = "script"

\* Variant of NextDiagonal for the mutation checks: d is not increased.
NextDiagonalStuck(s) ==
  /\ \/ s.k > -s.d /\ search' = [s EXCEPT !.k = @ - 2]
     \/ /\ s.k = -s.d
        /\ search' = [s EXCEPT !.k = s.d, !.dir =
                        IF @ = "forward" THEN "backward" ELSE "forward"]
  /\ UNCHANGED <<work, phase>>

\* The next diagonal, the other direction, the next distance.  When the
\* distances are used up find_middle returns 0 and nothing is printed.
NextDiagonal(s) ==
  LET last == s.k = -s.d IN
  \/ /\ ~last
     /\ search' = [s EXCEPT !.k = @ - 2]
     /\ UNCHANGED <<work, phase>>
  \/ /\ last /\ s.dir = "forward"
     /\ search' = [s EXCEPT !.dir = "backward", !.k = s.d]
     /\ UNCHANGED <<work, phase>>
  \/ /\ last /\ s.dir = "backward" /\ s.d < Half(Head(work))
     /\ search' = [s EXCEPT !.dir = "forward", !.d = @ + 1, !.k = s.d + 1]
     /\ UNCHANGED <<work, phase>>
  \/ /\ last /\ s.dir = "backward" /\ s.d = Half(Head(work))
     /\ search' = <<>>
     /\ work' = Tail(work)
     /\ phase' = "script"

\* The column of row y on diagonal k of a box, and the row of column x.
Column(box, k, y) == y - box.y1 + k + box.x1
Row(box, k, x) == x - box.x1 - k + box.y1

\* Variant of Forward for the mutation checks: the paths have to cross.
ForwardCross ==
  LET s == search box == Head(work)
      fv == s.fv k == s.k i == k + Half(box)
      from == IF k = -s.d \/ (k # s.d /\ fv[i - 1] < fv[i + 1])
                THEN fv[i + 1] ELSE fv[i - 1] + 1
      x == from + Ahead(from, Row(box, k, from), box)
      met == /\ Delta(box) % 2 = 1
             /\ k - Delta(box) \in (1 - s.d)..(s.d - 1)
             /\ x > Column(box, k, s.bv[i])
  IN
  /\ phase = "search" /\ s.dir = "forward"
  /\ \/ met /\ Split(Column(box, k, s.bv[i]), s.bv[i], x, Row(box, k, x))
     \/ ~met /\ NextDiagonal([s EXCEPT !.fv = Written(@, i, x)])
  /\ UNCHANGED <<a, b, script>>

\* The first loop of search_path: one diagonal forwards.
Forward ==
  LET s == search box == Head(work)
      fv == s.fv k == s.k i == k + Half(box)
      from == IF k = -s.d \/ (k # s.d /\ fv[i - 1] < fv[i + 1])
                THEN fv[i + 1] ELSE fv[i - 1] + 1
      x == from + Ahead(from, Row(box, k, from), box)
      met == /\ Delta(box) % 2 = 1
             /\ k - Delta(box) \in (1 - s.d)..(s.d - 1)
             /\ x >= Column(box, k, s.bv[i])
  IN
  /\ phase = "search" /\ s.dir = "forward"
  /\ \/ met /\ Split(Column(box, k, s.bv[i]), s.bv[i], x, Row(box, k, x))
     \/ ~met /\ NextDiagonal([s EXCEPT !.fv = Written(@, i, x)])
  /\ UNCHANGED <<a, b, script>>

\* Diagonals are counted from the lower corner on the way back.
BackIndex == search.k + Delta(Head(work)) + Half(Head(work))

\* The second loop of search_path: one diagonal backwards.
Backward ==
  LET s == search box == Head(work)
      bv == s.bv i == BackIndex k == s.k + Delta(box)
      from == IF s.k = -s.d \/ (s.k # s.d /\ bv[i - 1] > bv[i + 1])
                THEN bv[i + 1] ELSE bv[i - 1] - 1
      y == from - Behind(Column(box, k, from), from, box)
      x == Column(box, k, y)
      met == /\ Delta(box) % 2 = 0
             /\ k \in (-s.d)..s.d
             /\ x <= s.fv[i]
  IN
  /\ phase = "search" /\ s.dir = "backward"
  /\ \/ met /\ Split(x, y, s.fv[i], Row(box, k, s.fv[i]))
     \/ ~met /\ NextDiagonal([s EXCEPT !.bv = Written(@, i, y)])
  /\ UNCHANGED <<a, b, script>>

\* An element that an array does not have is written: anything may happen.
WriteOutside ==
  /\ phase = "search"
  /\ \/ ~(DOMAIN search.bv \subseteq Allocated(Head(work)))
     \/ search.dir = "backward" /\ BackIndex \notin Allocated(Head(work))
  /\ phase' = "undefined"
  /\ UNCHANGED <<a, b, work, search, script>>

-----------------------------------------------------------------------------
Next == Emit \/ StartSearch \/ Forward \/ Backward \/ WriteOutside

Spec == Init /\ [][Next]_vars

-----------------------------------------------------------------------------
(* Properties *)

Finished == phase = "script" /\ work = <<>>

\* The lines of a text that the script does not name.
Unnamed(kind, text) ==
  LET named == {script[n] : n \in DOMAIN script}
      kept == {i \in 1..Len(text) : <<kind, i - 1>> \notin named}
      place(i) == Cardinality({j \in kept : j <= i})
  IN [n \in 1..Cardinality(kept) |->
        text[CHOOSE i \in kept : place(i) = n]]

\* The length of a longest common subsequence of the lines of a box; common[<<i, j>>]
\* is that of its first i lines of the one text and its first j lines of the other.
Common(box) ==
  LET n == box.x2 - box.x1 m == box.y2 - box.y1
      common[p \in (0..n) \X (0..m)] ==
        LET i == p[1] j == p[2] IN
        IF i = 0 \/ j = 0 THEN 0
        ELSE IF Same(box.x1 + i - 1, box.y1 + j - 1) THEN common[<<i - 1, j - 1>>] + 1
        ELSE Max({common[<<i - 1, j>>], common[<<i, j - 1>>]})
  IN common[<<n, m>>]

\* No script is shorter: shortest_edit_script keeps what its name says.
Shortest ==
  Finished =>
    Len(script) = Len(a) + Len(b) - 2 * Common(Box(0, 0, Len(a), Len(b)))

\* The boxes that wait follow each other in both texts, and as many lines of the
\* one as of the other are left out between the end of a box and the start of
\* the next: no line is printed twice or out of order, and the numbers of lines
\* deleted and added account for the difference in length.
Chained ==
  \A i \in DOMAIN work :
    LET box == work[i]
        next == IF i < Len(work) THEN work[i + 1]
                ELSE Box(Len(a), Len(b), Len(a), Len(b))
    IN /\ box.x1 <= box.x2 /\ box.y1 <= box.y2
       /\ box.x2 <= next.x1 /\ next.x1 - box.x2 = next.y1 - box.y2

\* The script leads from the old text to the new one: without the lines printed
\* with "-" the old text is what the new one is without those printed with "+".
Transforms == Unnamed("del", a) = Unnamed("add", b)

\* A change of at most three lines is reported right, wherever in the texts the
\* lines are.
SmallChangeRight ==
  Finished /\ Len(script) <= 3 => Transforms

\* find_middle splits a box into two that are smaller, and never gives up.
Splits ==
  LET size(box) == box.x2 - box.x1 + box.y2 - box.y1 IN
  phase = "search" /\ phase' = "script" =>
    /\ Len(work') = Len(work) + 1
    /\ size(work'[1]) < size(Head(work))
    /\ size(work'[2]) < size(Head(work))

\* The diagonals that search_path has yet to visit at distance d.
Remaining(s) == (s.k + s.d) \div 2 + (IF s.dir = "forward" THEN s.d + 1 ELSE 0)

\* Each step of a search leaves fewer diagonals, or goes on to the next distance.
SearchAdvances ==
  phase = "search" /\ phase' = "search" =>
    \/ search'.d = search.d + 1 /\ Remaining(search) = 0
    \/ search'.d = search.d /\ Remaining(search') < Remaining(search)

\* The call returns: a search ends within its distances, and the recursion in
\* boxes that get smaller.
Progress == [][Splits /\ SearchAdvances]_vars

\* The arrays (diff.c:84-88) are long enough for every box that has as many lines in
\* common as its sides differ by, one less when that is odd: nothing is written
\* outside them otherwise, neither before the loops nor in the second one.
ArraysSuffice ==
  phase = "undefined" =>
    LET box == Head(work) apart == Abs(Delta(box)) IN
    Common(box) + (apart % 2) < apart

\* Between two texts of which no more than two lines each are different, in one
\* place, or only one has lines there, no box is met that leads outside the arrays.
NearStaysInside ==
  phase = "undefined" =>
    ~Near(Len(a), Len(b),
          {p \in (1..Len(a)) \X (1..Len(b)) : a[p[1]] = b[p[2]]})

-----------------------------------------------------------------------------
(* What the log says, and the code does not do *)

\* The lines after "diff:" in the log (file.c:266) are an edit script
\* (diff.c:100) for the two texts.
ScriptTransforms == Finished => Transforms
=============================================================================
