----------------------------- MODULE DiffProofs -----------------------------
(***************************************************************************)
(* Proofs about the edit script: that its lines come in order and balance  *)
(* (Chained), that find_middle always finds a point that makes the boxes   *)
(* smaller (Progress), in which boxes the arrays do not suffice            *)
(* (ArraysSuffice) and between which texts they do (NearStaysInside), that *)
(* no script is shorter (Shortest), and that one of at most three lines is *)
(* right (SmallChangeRight).                                               *)
(*                                                                         *)
(* Both loops of search_path are one algorithm: the way back is the way    *)
(* forward from the lower corner, with the two texts exchanged.  So the    *)
(* facts about a search are stated once, in coordinates from the corner    *)
(* where it starts: U[k] is the first coordinate of the point reached on   *)
(* diagonal k, U[k] - k the second, n and m the sides of the box.          *)
(*                                                                         *)
(* For Shortest a script is a way through the grid of the two texts        *)
(* (Walk).  What a search has reached on a diagonal is the furthest point  *)
(* that any way of as many lines leads to (Furthest); for the way back the *)
(* grid is looked at from its other end (Mirror).  So where the searches   *)
(* meet no way is shorter, and the box is split between the two ends of    *)
(* one that is as short as possible (DistanceSplits).  The lines printed   *)
(* and the distances of the boxes that wait add up to the distance of the  *)
(* texts (Counted), which the longest common subsequence determines        *)
(* (CommonCounts).                                                         *)
(*                                                                         *)
(* For SmallChangeRight: where a box is split the lines between its parts  *)
(* are printed nowhere, as if they were in common.  They are, when the way *)
(* from there to the end of the box has one line that goes or comes: that  *)
(* line is at the edge of the box (LateEdit).  So what the script leaves   *)
(* of both texts before the next box is the same (Paired).                 *)
(***************************************************************************)
EXTENDS Diff, SequenceLemmas

\* The diagonals that are visited at distance d.
Lanes(d) == {k \in (-d)..d : (d - k) % 2 = 0}

\* What holds of u, reached on diagonal k at distance d, when it is written.  A
\* point is d steps away at least.  Steps, but not slides along equal lines, may
\* leave the box, at most one row or column in each distance.  A point outside is
\* on a diagonal that the other search has not come to, by "slack" to spare.
Fresh(u, k, d, n, m, slack) ==
  /\ u \in Int
  /\ u >= 0 /\ u - k >= 0
  /\ 2 * u - k >= d
  /\ u <= n + d - 1 /\ u - k <= m + d - 1
  /\ u > n => k - (n - m) > d + slack /\ k >= 2 - d
  /\ u - k > m => (n - m) - k > d + slack /\ k <= d - 2

\* Later, when the other search has been compared with it, this holds of the
\* points on the edge of the box as well: else the two would have met.
Settled(u, k, d, n, m, slack) ==
  /\ u >= n => k - (n - m) > d + slack
  /\ u - k >= m => (n - m) - k > d + slack

\* Beside a point outside of the box is one that has reached its edge.
Linked(U, d, n, m) ==
  \A k \in Lanes(d) :
    /\ U[k] > n => U[k - 2] >= n
    /\ U[k] - k > m => U[k + 2] - (k + 2) >= m

Frontier(U, d, n, m, slack) ==
  /\ \A k \in Lanes(d) : Fresh(U[k], k, d, n, m, slack)
  /\ Linked(U, d, n, m)

\* What u, reached on diagonal k at distance d, has to do with the points U of the
\* distance before: it is as far as a step from either side leads, and outside of
\* the box only if that point has reached the edge.
Reach(u, k, d, U, n, m) ==
  /\ k < d => u >= U[k + 1]
  /\ k > -d => u >= U[k - 1] + 1
  /\ u > n => k > -d /\ U[k - 1] >= n
  /\ u - k > m => k < d /\ U[k + 1] - (k + 1) >= m

-----------------------------------------------------------------------------
(* The invariant *)

Width(box) == box.x2 - box.x1
Height(box) == box.y2 - box.y1

\* The points of the two searches, by the diagonal counted from the corner where
\* each of them starts; -1 where nothing was written.
Ahd(box, fv) ==
  [k \in Int |-> IF k + Half(box) \in DOMAIN fv THEN fv[k + Half(box)] - box.x1
                 ELSE -1]
Bck(box, bv) ==
  [k \in Int |-> IF k + Delta(box) + Half(box) \in DOMAIN bv
                 THEN box.y2 - bv[k + Delta(box) + Half(box)] ELSE -1]

\* The searches are compared on the way forward if the sides differ by an odd
\* number of lines.
Odd(n, m) == (n - m) % 2 = 1
Slack(n, m) == IF Odd(n, m) THEN 1 ELSE 0

\* The part of distance d that has been visited, above diagonal k.
Visited(U, k, d, n, m, slack) ==
  \A j \in Lanes(d) : j > k => Fresh(U[j], j, d, n, m, slack) /\ Reach(U[j], j, d, U, n, m)

\* The first loop is at diagonal k.  Distance d - 1 is complete in both
\* directions; on the way back it is settled as far as the loop has come, if the
\* searches are compared here.
ForwardOK(F, B, n, m, d, k) ==
  IF d = 0
  THEN F[1] = 0 /\ B[1] = 0
  ELSE /\ Frontier(F, d - 1, n, m, 0)
       /\ \A j \in Lanes(d - 1) : Settled(F[j], j, d - 1, n, m, 0)
       /\ Visited(F, k, d, n, m, 0)
       /\ Odd(n, m) => \A j \in Lanes(d) : j > k => Settled(F[j], j, d, n, m, 0)
       /\ Frontier(B, d - 1, m, n, Slack(n, m))
       /\ \A j \in Lanes(d - 1) :
            ~Odd(n, m) \/ j + (n - m) > k => Settled(B[j], j, d - 1, m, n, Slack(n, m))

\* The second loop is at diagonal k: the way forward is complete at distance d,
\* and settled as far as this loop has come, if the searches are compared here.
BackwardOK(F, B, n, m, d, k) ==
  /\ Frontier(F, d, n, m, 0)
  /\ \A j \in Lanes(d) :
       Odd(n, m) \/ j - (n - m) > k => Settled(F[j], j, d, n, m, 0)
  /\ IF d = 0
     THEN B[1] = 0
     ELSE /\ Frontier(B, d - 1, m, n, Slack(n, m))
          /\ \A j \in Lanes(d - 1) : Settled(B[j], j, d - 1, m, n, Slack(n, m))
          /\ Visited(B, k, d, m, n, Slack(n, m))
          /\ ~Odd(n, m) => \A j \in Lanes(d) : j > k => Settled(B[j], j, d, m, n, 0)

\* At the last distance the searches are sure to meet on one diagonal; they have
\* not come there yet.
InTime(n, m, dir, d, k) ==
  2 * d = n + m + Slack(n, m) =>
    IF Odd(n, m)
    THEN dir = "forward" /\ (k >= d \/ k >= d - 1 + (n - m))
    ELSE dir = "backward" => k >= d \/ k >= d - (n - m)

Searching(F, B, n, m, dir, d, k) ==
  /\ d \in Nat /\ 2 * d <= n + m + Slack(n, m) /\ k \in Lanes(d)
  /\ dir = "forward" => ForwardOK(F, B, n, m, d, k)
  /\ dir = "backward" => BackwardOK(F, B, n, m, d, k)
  /\ InTime(n, m, dir, d, k)

\* find_middle has a box with lines on both sides and none in common at its ends.
SearchOK ==
  LET box == Head(work) s == search IN
  phase = "search" =>
    /\ work # <<>>
    /\ box.x1 < box.x2 /\ box.y1 < box.y2
    /\ ~Same(box.x1, box.y1) /\ ~Same(box.x2 - 1, box.y2 - 1)
    /\ Searching(Ahd(box, s.fv), Bck(box, s.bv), Width(box), Height(box), s.dir, s.d, s.k)

\* What the arrays of a box have been written to, if its sides differ by at most
\* one line.
IndicesOK ==
  phase = "search" /\ Abs(Delta(Head(work))) <= 1
    => DOMAIN search.bv \subseteq Allocated(Head(work))

Boxes == [x1 : Int, y1 : Int, x2 : Int, y2 : Int]

Memory == UNION {[S -> Int] : S \in SUBSET Int}

Searches == [dir : {"forward", "backward"}, d : Nat, k : Int, fv : Memory, bv : Memory]

TypeOK ==
  /\ a \in Seq(Lines) /\ b \in Seq(Lines)
  /\ work \in Seq(Boxes)
  /\ phase \in {"script", "search", "undefined"}
  /\ phase = "search" => search \in Searches

\* Outside the arrays the search only comes where the sides differ by two or more.
Uneven == phase = "undefined" => Abs(Delta(Head(work))) >= 2

DInv == TypeOK /\ Chained /\ SearchOK /\ IndicesOK /\ Uneven

-----------------------------------------------------------------------------
(* One direction of a search *)

\* The diagonals on both sides of one that is visited were visited at the distance
\* before.
LEMMA LaneNeighbours ==
  ASSUME NEW d \in Nat, NEW k \in Lanes(d)
  PROVE  /\ k \in Int /\ -d <= k /\ k <= d
         /\ k < d => d # 0 /\ k <= d - 2 /\ k + 1 \in Lanes(d - 1) /\ k + 2 \in Lanes(d)
         /\ k > -d => d # 0 /\ 2 - d <= k /\ k - 1 \in Lanes(d - 1) /\ k - 2 \in Lanes(d)
<1>1. k \in Int /\ -d <= k /\ k <= d /\ (d - k) % 2 = 0
  BY DEF Lanes
<1>2. ASSUME k < d
      PROVE  d # 0 /\ k <= d - 2 /\ k + 1 \in Lanes(d - 1) /\ k + 2 \in Lanes(d)
  BY <1>1, <1>2 DEF Lanes
<1>3. ASSUME k > -d
      PROVE  d # 0 /\ 2 - d <= k /\ k - 1 \in Lanes(d - 1) /\ k - 2 \in Lanes(d)
  BY <1>1, <1>3 DEF Lanes
<1> QED
  BY <1>1, <1>2, <1>3

\* One step and a slide of r lines from the points of the distance before.
LEMMA OneStep ==
  ASSUME NEW U, NEW d \in Nat, d # 0, NEW n \in Int, NEW m \in Int, n >= 1, m >= 1,
         NEW slack \in {0, 1},
         Frontier(U, d - 1, n, m, slack),
         \A j \in Lanes(d - 1) : Settled(U[j], j, d - 1, n, m, slack),
         NEW k \in Lanes(d), NEW r \in Nat, NEW from,
         from = IF k = -d \/ (k # d /\ U[k - 1] < U[k + 1]) THEN U[k + 1] ELSE U[k - 1] + 1,
         r = 0 \/ (from + r <= n /\ from + r - k <= m)
  PROVE  Fresh(from + r, k, d, n, m, slack) /\ Reach(from + r, k, d, U, n, m)
<1> DEFINE u == from + r
<1>1. /\ k \in Int /\ -d <= k /\ k <= d
      /\ k < d => k <= d - 2 /\ k + 1 \in Lanes(d - 1)
      /\ k > -d => 2 - d <= k /\ k - 1 \in Lanes(d - 1)
  BY LaneNeighbours
<1>2. \A j \in Lanes(d - 1) : Fresh(U[j], j, d - 1, n, m, slack)
  BY DEF Frontier
<1>3. ASSUME k < d
      PROVE  /\ U[k + 1] \in Int /\ U[k + 1] >= 0 /\ U[k + 1] - (k + 1) >= 0
             /\ 2 * U[k + 1] - (k + 1) >= d - 1
             /\ U[k + 1] <= n + d - 2 /\ U[k + 1] - (k + 1) <= m + d - 2
             /\ U[k + 1] > n => k + 1 >= 3 - d /\ U[k - 1] >= n
  BY <1>1, <1>2, <1>3 DEF Fresh, Frontier, Linked
<1>4. ASSUME k > -d
      PROVE  /\ U[k - 1] \in Int /\ U[k - 1] >= 0 /\ U[k - 1] - (k - 1) >= 0
             /\ 2 * U[k - 1] - (k - 1) >= d - 1
             /\ U[k - 1] <= n + d - 2 /\ U[k - 1] - (k - 1) <= m + d - 2
             /\ U[k - 1] - (k - 1) > m => k - 1 <= d - 3 /\ U[k + 1] - (k + 1) >= m
  BY <1>1, <1>2, <1>4 DEF Fresh, Frontier, Linked
<1>5. /\ from \in Int
      /\ k < d => from >= U[k + 1]
      /\ k > -d => from >= U[k - 1] + 1
      /\ \/ k < d /\ from = U[k + 1]
         \/ k > -d /\ from = U[k - 1] + 1
  BY <1>1, <1>3, <1>4
<1>6. /\ u \in Int /\ u >= 0 /\ u - k >= 0 /\ 2 * u - k >= d
      /\ u <= n + d - 1 /\ u - k <= m + d - 1
  BY <1>1, <1>3, <1>4, <1>5
<1>7. u > n => k > -d /\ U[k - 1] >= n
  BY <1>1, <1>3, <1>4, <1>5
<1>8. u - k > m => k < d /\ U[k + 1] - (k + 1) >= m
  BY <1>1, <1>3, <1>4, <1>5
<1>9. u > n => k - (n - m) > d + slack /\ k >= 2 - d
  <2>1. U[k - 1] >= n /\ k > -d => (k - 1) - (n - m) > d - 1 + slack
    BY <1>1 DEF Settled
  <2> QED
    BY <1>1, <1>7, <2>1
<1>10. u - k > m => (n - m) - k > d + slack /\ k <= d - 2
  <2>1. k < d /\ U[k + 1] - (k + 1) >= m => (n - m) - (k + 1) > d - 1 + slack
    BY <1>1 DEF Settled
  <2> QED
    BY <1>1, <1>8, <2>1
<1>11. Reach(u, k, d, U, n, m)
  BY <1>1, <1>3, <1>4, <1>5, <1>7, <1>8 DEF Reach
<1> QED
  BY <1>6, <1>9, <1>10, <1>11 DEF Fresh

\* All diagonals of a distance are visited.
LEMMA PassComplete ==
  ASSUME NEW U, NEW V, NEW d \in Nat, d # 0, NEW n \in Int, NEW m \in Int,
         NEW slack \in {0, 1},
         \A k \in Lanes(d - 1) : U[k] \in Int,
         \A k \in Lanes(d) : Fresh(V[k], k, d, n, m, slack) /\ Reach(V[k], k, d, U, n, m)
  PROVE  Frontier(V, d, n, m, slack)
<1>1. ASSUME NEW k \in Lanes(d), V[k] > n
      PROVE  V[k - 2] >= n
  <2>1. /\ U[k - 1] >= n /\ k \in Int /\ k > -d /\ k <= d
        /\ k - 2 \in Lanes(d) /\ k - 1 \in Lanes(d - 1)
    BY <1>1, LaneNeighbours DEF Reach
  <2>2. V[k - 2] >= U[(k - 2) + 1] /\ (k - 2) + 1 = k - 1
    BY <2>1 DEF Reach
  <2>3. V[k - 2] \in Int /\ U[k - 1] \in Int
    BY <2>1 DEF Fresh
  <2> QED
    BY <2>1, <2>2, <2>3
<1>2. ASSUME NEW k \in Lanes(d), V[k] - k > m
      PROVE  V[k + 2] - (k + 2) >= m
  <2>1. /\ U[k + 1] - (k + 1) >= m /\ k \in Int /\ -d <= k /\ k < d
        /\ k + 2 \in Lanes(d) /\ k + 1 \in Lanes(d - 1)
    BY <1>2, LaneNeighbours DEF Reach
  <2>2. V[k + 2] >= U[(k + 2) - 1] + 1 /\ (k + 2) - 1 = k + 1
    BY <2>1 DEF Reach
  <2>3. V[k + 2] \in Int /\ U[k + 1] \in Int
    BY <2>1 DEF Fresh
  <2> QED
    BY <2>1, <2>2, <2>3
<1> QED
  BY <1>1, <1>2 DEF Frontier, Linked

-----------------------------------------------------------------------------
(* Common lines *)

\* How far a slide may go.
LEMMA SmallerOf ==
  ASSUME NEW p \in Int, NEW q \in Int
  PROVE  LET limit == Max({0, Min({p, q})}) IN
         /\ limit \in Nat
         /\ limit <= p \/ limit = 0
         /\ limit <= q \/ limit = 0
         /\ limit = 0 \/ limit = p \/ limit = q
         /\ 0 < p /\ 0 < q => limit > 0
BY DEF Max, Min

\* A slide ends at the end of the box or before the first lines that differ.
LEMMA AheadSlides ==
  ASSUME NEW x \in Int, NEW y \in Int, NEW box,
         box.x2 \in Int, box.y2 \in Int
  PROVE  LET r == Ahead(x, y, box) IN
         /\ r \in Nat
         /\ r = 0 \/ (x + r <= box.x2 /\ y + r <= box.y2 /\ Same(x + r - 1, y + r - 1))
         /\ x < box.x2 /\ y < box.y2 /\ ~Same(x, y) => r = 0
         /\ x + r < box.x2 /\ y + r < box.y2 => ~Same(x + r, y + r)
         /\ \A i \in 0..(r - 1) : Same(x + i, y + i)
<1> DEFINE limit == Max({0, Min({box.x2 - x, box.y2 - y})})
           T == {r \in 0..limit : r = limit \/ ~Same(x + r, y + r)}
<1>1. /\ limit \in Nat
      /\ limit <= box.x2 - x \/ limit = 0
      /\ limit <= box.y2 - y \/ limit = 0
      /\ limit = 0 \/ limit = box.x2 - x \/ limit = box.y2 - y
      /\ x < box.x2 /\ y < box.y2 => limit > 0
  BY SmallerOf, box.x2 - x \in Int, box.y2 - y \in Int
<1> HIDE DEF limit
<1>2. PICK p \in T : \A q \in T : p <= q
  <2>1. limit \in T /\ T \subseteq Nat
    BY <1>1
  <2> QED
    BY <2>1, Least
<1>3. \A i \in 0..(p - 1) : Same(x + i, y + i)
  BY <1>1, <1>2
<1>4. p < limit => ~Same(x + p, y + p)
  BY <1>2
<1> DEFINE r == Ahead(x, y, box)
<1>5. /\ r \in 0..limit
      /\ \A i \in 0..(r - 1) : Same(x + i, y + i)
      /\ r < limit => ~Same(x + r, y + r)
  <2>1. p \in 0..limit
    BY <1>2
  <2> QED
    BY <1>3, <1>4, <2>1 DEF Ahead, limit
<1> HIDE DEF r
<1>6. r # 0 => Same(x + (r - 1), y + (r - 1)) /\ x + (r - 1) = x + r - 1 /\ y + (r - 1) = y + r - 1
  BY <1>1, <1>5
<1>7. ~Same(x, y) => r = 0
  <2>1. r # 0 => 0 \in 0..(r - 1) /\ Same(x + 0, y + 0) /\ x + 0 = x /\ y + 0 = y
    BY <1>1, <1>5
  <2> QED
    BY <2>1
<1>8. r \in Nat /\ (r = 0 \/ (x + r <= box.x2 /\ y + r <= box.y2))
  BY <1>1, <1>5
<1>9. x + r < box.x2 /\ y + r < box.y2 => ~Same(x + r, y + r)
  BY <1>1, <1>5
<1> QED
  BY <1>5, <1>6, <1>7, <1>8, <1>9 DEF r

LEMMA BehindSlides ==
  ASSUME NEW x \in Int, NEW y \in Int, NEW box,
         box.x1 \in Int, box.y1 \in Int
  PROVE  LET r == Behind(x, y, box) IN
         /\ r \in Nat
         /\ r = 0 \/ (x - r >= box.x1 /\ y - r >= box.y1 /\ Same(x - r, y - r))
         /\ ~Same(x - 1, y - 1) => r = 0
         /\ x - r > box.x1 /\ y - r > box.y1 => ~Same(x - r - 1, y - r - 1)
         /\ \A i \in 1..r : Same(x - i, y - i)
<1> DEFINE limit == Max({0, Min({x - box.x1, y - box.y1})})
           T == {r \in 0..limit : r = limit \/ ~Same(x - r - 1, y - r - 1)}
<1>1. /\ limit \in Nat
      /\ limit <= x - box.x1 \/ limit = 0
      /\ limit <= y - box.y1 \/ limit = 0
      /\ limit = 0 \/ limit = x - box.x1 \/ limit = y - box.y1
      /\ box.x1 < x /\ box.y1 < y => limit > 0
  BY SmallerOf, x - box.x1 \in Int, y - box.y1 \in Int
<1> HIDE DEF limit
<1>2. PICK p \in T : \A q \in T : p <= q
  <2>1. limit \in T /\ T \subseteq Nat
    BY <1>1
  <2> QED
    BY <2>1, Least
<1>3. \A i \in 1..p : Same(x - i, y - i)
  <2> SUFFICES ASSUME NEW i \in 1..p
               PROVE  Same(x - i, y - i)
    OBVIOUS
  <2>1. p \in 0..limit /\ i \in Int /\ i - 1 \in 0..limit /\ ~(p <= i - 1)
    BY <1>1, <1>2
  <2>3. i - 1 \notin T /\ i - 1 # limit
    BY <1>1, <1>2, <2>1
  <2>2. x - (i - 1) - 1 = x - i /\ y - (i - 1) - 1 = y - i
    BY <1>1, <1>2
  <2> QED
    BY <2>1, <2>2, <2>3
<1>4. p < limit => ~Same(x - p - 1, y - p - 1)
  BY <1>2
<1> DEFINE r == Behind(x, y, box)
<1>5. /\ r \in 0..limit
      /\ \A i \in 1..r : Same(x - i, y - i)
      /\ r < limit => ~Same(x - r - 1, y - r - 1)
  <2>1. p \in 0..limit
    BY <1>2
  <2> QED
    BY <1>3, <1>4, <2>1 DEF Behind, limit
<1> HIDE DEF r
<1>6. r # 0 => Same(x - r, y - r)
  BY <1>1, <1>5
<1>7. ~Same(x - 1, y - 1) => r = 0
  BY <1>1, <1>5
<1>8. r \in Nat /\ (r = 0 \/ (x - r >= box.x1 /\ y - r >= box.y1))
  BY <1>1, <1>5
<1>9. x - r > box.x1 /\ y - r > box.y1 => ~Same(x - r - 1, y - r - 1)
  BY <1>1, <1>5
<1> QED
  BY <1>5, <1>6, <1>7, <1>8, <1>9 DEF r

\* What trimming leaves of a box.
LEMMA Trims ==
  ASSUME NEW box \in Boxes, box.x1 <= box.x2, box.y1 <= box.y2
  PROVE  LET t == Trimmed(box) IN
         /\ t \in Boxes
         /\ box.x1 <= t.x1 /\ t.x1 <= t.x2 /\ t.x2 <= box.x2
         /\ box.y1 <= t.y1 /\ t.y1 <= t.y2 /\ t.y2 <= box.y2
         /\ t.x1 - box.x1 = t.y1 - box.y1 /\ box.x2 - t.x2 = box.y2 - t.y2
         /\ t.x1 < t.x2 /\ t.y1 < t.y2
              => ~Same(t.x1, t.y1) /\ ~Same(t.x2 - 1, t.y2 - 1)
<1> DEFINE p == Ahead(box.x1, box.y1, box)
           rest == Box(box.x1 + p, box.y1 + p, box.x2, box.y2)
           q == Behind(rest.x2, rest.y2, rest)
           t == Box(rest.x1, rest.y1, rest.x2 - q, rest.y2 - q)
<1>1. t = Trimmed(box)
  BY DEF Trimmed
<1>2. box.x1 \in Int /\ box.y1 \in Int /\ box.x2 \in Int /\ box.y2 \in Int
  BY DEF Boxes
<1>3. /\ p \in Nat
      /\ p = 0 \/ (box.x1 + p <= box.x2 /\ box.y1 + p <= box.y2)
      /\ box.x1 + p < box.x2 /\ box.y1 + p < box.y2 => ~Same(box.x1 + p, box.y1 + p)
  BY <1>2, AheadSlides
<1> HIDE DEF p
<1>4. /\ rest \in Boxes
      /\ rest.x1 = box.x1 + p /\ rest.y1 = box.y1 + p
      /\ rest.x2 = box.x2 /\ rest.y2 = box.y2
  BY <1>2, <1>3 DEF Box, Boxes
<1> HIDE DEF rest
<1>5. /\ q \in Nat
      /\ q = 0 \/ (rest.x2 - q >= rest.x1 /\ rest.y2 - q >= rest.y1)
      /\ rest.x2 - q > rest.x1 /\ rest.y2 - q > rest.y1
           => ~Same(rest.x2 - q - 1, rest.y2 - q - 1)
  BY <1>2, <1>3, <1>4, BehindSlides
<1> HIDE DEF q
<1>6. /\ t \in Boxes
      /\ t.x1 = rest.x1 /\ t.y1 = rest.y1 /\ t.x2 = rest.x2 - q /\ t.y2 = rest.y2 - q
  BY <1>2, <1>3, <1>4, <1>5 DEF Box, Boxes
<1> HIDE DEF t
<1>7. /\ box.x1 <= t.x1 /\ t.x1 <= t.x2 /\ t.x2 <= box.x2
      /\ box.y1 <= t.y1 /\ t.y1 <= t.y2 /\ t.y2 <= box.y2
      /\ t.x1 - box.x1 = t.y1 - box.y1 /\ box.x2 - t.x2 = box.y2 - t.y2
  BY <1>2, <1>3, <1>4, <1>5, <1>6
<1>8. ASSUME t.x1 < t.x2, t.y1 < t.y2
      PROVE  ~Same(t.x1, t.y1) /\ ~Same(t.x2 - 1, t.y2 - 1)
  <2>1. box.x1 + p < box.x2 /\ box.y1 + p < box.y2
    BY <1>2, <1>3, <1>4, <1>5, <1>6, <1>8
  <2>2. rest.x2 - q > rest.x1 /\ rest.y2 - q > rest.y1
    BY <1>2, <1>3, <1>4, <1>5, <1>6, <1>8
  <2> QED
    BY <1>3, <1>4, <1>5, <1>6, <2>1, <2>2
<1> QED
  BY <1>1, <1>6, <1>7, <1>8

-----------------------------------------------------------------------------
(* Where the two searches meet *)

\* Two points on one diagonal that have not met are both inside of the box: w is
\* counted from the lower corner.
LEMMA Apart ==
  ASSUME NEW n \in Int, NEW m \in Int, NEW k \in Int, NEW u \in Int, NEW w \in Int,
         u >= 0, u - k >= 0, w >= 0, w - (k - (n - m)) >= 0, u + w < m + k
  PROVE  u < n /\ u - k < m /\ w < m /\ w - (k - (n - m)) < n
OBVIOUS

\* A point on the edge, on a diagonal that the other search has not come to.
LEMMA Beyond ==
  ASSUME NEW d \in Nat, NEW k \in Int, NEW n \in Int, NEW m \in Int,
         NEW slack \in {0, 1}, NEW u, Fresh(u, k, d, n, m, slack),
         k - (n - m) \notin (-(d + slack))..(d + slack)
  PROVE  Settled(u, k, d, n, m, slack)
BY DEF Fresh, Settled

\* The sides of a box with lines on both sides.
LEMMA Sides ==
  ASSUME NEW box \in Boxes, box.x1 < box.x2, box.y1 < box.y2
  PROVE  /\ box.x1 \in Int /\ box.y1 \in Int /\ box.x2 \in Int /\ box.y2 \in Int
         /\ Width(box) \in Int /\ Width(box) >= 1 /\ Width(box) = box.x2 - box.x1
         /\ Height(box) \in Int /\ Height(box) >= 1 /\ Height(box) = box.y2 - box.y1
         /\ Delta(box) = Width(box) - Height(box)
         /\ Half(box) \in Nat
         /\ 2 * Half(box) = Width(box) + Height(box) + Slack(Width(box), Height(box))
         /\ Slack(Width(box), Height(box)) \in {0, 1}
<1>1. box.x1 \in Int /\ box.y1 \in Int /\ box.x2 \in Int /\ box.y2 \in Int
  BY DEF Boxes
<1> QED
  BY <1>1 DEF Width, Height, Delta, Half, Odd, Slack

-----------------------------------------------------------------------------
(* A diagonal is visited *)

LEMMA LaneOrder ==
  ASSUME NEW d \in Nat, NEW k \in Lanes(d)
  PROVE  /\ \A j \in Lanes(d) : /\ j \in Int /\ -d <= j /\ j <= d
                                /\ j > k - 2 => j = k \/ j > k
                                /\ j - 1 # k /\ j + 1 # k
         /\ k # -d => k - 2 \in Lanes(d)
         /\ d \in Lanes(d)
         /\ d # 0 => \A j \in Lanes(d - 1) :
              j \in Int /\ j # k /\ j - 2 # k /\ j + 2 # k /\ 1 - d <= j /\ j <= d - 1
<1>1. k \in Int /\ -d <= k /\ k <= d /\ (d - k) % 2 = 0
  BY DEF Lanes
<1>2. ASSUME NEW j \in Lanes(d)
      PROVE  /\ j \in Int /\ -d <= j /\ j <= d
             /\ j > k - 2 => j = k \/ j > k
             /\ j - 1 # k /\ j + 1 # k
  BY <1>1 DEF Lanes
<1>3. d \in Lanes(d) /\ (k # -d => k - 2 \in Lanes(d))
  BY <1>1 DEF Lanes
<1>4. ASSUME d # 0, NEW j \in Lanes(d - 1)
      PROVE  j \in Int /\ j # k /\ j - 2 # k /\ j + 2 # k /\ 1 - d <= j /\ j <= d - 1
  BY <1>1, <1>4 DEF Lanes
<1> QED
  BY <1>2, <1>3, <1>4

\* What was known of the points stays, and the visited part is longer by one.
LEMMA Visits ==
  ASSUME NEW U, NEW V, NEW d \in Nat, NEW k \in Lanes(d), NEW n \in Int, NEW m \in Int,
         NEW slack, d # 0,
         \A j \in Int : j # k => V[j] = U[j],
         Frontier(U, d - 1, n, m, slack), Visited(U, k, d, n, m, slack),
         Fresh(V[k], k, d, n, m, slack), Reach(V[k], k, d, U, n, m)
  PROVE  /\ Frontier(V, d - 1, n, m, slack)
         /\ Visited(V, k - 2, d, n, m, slack)
<1>1. /\ \A j \in Lanes(d) : j \in Int /\ (j > k - 2 => j = k \/ j > k)
                             /\ j - 1 # k /\ j + 1 # k
      /\ \A j \in Lanes(d - 1) : j \in Int /\ j # k /\ j - 2 # k /\ j + 2 # k
  BY LaneOrder
<1>2. Frontier(V, d - 1, n, m, slack)
  <2>1. \A j \in Lanes(d - 1) : V[j] = U[j] /\ V[j - 2] = U[j - 2] /\ V[j + 2] = U[j + 2]
    BY <1>1
  <2> QED
    BY <1>1, <2>1 DEF Frontier, Linked
<1>3. ASSUME NEW j \in Lanes(d), j > k - 2
      PROVE  Fresh(V[j], j, d, n, m, slack) /\ Reach(V[j], j, d, V, n, m)
  <2>1. j \in Int /\ V[j - 1] = U[j - 1] /\ V[j + 1] = U[j + 1]
    BY <1>1
  <2>2. CASE j = k
    BY <2>1, <2>2 DEF Reach
  <2>3. CASE j > k
    <3>1. V[j] = U[j]
      BY <2>1, <2>3, <1>1, k \in Int
    <3> QED
      BY <2>1, <2>3, <3>1 DEF Visited, Reach
  <2> QED
    BY <1>1, <1>3, <2>2, <2>3
<1> QED
  BY <1>2, <1>3 DEF Visited

\* After the last diagonal the distance is complete.
LEMMA LastVisit ==
  ASSUME NEW V, NEW d \in Nat, d # 0, NEW n \in Int, NEW m \in Int,
         NEW slack \in {0, 1},
         Frontier(V, d - 1, n, m, slack), Visited(V, -d - 2, d, n, m, slack)
  PROVE  Frontier(V, d, n, m, slack)
<1>1. \A j \in Lanes(d) : j > -d - 2
  BY DEF Lanes
<1>2. \A j \in Lanes(d - 1) : V[j] \in Int
  BY DEF Frontier, Fresh
<1> QED
  BY <1>1, <1>2, PassComplete DEF Visited

\* At distance 0 there is one diagonal.
LEMMA OneLane == Lanes(0) = {0}
BY DEF Lanes

LEMMA FirstVisit ==
  ASSUME NEW V, NEW n \in Int, NEW m \in Int, NEW slack, Fresh(V[0], 0, 0, n, m, slack)
  PROVE  Frontier(V, 0, n, m, slack)
<1>1. Linked(V, 0, n, m)
  BY OneLane DEF Linked, Fresh
<1> QED
  BY <1>1, OneLane DEF Frontier

\* The diagonals of the two searches, where the sum of the sides is odd.
LEMMA OddLanes ==
  ASSUME NEW d \in Nat, NEW k \in Lanes(d), NEW n \in Int, NEW m \in Int, Odd(n, m)
  PROVE  /\ k - (n - m) \in (1 - d)..(d - 1) => d # 0 /\ k - (n - m) \in Lanes(d - 1)
         /\ k - (n - m) \notin (1 - d)..(d - 1) => k - (n - m) \notin (-d)..d
         /\ d # 0 => \A j \in Lanes(d - 1) :
              j + (n - m) > k - 2 => j + (n - m) = k \/ j + (n - m) > k
<1>1. k \in Int /\ -d <= k /\ k <= d /\ (d - k) % 2 = 0 /\ (n - m) % 2 = 1
  BY DEF Lanes, Odd
<1>2. ASSUME d # 0, NEW j \in Lanes(d - 1), j + (n - m) > k - 2
      PROVE  j + (n - m) = k \/ j + (n - m) > k
  <2>1. j \in Int /\ (d - 1 - j) % 2 = 0
    BY <1>2 DEF Lanes
  <2> QED
    BY <1>1, <1>2, <2>1
<1>3. k - (n - m) \in (1 - d)..(d - 1) => d # 0 /\ k - (n - m) \in Lanes(d - 1)
  BY <1>1 DEF Lanes
<1>4. k - (n - m) \notin (1 - d)..(d - 1) => k - (n - m) \notin (-d)..d
  BY <1>1
<1> QED
  BY <1>2, <1>3, <1>4

\* The same where it is even.
LEMMA EvenLanes ==
  ASSUME NEW d \in Nat, NEW k \in Lanes(d), NEW n \in Int, NEW m \in Int, ~Odd(n, m)
  PROVE  /\ k + (n - m) \in (-d)..d => k + (n - m) \in Lanes(d)
         /\ \A j \in Lanes(d) :
              j - (n - m) > k - 2 => j - (n - m) = k \/ j - (n - m) > k
<1>1. k \in Int /\ -d <= k /\ k <= d /\ (d - k) % 2 = 0 /\ (n - m) % 2 = 0
  BY DEF Lanes, Odd
<1>2. ASSUME NEW j \in Lanes(d), j - (n - m) > k - 2
      PROVE  j - (n - m) = k \/ j - (n - m) > k
  <2>1. j \in Int /\ (d - j) % 2 = 0
    BY DEF Lanes
  <2> QED
    BY <1>1, <1>2, <2>1
<1>3. k + (n - m) \in (-d)..d => k + (n - m) \in Lanes(d)
  BY <1>1 DEF Lanes
<1> QED
  BY <1>2, <1>3

-----------------------------------------------------------------------------
(* The two searches have not met *)

\* On the way forward a point that does not meet the other search is settled, and
\* so is the one it was compared with.
LEMMA ForwardSettles ==
  ASSUME NEW n \in Int, NEW m \in Int, Odd(n, m), NEW d \in Nat, NEW k \in Lanes(d),
         NEW u, Fresh(u, k, d, n, m, 0), NEW B,
         d # 0 => \A j \in Lanes(d - 1) : Fresh(B[j], j, d - 1, m, n, 1),
         ~(k - (n - m) \in (1 - d)..(d - 1) /\ u + B[k - (n - m)] >= m + k)
  PROVE  /\ Settled(u, k, d, n, m, 0)
         /\ d # 0 /\ k - (n - m) \in Lanes(d - 1)
              => Settled(B[k - (n - m)], k - (n - m), d - 1, m, n, 1)
<1> DEFINE l == k - (n - m)
           w == B[l]
<1>1. k \in Int /\ l \in Int
  BY DEF Lanes
<1>2. CASE l \in (1 - d)..(d - 1)
  <2>1. w \in Int /\ w >= 0 /\ w - l >= 0 /\ u \in Int /\ u >= 0 /\ u - k >= 0
    BY <1>2, OddLanes DEF Fresh
  <2>2. u + w < m + k
    BY <1>1, <1>2, <2>1
  <2>3. u < n /\ u - k < m /\ w < m /\ w - l < n
    BY <1>1, <2>1, <2>2
  <2> QED
    BY <1>1, <2>1, <2>3 DEF Settled
<1>3. CASE l \notin (1 - d)..(d - 1)
  <2>1. l \notin (-d)..d
    BY <1>3, OddLanes
  <2>2. Settled(u, k, d, n, m, 0)
    BY <1>1, <2>1, Beyond
  <2>3. d # 0 => l \notin Lanes(d - 1)
    BY <1>3 DEF Lanes
  <2> QED
    BY <2>2, <2>3
<1> QED
  BY <1>2, <1>3

\* The same on the way back.
LEMMA BackwardSettles ==
  ASSUME NEW n \in Int, NEW m \in Int, ~Odd(n, m), NEW d \in Nat, NEW k \in Lanes(d),
         NEW w, Fresh(w, k, d, m, n, 0), NEW F,
         \A j \in Lanes(d) : Fresh(F[j], j, d, n, m, 0),
         ~(k + (n - m) \in (-d)..d /\ F[k + (n - m)] + w >= n + k)
  PROVE  /\ Settled(w, k, d, m, n, 0)
         /\ k + (n - m) \in Lanes(d)
              => Settled(F[k + (n - m)], k + (n - m), d, n, m, 0)
<1> DEFINE l == k + (n - m)
           u == F[l]
<1>1. k \in Int /\ l \in Int
  BY DEF Lanes
<1>2. CASE l \in (-d)..d
  <2>1. w \in Int /\ w >= 0 /\ w - k >= 0 /\ u \in Int /\ u >= 0 /\ u - l >= 0
    BY <1>2, EvenLanes DEF Fresh
  <2>2. u + w < n + k
    BY <1>1, <1>2, <2>1
  <2>3. u < n /\ u - l < m /\ w < m /\ w - k < n
    BY <1>1, <2>1, <2>2
  <2> QED
    BY <1>1, <2>1, <2>3 DEF Settled
<1>3. CASE l \notin (-d)..d
  <2>1. k - (m - n) \notin (-(d + 0))..(d + 0)
    BY <1>1, <1>3
  <2>2. Settled(w, k, d, m, n, 0)
    BY <1>1, <2>1, Beyond
  <2>3. l \notin Lanes(d)
    BY <1>3 DEF Lanes
  <2> QED
    BY <2>2, <2>3
<1> QED
  BY <1>2, <1>3

\* At the last distance the way forward meets the way back on the first diagonal
\* that both have.
LEMMA ForwardMeets ==
  ASSUME NEW n \in Int, NEW m \in Int, n >= 1, m >= 1, Odd(n, m),
         NEW d \in Nat, NEW k \in Lanes(d), 2 * d = n + m + 1,
         NEW u, Fresh(u, k, d, n, m, 0), NEW B,
         d # 0 => \A j \in Lanes(d - 1) : Fresh(B[j], j, d - 1, m, n, 1),
         ~(k - (n - m) \in (1 - d)..(d - 1) /\ u + B[k - (n - m)] >= m + k),
         k >= d \/ k >= d - 1 + (n - m)
  PROVE  k # -d /\ (k - 2 >= d \/ k - 2 >= d - 1 + (n - m))
<1> DEFINE l == k - (n - m)
           w == B[l]
<1>1. k \in Int /\ l \in Int /\ -d <= k /\ k <= d
  BY DEF Lanes
<1>2. u \in Int /\ 2 * u - k >= d
  BY DEF Fresh
<1>3. l \notin (1 - d)..(d - 1)
  <2>1. SUFFICES ASSUME l \in (1 - d)..(d - 1)
                 PROVE  FALSE
    OBVIOUS
  <2>2. w \in Int /\ 2 * w - l >= d - 1
    BY <2>1, OddLanes DEF Fresh
  <2>3. u + w >= m + k
    BY <1>1, <1>2, <2>2
  <2> QED
    BY <2>1, <2>3
<1>4. l \notin (-d)..d
  BY <1>3, OddLanes
<1> QED
  BY <1>1, <1>3, <1>4

LEMMA BackwardMeets ==
  ASSUME NEW n \in Int, NEW m \in Int, n >= 1, m >= 1, ~Odd(n, m),
         NEW d \in Nat, NEW k \in Lanes(d), 2 * d = n + m,
         NEW w, Fresh(w, k, d, m, n, 0), NEW F,
         \A j \in Lanes(d) : Fresh(F[j], j, d, n, m, 0),
         ~(k + (n - m) \in (-d)..d /\ F[k + (n - m)] + w >= n + k),
         k >= d \/ k >= d - (n - m)
  PROVE  k # -d /\ (k - 2 >= d \/ k - 2 >= d - (n - m))
<1> DEFINE l == k + (n - m)
           u == F[l]
<1>1. k \in Int /\ l \in Int /\ -d <= k /\ k <= d /\ (d - k) % 2 = 0 /\ (n - m) % 2 = 0
  BY DEF Lanes, Odd
<1>2. w \in Int /\ 2 * w - k >= d
  BY DEF Fresh
<1>3. l \notin (-d)..d
  <2>1. SUFFICES ASSUME l \in (-d)..d
                 PROVE  FALSE
    OBVIOUS
  <2>2. u \in Int /\ 2 * u - l >= d
    BY <2>1, EvenLanes DEF Fresh
  <2>3. u + w >= n + k
    BY <1>1, <1>2, <2>2
  <2> QED
    BY <2>1, <2>3
<1> QED
  BY <1>1, <1>3

-----------------------------------------------------------------------------
(* The search goes on *)

LEMMA SlackOf ==
  ASSUME NEW n \in Int, NEW m \in Int
  PROVE  /\ Slack(n, m) \in {0, 1} 
         /\ Odd(n, m) => Slack(n, m) = 1 
         /\ ~Odd(n, m) => Slack(n, m) = 0
         /\ ~Odd(n, m) => ~Odd(m, n)
BY DEF Slack, Odd

\* One diagonal forwards without meeting the way back.
LEMMA ForwardStep ==
  ASSUME NEW n \in Int, NEW m \in Int, n >= 1, m >= 1, NEW F, NEW B, NEW d, NEW k,
         Searching(F, B, n, m, "forward", d, k),
         NEW V, \A j \in Int : j # k => V[j] = F[j],
         Fresh(V[k], k, d, n, m, 0), d # 0 => Reach(V[k], k, d, F, n, m),
         ~(Odd(n, m) /\ k - (n - m) \in (1 - d)..(d - 1) /\ V[k] + B[k - (n - m)] >= m + k)
  PROVE  /\ k # -d => Searching(V, B, n, m, "forward", d, k - 2)
         /\ k = -d => Searching(V, B, n, m, "backward", d, d)
<1> DEFINE sl == Slack(n, m)
<1>1. /\ d \in Nat /\ k \in Lanes(d) /\ k \in Int /\ -d <= k /\ k <= d
      /\ 2 * d <= n + m + sl /\ ForwardOK(F, B, n, m, d, k)
      /\ InTime(n, m, "forward", d, k)
  BY DEF Searching, Lanes
<1>2. /\ sl \in {0, 1} /\ (Odd(n, m) => sl = 1)
  BY SlackOf
<1> HIDE DEF sl
<1>3. ASSUME d # 0
      PROVE  /\ Frontier(F, d - 1, n, m, 0)
             /\ \A j \in Lanes(d - 1) : Settled(F[j], j, d - 1, n, m, 0)
             /\ Visited(F, k, d, n, m, 0)
             /\ Odd(n, m) => \A j \in Lanes(d) : j > k => Settled(F[j], j, d, n, m, 0)
             /\ Frontier(B, d - 1, m, n, sl)
             /\ \A j \in Lanes(d - 1) :
                  ~Odd(n, m) \/ j + (n - m) > k => Settled(B[j], j, d - 1, m, n, sl)
  BY <1>1, <1>3 DEF ForwardOK, sl
<1>4. /\ Odd(n, m) => Settled(V[k], k, d, n, m, 0)
      /\ Odd(n, m) /\ d # 0 /\ k - (n - m) \in Lanes(d - 1)
           => Settled(B[k - (n - m)], k - (n - m), d - 1, m, n, sl)
  <2> SUFFICES ASSUME Odd(n, m)
               PROVE  /\ Settled(V[k], k, d, n, m, 0)
                      /\ d # 0 /\ k - (n - m) \in Lanes(d - 1)
                           => Settled(B[k - (n - m)], k - (n - m), d - 1, m, n, 1)
    BY <1>2
  <2>1. d # 0 => \A j \in Lanes(d - 1) : Fresh(B[j], j, d - 1, m, n, 1)
    BY <1>2, <1>3 DEF Frontier
  <2> QED
    BY <1>1, <2>1, ForwardSettles
\* The points that are known after the step.
<1>5. ASSUME d # 0
      PROVE  /\ Frontier(V, d - 1, n, m, 0)
             /\ \A j \in Lanes(d - 1) : Settled(V[j], j, d - 1, n, m, 0)
             /\ Visited(V, k - 2, d, n, m, 0)
  <2>1. \A j \in Lanes(d - 1) : V[j] = F[j]
    BY <1>1, <1>5, LaneOrder
  <2> QED
    BY <1>1, <1>3, <1>5, <2>1, Visits
<1>6. Odd(n, m) => \A j \in Lanes(d) : j > k - 2 => Settled(V[j], j, d, n, m, 0)
  <2> SUFFICES ASSUME Odd(n, m), NEW j \in Lanes(d), j > k - 2
               PROVE  Settled(V[j], j, d, n, m, 0)
    OBVIOUS
  <2>1. j = k \/ j > k
    BY <1>1, LaneOrder
  <2>2. CASE j > k
    <3>1. j \in Int /\ j <= d
      BY <1>1, LaneOrder
    <3>2. d # 0 /\ V[j] = F[j]
      BY <1>1, <2>2, <3>1
    <3> QED
      BY <1>3, <2>2, <3>2
  <2> QED
    BY <1>4, <2>1, <2>2
<1>7. ASSUME d # 0, Odd(n, m), NEW j \in Lanes(d - 1), j + (n - m) > k - 2
      PROVE  Settled(B[j], j, d - 1, m, n, sl)
  <2>1. j + (n - m) = k \/ j + (n - m) > k
    BY <1>1, <1>7, OddLanes
  <2>2. CASE j + (n - m) = k
    <3>1. j = k - (n - m)
      BY <1>1, <1>7, <2>2, LaneOrder
    <3> QED
      BY <1>4, <1>7, <3>1
  <2> QED
    BY <1>3, <1>7, <2>1, <2>2
<1>8. ASSUME k # -d
      PROVE  Searching(V, B, n, m, "forward", d, k - 2)
  <2>1. d # 0 /\ k - 2 \in Lanes(d)
    BY <1>1, <1>8, LaneOrder
  <2>2. ForwardOK(V, B, n, m, d, k - 2)
    BY <1>3, <1>5, <1>6, <1>7, <2>1 DEF ForwardOK, sl
  <2>3. InTime(n, m, "forward", d, k - 2)
    <3> SUFFICES ASSUME 2 * d = n + m + sl, Odd(n, m)
                 PROVE  k - 2 >= d \/ k - 2 >= d - 1 + (n - m)
      BY DEF InTime, sl
    <3>1. k >= d \/ k >= d - 1 + (n - m)
      BY <1>1 DEF InTime, sl
    <3>2. \A j \in Lanes(d - 1) : Fresh(B[j], j, d - 1, m, n, 1)
      BY <1>2, <1>3, <2>1 DEF Frontier
    <3> QED
      BY <1>1, <1>2, <3>1, <3>2, ForwardMeets
  <2> QED
    BY <1>1, <2>1, <2>2, <2>3 DEF Searching, sl
<1>9. ASSUME k = -d
      PROVE  Searching(V, B, n, m, "backward", d, d)
  <2>1. Frontier(V, d, n, m, 0)
    <3>1. CASE d = 0
      <4>1. k = 0
        BY <1>1, <3>1, OneLane
      <4> QED
        BY <3>1, <4>1, FirstVisit
    <3>2. CASE d # 0
      BY <1>1, <1>5, <1>9, <3>2, LastVisit
    <3> QED
      BY <3>1, <3>2
  <2>2. ASSUME NEW j \in Lanes(d), Odd(n, m) \/ j - (n - m) > d
        PROVE  Settled(V[j], j, d, n, m, 0)
    <3>1. j \in Int /\ -d <= j
      BY <1>1, LaneOrder
    <3>2. CASE Odd(n, m)
      BY <1>1, <1>6, <1>9, <3>1, <3>2
    <3>3. CASE j - (n - m) > d
      <4>1. j - (n - m) \notin (-(d + 0))..(d + 0)
        BY <1>1, <3>1, <3>3
      <4> QED
        BY <1>1, <2>1, <3>1, <4>1, Beyond DEF Frontier
    <3> QED
      BY <2>2, <3>2, <3>3
  <2>3. CASE d = 0
    <3>1. B[1] = 0
      BY <1>1, <2>3 DEF ForwardOK
    <3>2. InTime(n, m, "backward", d, d)
      BY <1>1, <2>3 DEF InTime, Slack
    <3> QED
      BY <1>1, <2>1, <2>2, <2>3, <3>1, <3>2, LaneOrder DEF BackwardOK, Searching, sl
  <2>4. CASE d # 0
    <3>1. ASSUME NEW j \in Lanes(d - 1)
          PROVE  Settled(B[j], j, d - 1, m, n, sl)
      <4>1. j \in Int /\ Fresh(B[j], j, d - 1, m, n, sl)
        BY <1>1, <1>3, <2>4, LaneOrder DEF Frontier
      <4>2. CASE Odd(n, m) /\ ~(j + (n - m) > k - 2)
        <5>1. j - (m - n) \notin (-(d - 1 + sl))..(d - 1 + sl)
          BY <1>1, <1>2, <1>9, <4>1, <4>2
        <5> QED
          BY <1>1, <1>2, <2>4, <4>1, <5>1, Beyond
      <4> QED
        BY <1>3, <1>7, <2>4, <4>2
    <3>2. Visited(B, d, d, m, n, sl)
      BY <1>1, LaneOrder DEF Visited
    <3>3. \A j \in Lanes(d) : j > d => Settled(B[j], j, d, m, n, 0)
      BY <1>1, LaneOrder
    <3>4. InTime(n, m, "backward", d, d)
      <4> SUFFICES ASSUME 2 * d = n + m + sl, Odd(n, m)
                   PROVE  FALSE
        BY <1>1 DEF InTime, sl
      <4>1. k >= d \/ k >= d - 1 + (n - m)
        BY <1>1 DEF InTime, sl
      <4>2. \A j \in Lanes(d - 1) : Fresh(B[j], j, d - 1, m, n, 1)
        BY <1>2, <1>3, <2>4 DEF Frontier
      <4> QED
        BY <1>1, <1>2, <1>9, <4>1, <4>2, ForwardMeets
    <3>5. BackwardOK(V, B, n, m, d, d)
      BY <1>3, <2>1, <2>2, <2>4, <3>1, <3>2, <3>3 DEF BackwardOK, sl
    <3> QED
      BY <1>1, <3>4, <3>5, LaneOrder DEF Searching, sl
  <2> QED
    BY <2>3, <2>4
<1> QED
  BY <1>8, <1>9

\* One diagonal backwards without meeting the way forward.
LEMMA BackwardStep ==
  ASSUME NEW n \in Int, NEW m \in Int, n >= 1, m >= 1, NEW F, NEW B, NEW d, NEW k,
         Searching(F, B, n, m, "backward", d, k),
         NEW V, \A j \in Int : j # k => V[j] = B[j],
         Fresh(V[k], k, d, m, n, Slack(n, m)), d # 0 => Reach(V[k], k, d, B, m, n),
         ~(~Odd(n, m) /\ k + (n - m) \in (-d)..d /\ F[k + (n - m)] + V[k] >= n + k)
  PROVE  /\ k # -d => Searching(F, V, n, m, "backward", d, k - 2)
         /\ k = -d => /\ 2 * d # n + m + Slack(n, m)
                      /\ 2 * d + 2 <= n + m + Slack(n, m)
                           => Searching(F, V, n, m, "forward", d + 1, d + 1)
<1> DEFINE sl == Slack(n, m)
<1>1. /\ d \in Nat /\ k \in Lanes(d) /\ k \in Int /\ -d <= k /\ k <= d
      /\ 2 * d <= n + m + sl /\ BackwardOK(F, B, n, m, d, k)
      /\ InTime(n, m, "backward", d, k)
  BY DEF Searching, Lanes
<1>2. /\ sl \in {0, 1} /\ (Odd(n, m) => sl = 1) /\ (~Odd(n, m) => sl = 0)
      /\ Fresh(V[k], k, d, m, n, sl)
  BY SlackOf
<1> HIDE DEF sl
<1>3. /\ Frontier(F, d, n, m, 0)
      /\ \A j \in Lanes(d) :
           Odd(n, m) \/ j - (n - m) > k => Settled(F[j], j, d, n, m, 0)
  BY <1>1 DEF BackwardOK
<1>4. ASSUME d # 0
      PROVE  /\ Frontier(B, d - 1, m, n, sl)
             /\ \A j \in Lanes(d - 1) : Settled(B[j], j, d - 1, m, n, sl)
             /\ Visited(B, k, d, m, n, sl)
             /\ ~Odd(n, m) => \A j \in Lanes(d) : j > k => Settled(B[j], j, d, m, n, 0)
  BY <1>1, <1>4 DEF BackwardOK, sl
<1>5. ASSUME ~Odd(n, m)
      PROVE  /\ Settled(V[k], k, d, m, n, 0)
             /\ k + (n - m) \in Lanes(d)
                  => Settled(F[k + (n - m)], k + (n - m), d, n, m, 0)
             /\ 2 * d = n + m => k # -d /\ (k - 2 >= d \/ k - 2 >= d - (n - m))
  <2>1. Fresh(V[k], k, d, m, n, 0) /\ \A j \in Lanes(d) : Fresh(F[j], j, d, n, m, 0)
    BY <1>2, <1>3, <1>5 DEF Frontier
  <2>2. 2 * d = n + m => k >= d \/ k >= d - (n - m)
    BY <1>1, <1>2, <1>5 DEF InTime, sl
  <2>3. ~(k + (n - m) \in (-d)..d /\ F[k + (n - m)] + V[k] >= n + k)
    BY <1>5
  <2>4. 2 * d = n + m => k # -d /\ (k - 2 >= d \/ k - 2 >= d - (n - m))
    BY <1>1, <1>5, <2>1, <2>2, <2>3, BackwardMeets
  <2> QED
    BY <1>1, <1>5, <2>1, <2>3, <2>4, BackwardSettles
\* The points that are known after the step.
<1>6. ASSUME d # 0
      PROVE  /\ Frontier(V, d - 1, m, n, sl)
             /\ \A j \in Lanes(d - 1) : Settled(V[j], j, d - 1, m, n, sl)
             /\ Visited(V, k - 2, d, m, n, sl)
  <2>1. \A j \in Lanes(d - 1) : V[j] = B[j]
    BY <1>1, <1>6, LaneOrder
  <2> QED
    BY <1>1, <1>2, <1>4, <1>6, <2>1, Visits
<1>7. ~Odd(n, m) => \A j \in Lanes(d) : j > k - 2 => Settled(V[j], j, d, m, n, 0)
  <2> SUFFICES ASSUME ~Odd(n, m), NEW j \in Lanes(d), j > k - 2
               PROVE  Settled(V[j], j, d, m, n, 0)
    OBVIOUS
  <2>1. j = k \/ j > k
    BY <1>1, LaneOrder
  <2>2. CASE j > k
    <3>1. j \in Int /\ j <= d
      BY <1>1, LaneOrder
    <3>2. d # 0 /\ V[j] = B[j]
      BY <1>1, <2>2, <3>1
    <3> QED
      BY <1>4, <2>2, <3>2
  <2> QED
    BY <1>5, <2>1, <2>2
<1>8. ASSUME NEW j \in Lanes(d), Odd(n, m) \/ j - (n - m) > k - 2
      PROVE  Settled(F[j], j, d, n, m, 0)
  <2>1. CASE Odd(n, m)
    BY <1>3, <2>1
  <2>2. CASE ~Odd(n, m)
    <3>1. j - (n - m) = k \/ j - (n - m) > k
      BY <1>1, <1>8, <2>2, EvenLanes
    <3>2. CASE j - (n - m) = k
      <4>1. j = k + (n - m)
        BY <1>1, <3>2, LaneOrder
      <4> QED
        BY <1>5, <2>2, <4>1
    <3> QED
      BY <1>3, <3>1, <3>2
  <2> QED
    BY <2>1, <2>2
<1>9. ASSUME k # -d
      PROVE  Searching(F, V, n, m, "backward", d, k - 2)
  <2>1. d # 0 /\ k - 2 \in Lanes(d)
    BY <1>1, <1>9, LaneOrder
  <2>2. BackwardOK(F, V, n, m, d, k - 2)
    BY <1>3, <1>6, <1>7, <1>8, <2>1 DEF BackwardOK, sl
  <2>3. InTime(n, m, "backward", d, k - 2)
    BY <1>1, <1>2, <1>5 DEF InTime, sl
  <2> QED
    BY <1>1, <2>1, <2>2, <2>3 DEF Searching, sl
<1>10. ASSUME k = -d
       PROVE  /\ 2 * d # n + m + sl
              /\ 2 * d + 2 <= n + m + sl => Searching(F, V, n, m, "forward", d + 1, d + 1)
  <2>1. 2 * d # n + m + sl
    BY <1>1, <1>2, <1>5, <1>10 DEF InTime, sl
  <2>2. d + 1 \in Nat /\ d + 1 # 0 /\ (d + 1) - 1 = d
    BY <1>1
  <2>3. Frontier(V, d, m, n, sl)
    <3>1. CASE d = 0
      <4>1. k = 0
        BY <1>1, <3>1, OneLane
      <4> QED
        BY <1>2, <3>1, <4>1, FirstVisit
    <3>2. CASE d # 0
      BY <1>1, <1>2, <1>6, <1>10, <3>2, LastVisit
    <3> QED
      BY <3>1, <3>2
  <2>4. ASSUME NEW j \in Lanes(d)
        PROVE  Settled(F[j], j, d, n, m, 0)
    <3>1. j \in Int /\ -d <= j /\ Fresh(F[j], j, d, n, m, 0)
      BY <1>1, <1>3, LaneOrder DEF Frontier
    <3>2. CASE ~(j - (n - m) > k - 2)
      <4>1. j - (n - m) \notin (-(d + 0))..(d + 0)
        BY <1>1, <1>10, <3>1, <3>2
      <4> QED
        BY <1>1, <3>1, <4>1, Beyond
    <3> QED
      BY <1>8, <3>2
  <2>5. ASSUME NEW j \in Lanes(d), ~Odd(n, m) \/ j + (n - m) > d + 1
        PROVE  Settled(V[j], j, d, m, n, sl)
    <3>1. j \in Int /\ -d <= j /\ j > k - 2 /\ Fresh(V[j], j, d, m, n, sl)
      BY <1>1, <1>10, <2>3, LaneOrder DEF Frontier
    <3>2. CASE ~Odd(n, m)
      BY <1>2, <1>7, <3>1, <3>2
    <3>3. CASE j + (n - m) > d + 1
      <4>1. j - (m - n) \notin (-(d + sl))..(d + sl)
        BY <1>1, <1>2, <3>1, <3>3
      <4> QED
        BY <1>1, <1>2, <3>1, <4>1, Beyond
    <3> QED
      BY <2>5, <3>2, <3>3
  <2>6. /\ d + 1 \in Lanes(d + 1)
        /\ \A j \in Lanes(d + 1) : ~(j > d + 1)
    BY <1>1 DEF Lanes
  <2>7. ForwardOK(F, V, n, m, d + 1, d + 1)
    BY <1>3, <2>2, <2>3, <2>4, <2>5, <2>6 DEF ForwardOK, Visited, sl
  <2>8. InTime(n, m, "forward", d + 1, d + 1)
    BY <1>1 DEF InTime
  <2> QED
    BY <1>1, <2>1, <2>2, <2>6, <2>7, <2>8 DEF Searching, sl
<1> QED
  BY <1>9, <1>10 DEF sl

-----------------------------------------------------------------------------
(* The points of a search in its arrays *)

LEMMA MemoryParts ==
  ASSUME NEW v \in Memory
  PROVE  DOMAIN v \subseteq Int /\ \A i \in DOMAIN v : v[i] \in Int
BY DEF Memory

LEMMA WrittenParts ==
  ASSUME NEW v \in Memory, NEW i \in Int, NEW val \in Int
  PROVE  LET new == Written(v, i, val) IN
         /\ new \in Memory
         /\ DOMAIN new = DOMAIN v \cup {i}
         /\ new[i] = val
         /\ \A j \in DOMAIN v : j # i => new[j] = v[j]
<1> DEFINE new == Written(v, i, val)
<1>1. DOMAIN v \subseteq Int /\ \A j \in DOMAIN v : v[j] \in Int
  BY MemoryParts
<1>2. /\ DOMAIN new = DOMAIN v \cup {i}
      /\ new[i] = val
      /\ \A j \in DOMAIN v : j # i => new[j] = v[j]
      /\ new \in [DOMAIN v \cup {i} -> Int]
  BY <1>1 DEF Written
<1>3. new \in Memory
  <2>1. DOMAIN v \cup {i} \in SUBSET Int
    BY <1>1
  <2> QED
    BY <1>2, <2>1 DEF Memory
<1> QED
  BY <1>2, <1>3

\* A point that is not negative was written.
LEMMA AhdPoint ==
  ASSUME NEW box \in Boxes, Half(box) \in Int, NEW fv \in Memory, NEW j \in Int,
         Ahd(box, fv)[j] >= 0
  PROVE  /\ j + Half(box) \in DOMAIN fv
         /\ fv[j + Half(box)] \in Int
         /\ fv[j + Half(box)] = Ahd(box, fv)[j] + box.x1
<1>1. j + Half(box) \in DOMAIN fv
  BY DEF Ahd
<1>2. fv[j + Half(box)] \in Int /\ box.x1 \in Int
  BY <1>1, MemoryParts DEF Boxes
<1> QED
  BY <1>1, <1>2 DEF Ahd

LEMMA BckPoint ==
  ASSUME NEW box \in Boxes, Half(box) \in Int, Delta(box) \in Int, NEW bv \in Memory,
         NEW j \in Int, Bck(box, bv)[j] >= 0
  PROVE  /\ j + Delta(box) + Half(box) \in DOMAIN bv
         /\ bv[j + Delta(box) + Half(box)] \in Int
         /\ bv[j + Delta(box) + Half(box)] = box.y2 - Bck(box, bv)[j]
<1>1. j + Delta(box) + Half(box) \in DOMAIN bv
  BY DEF Bck
<1>2. bv[j + Delta(box) + Half(box)] \in Int /\ box.y2 \in Int
  BY <1>1, MemoryParts DEF Boxes
<1> QED
  BY <1>1, <1>2 DEF Bck

LEMMA AhdWritten ==
  ASSUME NEW box \in Boxes, Half(box) \in Int, NEW fv \in Memory, NEW k \in Int, NEW x \in Int
  PROVE  LET new == Written(fv, k + Half(box), x) IN
         /\ Ahd(box, new)[k] = x - box.x1
         /\ \A j \in Int : j # k => Ahd(box, new)[j] = Ahd(box, fv)[j]
<1> DEFINE i == k + Half(box)
           new == Written(fv, i, x)
<1>1. i \in Int
  OBVIOUS
<1>2. /\ DOMAIN new = DOMAIN fv \cup {i}
      /\ new[i] = x
      /\ \A j \in DOMAIN fv : j # i => new[j] = fv[j]
  BY <1>1, WrittenParts, ZenonT(60)
<1> HIDE DEF new
<1>3. Ahd(box, new)[k] = x - box.x1
  BY <1>2 DEF Ahd
<1>4. ASSUME NEW j \in Int, j # k
      PROVE  Ahd(box, new)[j] = Ahd(box, fv)[j]
  <2>1. j + Half(box) # i
    BY <1>4
  <2>2. j + Half(box) \in DOMAIN new <=> j + Half(box) \in DOMAIN fv
    BY <1>2, <2>1
  <2> QED
    BY <1>2, <2>1, <2>2 DEF Ahd
<1> QED
  BY <1>3, <1>4 DEF new

LEMMA BckWritten ==
  ASSUME NEW box \in Boxes, Half(box) \in Int, Delta(box) \in Int, NEW bv \in Memory,
         NEW k \in Int, NEW y \in Int
  PROVE  LET new == Written(bv, k + Delta(box) + Half(box), y) IN
         /\ Bck(box, new)[k] = box.y2 - y
         /\ \A j \in Int : j # k => Bck(box, new)[j] = Bck(box, bv)[j]
<1> DEFINE i == k + Delta(box) + Half(box)
           new == Written(bv, i, y)
<1>1. i \in Int
  OBVIOUS
<1>2. /\ DOMAIN new = DOMAIN bv \cup {i}
      /\ new[i] = y
      /\ \A j \in DOMAIN bv : j # i => new[j] = bv[j]
  BY <1>1, WrittenParts, ZenonT(60)
<1> HIDE DEF new
<1>3. Bck(box, new)[k] = box.y2 - y
  BY <1>2 DEF Bck
<1>4. ASSUME NEW j \in Int, j # k
      PROVE  Bck(box, new)[j] = Bck(box, bv)[j]
  <2>1. j + Delta(box) + Half(box) # i
    BY <1>4
  <2>2. j + Delta(box) + Half(box) \in DOMAIN new <=> j + Delta(box) + Half(box) \in DOMAIN bv
    BY <1>2, <2>1
  <2> QED
    BY <1>2, <2>1, <2>2 DEF Bck
<1> QED
  BY <1>3, <1>4 DEF new

-----------------------------------------------------------------------------
(* One diagonal of search_path *)

\* Where the path to diagonal k starts its slide, and where that ends.
FwdFrom(box, fv, d, k) ==
  LET i == k + Half(box) IN
  IF k = -d \/ (k # d /\ fv[i - 1] < fv[i + 1]) THEN fv[i + 1] ELSE fv[i - 1] + 1

FwdTo(box, fv, d, k) ==
  LET from == FwdFrom(box, fv, d, k) IN from + Ahead(from, Row(box, k, from), box)

BckFrom(box, bv, d, k) ==
  LET i == k + Delta(box) + Half(box) IN
  IF k = -d \/ (k # d /\ bv[i - 1] > bv[i + 1]) THEN bv[i + 1] ELSE bv[i - 1] - 1

BckTo(box, bv, d, k) ==
  LET from == BckFrom(box, bv, d, k) IN
  from - Behind(Column(box, k + Delta(box), from), from, box)

\* A box that was trimmed and has lines on both sides.
Trim(box) ==
  /\ box \in Boxes /\ box.x1 < box.x2 /\ box.y1 < box.y2
  /\ ~Same(box.x1, box.y1) /\ ~Same(box.x2 - 1, box.y2 - 1)

\* The point forwards is where one step and a slide lead; the first step does not
\* lead to the lower corner.
LEMMA ForwardPoint ==
  ASSUME NEW box, Trim(box), NEW fv \in Memory, NEW B, NEW d, NEW k,
         Searching(Ahd(box, fv), B, Width(box), Height(box), "forward", d, k)
  PROVE  LET x == FwdTo(box, fv, d, k) u == x - box.x1 IN
         /\ x \in Int
         /\ Fresh(u, k, d, Width(box), Height(box), 0)
         /\ d # 0 => Reach(u, k, d, Ahd(box, fv), Width(box), Height(box))
         /\ d = 1 => ~(u = Width(box) /\ u - k = Height(box))
<1> DEFINE n == Width(box)
           m == Height(box)
           F == Ahd(box, fv)
           h == Half(box)
           from == FwdFrom(box, fv, d, k)
           y == Row(box, k, from)
           r == Ahead(from, y, box)
           x == FwdTo(box, fv, d, k)
           u == x - box.x1
<1>1. /\ box.x1 \in Int /\ box.y1 \in Int /\ box.x2 \in Int /\ box.y2 \in Int
      /\ n \in Int /\ n >= 1 /\ n = box.x2 - box.x1
      /\ m \in Int /\ m >= 1 /\ m = box.y2 - box.y1
      /\ h \in Int
      /\ box \in Boxes
      /\ ~Same(box.x1, box.y1) /\ ~Same(box.x2 - 1, box.y2 - 1)
  BY Sides DEF Trim
<1>2. /\ d \in Nat /\ k \in Lanes(d) /\ k \in Int
      /\ ForwardOK(F, B, n, m, d, k)
  BY DEF Searching, Lanes
<1>3. x = from + r
  BY DEF FwdTo
<1>4. ASSUME NEW j \in Int, F[j] >= 0
      PROVE  fv[j + h] \in Int /\ fv[j + h] = F[j] + box.x1
  BY <1>1, <1>4, AhdPoint
<1> HIDE DEF n, m, F, h
<1>5. from \in Int => /\ y = from - box.x1 - k + box.y1 /\ y \in Int /\ r \in Nat
                      /\ \/ r = 0
                         \/ from + r <= box.x2 /\ y + r <= box.y2 /\ Same(from + r - 1, y + r - 1)
                      /\ from < box.x2 /\ y < box.y2 /\ ~Same(from, y) => r = 0
  <2> SUFFICES ASSUME from \in Int
               PROVE  /\ y = from - box.x1 - k + box.y1 /\ y \in Int /\ r \in Nat
                      /\ \/ r = 0
                         \/ from + r <= box.x2 /\ y + r <= box.y2 /\ Same(from + r - 1, y + r - 1)
                      /\ from < box.x2 /\ y < box.y2 /\ ~Same(from, y) => r = 0
    OBVIOUS
  <2> HIDE DEF from
  <2>1. y = from - box.x1 - k + box.y1 /\ y \in Int
    BY <1>1, <1>2 DEF Row
  <2> HIDE DEF y
  <2> QED
    BY <1>1, <2>1, AheadSlides
<1>6. CASE d = 0
  <2>1. k = 0 /\ k = -d
    BY <1>2, <1>6, OneLane
  <2>2. F[1] = 0
    BY <1>2, <1>6 DEF ForwardOK
  <2>3. from = box.x1
    <3>1. fv[1 + h] = box.x1
      BY <1>1, <1>4, <2>2
    <3>2. k + h + 1 = 1 + h
      BY <1>1, <2>1
    <3> QED
      BY <2>1, <3>1, <3>2 DEF FwdFrom, h
  <2>4. y = box.y1 /\ r = 0
    BY <1>1, <1>5, <2>1, <2>3
  <2>5. x = box.x1 /\ u = 0
    BY <1>1, <1>3, <2>3, <2>4
  <2>6. Fresh(0, 0, 0, n, m, 0)
    BY <1>1 DEF Fresh
  <2> QED
    BY <1>1, <1>6, <2>1, <2>5, <2>6 DEF n, m
<1>7. CASE d # 0
  <2>1. /\ Frontier(F, d - 1, n, m, 0)
        /\ \A j \in Lanes(d - 1) : Settled(F[j], j, d - 1, n, m, 0)
    BY <1>2, <1>7 DEF ForwardOK
  <2>2. /\ -d <= k /\ k <= d
        /\ k < d => k + 1 \in Lanes(d - 1)
        /\ k > -d => k - 1 \in Lanes(d - 1)
    BY <1>2, LaneNeighbours
  <2>3. ASSUME NEW j \in Lanes(d - 1)
        PROVE  F[j] \in Int /\ fv[j + h] \in Int /\ fv[j + h] = F[j] + box.x1
    <3>1. j \in Int /\ F[j] \in Int /\ F[j] >= 0
      BY <2>1 DEF Frontier, Fresh, Lanes
    <3> QED
      BY <1>4, <3>1
  <2>4. k + h + 1 = (k + 1) + h /\ k + h - 1 = (k - 1) + h
    BY <1>1, <1>2
  <2>5. k < d => F[k + 1] \in Int /\ fv[k + h + 1] \in Int /\ fv[k + h + 1] = F[k + 1] + box.x1
    BY <2>2, <2>3, <2>4
  <2>6. k > -d => F[k - 1] \in Int /\ fv[k + h - 1] \in Int /\ fv[k + h - 1] = F[k - 1] + box.x1
    BY <2>2, <2>3, <2>4
  <2>7. /\ from \in Int
        /\ from - box.x1 = IF k = -d \/ (k # d /\ F[k - 1] < F[k + 1])
                           THEN F[k + 1] ELSE F[k - 1] + 1
    BY <1>1, <1>2, <1>7, <2>2, <2>5, <2>6 DEF FwdFrom, h
  <2> HIDE DEF from, r
  <2>8. /\ y = from - box.x1 - k + box.y1 /\ y \in Int /\ r \in Nat
        /\ r = 0 \/ ((from - box.x1) + r <= n /\ (from - box.x1) + r - k <= m)
    BY <1>1, <1>2, <1>5, <2>7
  <2>9. x \in Int /\ u = (from - box.x1) + r
    BY <1>1, <1>3, <2>7, <2>8
  <2>10. Fresh(u, k, d, n, m, 0) /\ Reach(u, k, d, F, n, m)
    <3> DEFINE f == from - box.x1
    <3>1. f = IF k = -d \/ (k # d /\ F[k - 1] < F[k + 1]) THEN F[k + 1] ELSE F[k - 1] + 1
      BY <2>7
    <3>2. r = 0 \/ (f + r <= n /\ f + r - k <= m)
      BY <2>8
    <3> HIDE DEF f
    <3>3. Fresh(f + r, k, d, n, m, 0) /\ Reach(f + r, k, d, F, n, m)
      BY <1>1, <1>2, <1>7, <2>1, <2>8, <3>1, <3>2, OneStep
    <3> QED
      BY <2>9, <3>3 DEF f
  <2>11. ASSUME d = 1, u = n, u - k = m
         PROVE  FALSE
    <3>1. 0 \in Lanes(d - 1) /\ F[0] \in Int /\ F[0] <= n - 1 /\ F[0] <= m - 1
      BY <1>1, <2>1, <2>11, OneLane DEF Frontier, Fresh
    <3>2. (k = 1 \/ k = -1) /\ -d = -1
      BY <1>2, <2>11 DEF Lanes
    <3>3. from - box.x1 < n
      BY <1>1, <2>7, <2>11, <3>1, <3>2
    <3>4. r # 0
      BY <1>1, <2>7, <2>8, <2>9, <2>11, <3>3
    <3>5. from + r = box.x2 /\ y + r = box.y2
      BY <1>1, <1>2, <2>7, <2>8, <2>9, <2>11
    <3> QED
      BY <1>1, <1>5, <2>7, <3>4, <3>5
  <2> QED
    BY <1>7, <2>9, <2>10, <2>11 DEF n, m, F
<1> QED
  BY <1>6, <1>7

\* The same backwards.
LEMMA BackwardPoint ==
  ASSUME NEW box, Trim(box), NEW bv \in Memory, NEW F, NEW d, NEW k,
         Searching(F, Bck(box, bv), Width(box), Height(box), "backward", d, k)
  PROVE  LET y == BckTo(box, bv, d, k) w == box.y2 - y
             sl == Slack(Width(box), Height(box)) IN
         /\ y \in Int
         /\ Fresh(w, k, d, Height(box), Width(box), sl)
         /\ d # 0 => Reach(w, k, d, Bck(box, bv), Height(box), Width(box))
<1> DEFINE n == Width(box)
           m == Height(box)
           sl == Slack(n, m)
           B == Bck(box, bv)
           h == Delta(box) + Half(box)
           from == BckFrom(box, bv, d, k)
           x == Column(box, k + Delta(box), from)
           r == Behind(x, from, box)
           y == BckTo(box, bv, d, k)
           w == box.y2 - y
<1>1. /\ box.x1 \in Int /\ box.y1 \in Int /\ box.x2 \in Int /\ box.y2 \in Int
      /\ n \in Int /\ n >= 1 /\ n = box.x2 - box.x1
      /\ m \in Int /\ m >= 1 /\ m = box.y2 - box.y1
      /\ Half(box) \in Int /\ Delta(box) = n - m /\ h \in Int
      /\ sl \in {0, 1}
      /\ box \in Boxes
      /\ ~Same(box.x1, box.y1) /\ ~Same(box.x2 - 1, box.y2 - 1)
  BY Sides DEF Trim
<1>2. /\ d \in Nat /\ k \in Lanes(d) /\ k \in Int
      /\ BackwardOK(F, B, n, m, d, k)
  BY DEF Searching, Lanes
<1>3. y = from - r
  BY DEF BckTo
<1>4. ASSUME NEW j \in Int, B[j] >= 0
      PROVE  bv[j + h] \in Int /\ bv[j + h] = box.y2 - B[j]
  <2>1. /\ bv[j + Delta(box) + Half(box)] \in Int
        /\ bv[j + Delta(box) + Half(box)] = box.y2 - B[j]
    BY <1>1, <1>4, BckPoint
  <2>2. j + Delta(box) + Half(box) = j + h
    BY <1>1
  <2> QED
    BY <2>1, <2>2
<1>5. k + Delta(box) + Half(box) = k + h
  BY <1>1, <1>2
<1> HIDE DEF h
<1>6. from = IF k = -d \/ (k # d /\ bv[k + h - 1] > bv[k + h + 1])
             THEN bv[k + h + 1] ELSE bv[k + h - 1] - 1
  BY <1>1, <1>2, <1>5 DEF BckFrom
<1>7. x = from - box.y1 + (k + (n - m)) + box.x1
  BY <1>1 DEF Column
<1> HIDE DEF n, m, B, sl, from, x
<1>8. from \in Int => /\ x \in Int /\ r \in Nat
                      /\ r = 0 \/ (x - r >= box.x1 /\ from - r >= box.y1)
                      /\ ~Same(x - 1, from - 1) => r = 0
  <2> SUFFICES ASSUME from \in Int
               PROVE  /\ x \in Int /\ r \in Nat
                      /\ r = 0 \/ (x - r >= box.x1 /\ from - r >= box.y1)
                      /\ ~Same(x - 1, from - 1) => r = 0
    OBVIOUS
  <2>1. x \in Int
    BY <1>1, <1>2, <1>7
  <2> QED
    BY <1>1, <2>1, BehindSlides
<1>9. CASE d = 0
  <2>1. k = 0 /\ k = -d
    BY <1>2, <1>9, OneLane
  <2>2. B[1] = 0
    BY <1>2, <1>9 DEF BackwardOK
  <2>3. from = box.y2
    <3>1. bv[1 + h] = box.y2
      BY <1>1, <1>4, <2>2
    <3>2. k + h + 1 = 1 + h
      BY <1>1, <2>1
    <3> QED
      BY <1>6, <2>1, <3>1, <3>2
  <2>4. x = box.x2 /\ r = 0
    BY <1>1, <1>7, <1>8, <2>1, <2>3
  <2>5. y = box.y2 /\ w = 0
    BY <1>1, <1>3, <2>3, <2>4
  <2>6. Fresh(0, 0, 0, m, n, sl)
    BY <1>1 DEF Fresh
  <2> QED
    BY <1>1, <1>9, <2>1, <2>5, <2>6 DEF n, m, sl
<1>10. CASE d # 0
  <2>1. /\ Frontier(B, d - 1, m, n, sl)
        /\ \A j \in Lanes(d - 1) : Settled(B[j], j, d - 1, m, n, sl)
    BY <1>2, <1>10 DEF BackwardOK, sl
  <2>2. /\ -d <= k /\ k <= d
        /\ k < d => k + 1 \in Lanes(d - 1)
        /\ k > -d => k - 1 \in Lanes(d - 1)
    BY <1>2, LaneNeighbours
  <2>3. ASSUME NEW j \in Lanes(d - 1)
        PROVE  B[j] \in Int /\ bv[j + h] \in Int /\ bv[j + h] = box.y2 - B[j]
    <3>1. j \in Int /\ B[j] \in Int /\ B[j] >= 0
      BY <2>1 DEF Frontier, Fresh, Lanes
    <3> QED
      BY <1>4, <3>1
  <2>4. k + h + 1 = (k + 1) + h /\ k + h - 1 = (k - 1) + h
    BY <1>1, <1>2
  <2>5. k < d => B[k + 1] \in Int /\ bv[k + h + 1] \in Int /\ bv[k + h + 1] = box.y2 - B[k + 1]
    BY <2>2, <2>3, <2>4
  <2>6. k > -d => B[k - 1] \in Int /\ bv[k + h - 1] \in Int /\ bv[k + h - 1] = box.y2 - B[k - 1]
    BY <2>2, <2>3, <2>4
  <2>7. /\ from \in Int
        /\ box.y2 - from = IF k = -d \/ (k # d /\ B[k - 1] < B[k + 1])
                           THEN B[k + 1] ELSE B[k - 1] + 1
    BY <1>1, <1>2, <1>6, <1>10, <2>2, <2>5, <2>6
  <2> HIDE DEF r
  <2>8. /\ r \in Nat
        /\ r = 0 \/ ((box.y2 - from) + r <= m /\ (box.y2 - from) + r - k <= n)
    BY <1>1, <1>2, <1>7, <1>8, <2>7
  <2>9. y \in Int /\ w = (box.y2 - from) + r
    BY <1>1, <1>3, <2>7, <2>8
  <2>10. Fresh(w, k, d, m, n, sl) /\ Reach(w, k, d, B, m, n)
    <3> DEFINE f == box.y2 - from
    <3>1. f = IF k = -d \/ (k # d /\ B[k - 1] < B[k + 1]) THEN B[k + 1] ELSE B[k - 1] + 1
      BY <2>7
    <3>2. r = 0 \/ (f + r <= m /\ f + r - k <= n)
      BY <2>8
    <3> HIDE DEF f
    <3>3. Fresh(f + r, k, d, m, n, sl) /\ Reach(f + r, k, d, B, m, n)
      <4>1. sl \in {0, 1} /\ r \in Nat /\ m \in Int /\ n \in Int /\ m >= 1 /\ n >= 1
        BY <1>1, <2>8
      <4>2. d \in Nat /\ d # 0 /\ k \in Lanes(d)
        BY <1>2, <1>10
      <4> QED
        BY <2>1, <3>1, <3>2, <4>1, <4>2, OneStep
    <3> QED
      BY <2>9, <3>3 DEF f
  <2> QED
    BY <1>10, <2>9, <2>10 DEF n, m, B, sl
<1> QED
  BY <1>9, <1>10

\* A piece of a diagonal inside of a box that is not at a corner of it: the parts
\* before and after it are smaller.
Inside(box, x1, y1, x2, y2) ==
  /\ x1 \in Int /\ y1 \in Int /\ x2 \in Int /\ y2 \in Int
  /\ box.x1 <= x1 /\ x1 <= x2 /\ x2 <= box.x2
  /\ box.y1 <= y1 /\ y1 <= y2 /\ y2 <= box.y2
  /\ x2 - x1 = y2 - y1
  /\ x1 < box.x2 \/ y1 < box.y2
  /\ box.x1 < x2 \/ box.y1 < y2

\* u and w are the points that meet on diagonal k, counted from their corners.
LEMMA MeetInside ==
  ASSUME NEW box,
         NEW x1 \in Int, NEW y1 \in Int, NEW n \in Int, NEW m \in Int,
         box.x1 = x1, box.y1 = y1, box.x2 = x1 + n, box.y2 = y1 + m,
         NEW k \in Int, NEW u \in Int, NEW w \in Int,
         u >= 0, u <= n, u - k >= 0, u - k <= m, u >= 1 \/ u - k >= 1,
         w >= 0, w <= m, w - (k - (n - m)) >= 0, w - (k - (n - m)) <= n,
         w >= 1 \/ w - (k - (n - m)) >= 1,
         u + w >= m + k
  PROVE  Inside(box, x1 + m - w + k, y1 + m - w, x1 + u, y1 + u - k)
BY DEF Inside

\* Where the way forward meets the way back it splits the box.
LEMMA ForwardMet ==
  ASSUME NEW box, Trim(box), NEW fv \in Memory, NEW bv \in Memory, NEW d, NEW k,
         Searching(Ahd(box, fv), Bck(box, bv), Width(box), Height(box), "forward", d, k),
         Odd(Width(box), Height(box)), k - Delta(box) \in (1 - d)..(d - 1)
  PROVE  LET x == FwdTo(box, fv, d, k) y == bv[k + Half(box)]
             u == x - box.x1 w == Bck(box, bv)[k - Delta(box)] IN
         /\ x >= Column(box, k, y) <=> u + w >= Height(box) + k
         /\ x >= Column(box, k, y) => Inside(box, Column(box, k, y), y, x, Row(box, k, x))
<1> DEFINE n == Width(box)
           m == Height(box)
           B == Bck(box, bv)
           l == k - Delta(box)
           x == FwdTo(box, fv, d, k)
           u == x - box.x1
           y == bv[k + Half(box)]
           w == B[l]
<1>1. /\ box.x1 \in Int /\ box.y1 \in Int /\ box.x2 \in Int /\ box.y2 \in Int
      /\ n \in Int /\ n >= 1 /\ n = box.x2 - box.x1
      /\ m \in Int /\ m >= 1 /\ m = box.y2 - box.y1
      /\ Half(box) \in Int /\ Delta(box) = n - m
      /\ box \in Boxes
  BY Sides DEF Trim
<1>2. /\ d \in Nat /\ k \in Lanes(d) /\ k \in Int /\ -d <= k /\ k <= d
      /\ ForwardOK(Ahd(box, fv), B, n, m, d, k)
  BY DEF Searching, Lanes
<1>3. /\ x \in Int /\ Fresh(u, k, d, n, m, 0)
      /\ d = 1 => ~(u = n /\ u - k = m)
  BY ForwardPoint
<1>4. d # 0 /\ l \in Lanes(d - 1) /\ l = k - (n - m) /\ l \in Int
  BY <1>1, <1>2, OddLanes
<1> HIDE DEF n, m, l, x, B
<1>5. Frontier(B, d - 1, m, n, 1)
  BY <1>1, <1>2, <1>4, SlackOf DEF ForwardOK, n, m
<1>6. Fresh(w, l, d - 1, m, n, 1)
  BY <1>4, <1>5 DEF Frontier
<1>7. w \in Int /\ w >= 0 /\ w - l >= 0 /\ 2 * w - l >= d - 1 /\ w <= m /\ w - l <= n
  BY <1>1, <1>2, <1>4, <1>6 DEF Fresh
<1>8. y \in Int /\ y = box.y2 - w
  <2>1. l + Delta(box) + Half(box) = k + Half(box)
    BY <1>1, <1>2, <1>4
  <2> QED
    BY <1>1, <1>4, <1>7, <2>1, BckPoint DEF B
<1>9. u \in Int /\ u >= 0 /\ u - k >= 0 /\ 2 * u - k >= d /\ u <= n /\ u - k <= m
  BY <1>1, <1>2, <1>3, <1>4 DEF Fresh, l
<1> HIDE DEF y, w
<1>10. /\ Column(box, k, y) = box.x1 + m - w + k
       /\ Row(box, k, x) = box.y1 + u - k
  BY <1>1, <1>2, <1>3, <1>7, <1>8 DEF Column, Row
<1>11. x >= Column(box, k, y) <=> u + w >= m + k
  BY <1>1, <1>2, <1>3, <1>7, <1>10
<1>12. ASSUME x >= Column(box, k, y)
       PROVE  Inside(box, Column(box, k, y), y, x, Row(box, k, x))
  <2>1. u + w >= m + k
    BY <1>11, <1>12
  <2>2. ASSUME w <= 0, l >= 0
        PROVE  FALSE
    <3>1. k = n - m /\ d = 1
      <4>1. l = 0 /\ w = 0
        BY <1>4, <1>7, <2>2
      <4>2. d \in Nat /\ d # 0 /\ 0 >= d - 1
        BY <1>2, <1>4, <1>7, <4>1
      <4>3. k \in Int /\ n \in Int /\ m \in Int /\ 0 = k - (n - m)
        BY <1>1, <1>2, <1>4, <4>1
      <4> QED
        BY <4>2, <4>3
    <3>2. u >= n
      BY <1>1, <1>2, <1>7, <1>9, <2>1, <2>2, <3>1
    <3>3. u = n /\ u - k = m
      BY <1>1, <1>9, <3>1, <3>2
    <3> QED
      BY <1>3, <3>1, <3>3
  <2> QED
    <3>1. /\ u \in Int /\ w \in Int /\ k \in Int /\ d \in Nat /\ d # 0
          /\ n \in Int /\ m \in Int
          /\ l = k - (n - m)
          /\ u >= 1 \/ u - k >= 1
      BY <1>1, <1>2, <1>4, <1>7, <1>9
    <3>2. w >= 1 \/ l < 0
      BY <1>4, <1>7, <2>2
    <3>3. w >= 1 \/ w - l >= 1
      BY <1>4, <1>7, <3>1, <3>2
    <3>4. /\ box.x2 = box.x1 + n /\ box.y2 = box.y1 + m
          /\ Column(box, k, y) = box.x1 + m - w + k
          /\ y = box.y1 + m - w /\ x = box.x1 + u
          /\ Row(box, k, x) = box.y1 + u - k
      BY <1>1, <1>3, <1>7, <1>8, <1>10
    <3>5. Inside(box, box.x1 + m - w + k, box.y1 + m - w, box.x1 + u, box.y1 + u - k)
      BY <1>1, <1>4, <1>7, <1>9, <2>1, <3>1, <3>3, <3>4, MeetInside
    <3> QED
      BY <3>4, <3>5
<1> QED
  BY <1>11, <1>12 DEF n, m, B, l, x, y, w

\* The same for the way back.
LEMMA BackwardMet ==
  ASSUME NEW box, Trim(box), NEW fv \in Memory, NEW bv \in Memory, NEW d, NEW k,
         Searching(Ahd(box, fv), Bck(box, bv), Width(box), Height(box), "backward", d, k),
         ~Odd(Width(box), Height(box)), k + Delta(box) \in (-d)..d
  PROVE  LET y == BckTo(box, bv, d, k) x == Column(box, k + Delta(box), y)
             x2 == fv[k + Delta(box) + Half(box)]
             w == box.y2 - y u == Ahd(box, fv)[k + Delta(box)] IN
         /\ x <= x2 <=> u + w >= Width(box) + k
         /\ x <= x2 => Inside(box, x, y, x2, Row(box, k + Delta(box), x2))
<1> DEFINE n == Width(box)
           m == Height(box)
           F == Ahd(box, fv)
           l == k + Delta(box)
           y == BckTo(box, bv, d, k)
           w == box.y2 - y
           x == Column(box, l, y)
           x2 == fv[l + Half(box)]
           u == F[l]
<1>1. /\ box.x1 \in Int /\ box.y1 \in Int /\ box.x2 \in Int /\ box.y2 \in Int
      /\ n \in Int /\ n >= 1 /\ n = box.x2 - box.x1
      /\ m \in Int /\ m >= 1 /\ m = box.y2 - box.y1
      /\ Half(box) \in Int /\ Delta(box) = n - m
      /\ box \in Boxes
  BY Sides DEF Trim
<1>2. /\ d \in Nat /\ k \in Lanes(d) /\ k \in Int /\ -d <= k /\ k <= d
      /\ BackwardOK(F, Bck(box, bv), n, m, d, k)
  BY DEF Searching, Lanes
<1>3. y \in Int /\ Fresh(w, k, d, m, n, 0)
  BY <1>1, BackwardPoint, SlackOf
<1>4. l \in Lanes(d) /\ l = k + (n - m) /\ l \in Int
  BY <1>1, <1>2, EvenLanes
<1>5. Fresh(u, l, d, n, m, 0)
  BY <1>2, <1>4 DEF BackwardOK, Frontier
<1> HIDE DEF n, m, l, y, F
<1>6. u \in Int /\ u >= 0 /\ u - l >= 0 /\ 2 * u - l >= d /\ u <= n /\ u - l <= m
  BY <1>1, <1>2, <1>4, <1>5 DEF Fresh
<1>7. x2 \in Int /\ x2 = box.x1 + u
  BY <1>1, <1>4, <1>6, AhdPoint DEF F
<1>8. w \in Int /\ w >= 0 /\ w - k >= 0 /\ 2 * w - k >= d /\ w <= m /\ w - k <= n
  BY <1>1, <1>2, <1>3, <1>4 DEF Fresh, l
<1> HIDE DEF u, x2
<1>9. /\ x \in Int /\ x = box.x1 + n - w + k
      /\ Row(box, l, x2) \in Int /\ Row(box, l, x2) = box.y1 + u - l
      /\ y = box.y2 - w
  <2>1. x = y - box.y1 + l + box.x1
    BY DEF Column
  <2>2. Row(box, l, x2) = x2 - box.x1 - l + box.y1
    BY DEF Row
  <2> QED
    BY <1>1, <1>2, <1>3, <1>4, <1>6, <1>7, <2>1, <2>2
<1> HIDE DEF x, w
<1>10. x <= x2 <=> u + w >= n + k
  BY <1>1, <1>2, <1>6, <1>7, <1>8, <1>9
<1>11. ASSUME x <= x2
       PROVE  Inside(box, x, y, x2, Row(box, l, x2))
  <2>1. u + w >= n + k
    BY <1>10, <1>11
  <2>2. (w # 0 \/ w - k # 0) /\ (u # 0 \/ u - l # 0)
    <3>1. CASE d # 0
      BY <1>2, <1>6, <1>8, <3>1
    <3>2. CASE d = 0
      <4>1. k = 0 /\ l = 0
        BY <1>2, <1>4, <3>2, OneLane
      <4>2. u <= n - 1 /\ w <= n - 1
        <5>1. Fresh(u, 0, 0, n, m, 0) /\ Fresh(w, 0, 0, m, n, 0)
          BY <1>3, <1>5, <3>2, <4>1 DEF w
        <5> QED
          BY <1>1, <5>1 DEF Fresh
      <4> QED
        BY <1>1, <1>6, <1>8, <2>1, <4>1, <4>2
    <3> QED
      BY <3>1, <3>2
  <2> QED
    <3>1. /\ w >= 1 \/ w - k >= 1
          /\ u >= 1 \/ u - l >= 1
      BY <1>2, <1>4, <1>6, <1>8, <2>2
    <3>2. /\ n \in Int /\ m \in Int /\ k \in Int /\ l \in Int
          /\ u \in Int /\ w \in Int /\ k = l - (n - m)
      BY <1>1, <1>2, <1>4, <1>6, <1>8
    <3>4. /\ box.x2 = box.x1 + n /\ box.y2 = box.y1 + m
          /\ y = box.y1 + m - w /\ x2 = box.x1 + u
      <4>1. box.x2 = box.x1 + n /\ box.y2 = box.y1 + m
        BY <1>1
      <4>2. y = box.y1 + m - w
        BY <1>1, <1>9, <3>2, <4>1
      <4> QED
        BY <1>7, <4>1, <4>2
    <3>5. x = box.x1 + m - w + l /\ u + w >= m + l
      <4>1. n + k = m + l
        BY <3>2
      <4>2. box.x1 \in Int /\ x = box.x1 + n - w + k
        BY <1>1, <1>9
      <4> QED
        BY <2>1, <3>2, <4>1, <4>2
    <3>3. Inside(box, box.x1 + m - w + l, box.y1 + m - w, box.x1 + u, box.y1 + u - l)
      BY <1>1, <1>4, <1>6, <1>8, <3>1, <3>2, <3>4, <3>5, MeetInside, ZenonT(60)
    <3> QED
      BY <1>9, <3>3, <3>4, <3>5
<1> QED
  BY <1>10, <1>11 DEF n, m, F, l, x, y, x2, u, w

-----------------------------------------------------------------------------
(* The steps of a search *)

\* What the invariant says of a search.
LEMMA SearchParts ==
  ASSUME DInv, phase = "search"
  PROVE  LET box == Head(work) s == search IN
         /\ work # <<>> /\ Trim(box) /\ box \in Boxes
         /\ s \in Searches /\ s.fv \in Memory /\ s.bv \in Memory
         /\ s.d \in Nat /\ s.k \in Lanes(s.d) /\ s.k \in Int
         /\ Half(box) \in Int /\ Delta(box) \in Int
         /\ Searching(Ahd(box, s.fv), Bck(box, s.bv), Width(box), Height(box), s.dir, s.d, s.k)
<1> DEFINE box == Head(work)
<1>1. work \in Seq(Boxes) /\ search \in Searches
  BY DEF DInv, TypeOK
<1>2. work # <<>> /\ box \in Boxes
  BY <1>1 DEF DInv, SearchOK
<1>3. Trim(box)
  BY <1>2 DEF DInv, SearchOK, Trim
<1>4. Searching(Ahd(box, search.fv), Bck(box, search.bv), Width(box), Height(box),
                search.dir, search.d, search.k)
  BY DEF DInv, SearchOK
<1>5. Half(box) \in Int /\ Delta(box) \in Int
  BY <1>3, Sides DEF Trim
<1>6. search.fv \in Memory /\ search.bv \in Memory /\ search.d \in Nat /\ search.k \in Int
  BY <1>1 DEF Searches
<1>7. search.k \in Lanes(search.d)
  BY <1>4 DEF Searching
<1> QED
  BY <1>1, <1>2, <1>3, <1>4, <1>5, <1>6, <1>7

\* Forward and Backward in the terms used here.
LEMMA ForwardIs ==
  ASSUME Forward
  PROVE  LET box == Head(work) s == search
             x == FwdTo(box, s.fv, s.d, s.k) y == s.bv[s.k + Half(box)]
             met == /\ Delta(box) % 2 = 1
                    /\ s.k - Delta(box) \in (1 - s.d)..(s.d - 1)
                    /\ x >= Column(box, s.k, y) IN
         /\ phase = "search" /\ s.dir = "forward"
         /\ \/ met /\ Split(Column(box, s.k, y), y, x, Row(box, s.k, x))
            \/ ~met /\ NextDiagonal([s EXCEPT !.fv = Written(@, s.k + Half(box), x)])
         /\ UNCHANGED <<a, b, script>>
BY DEF Forward, FwdTo, FwdFrom

LEMMA BackwardIs ==
  ASSUME Backward
  PROVE  LET box == Head(work) s == search k == s.k + Delta(box)
             y == BckTo(box, s.bv, s.d, s.k) x == Column(box, k, y)
             x2 == s.fv[k + Half(box)]
             met == /\ Delta(box) % 2 = 0
                    /\ k \in (-s.d)..s.d
                    /\ x <= x2 IN
         /\ phase = "search" /\ s.dir = "backward"
         /\ \/ met /\ Split(x, y, x2, Row(box, k, x2))
            \/ ~met /\ NextDiagonal([s EXCEPT !.bv = Written(@, k + Half(box), y)])
         /\ UNCHANGED <<a, b, script>>
BY DEF Backward, BckTo, BckFrom, BackIndex

\* The next diagonal, the other direction, the next distance, or the end.
LEMMA NextDiagonalIs ==
  ASSUME NEW s \in Searches, NextDiagonal(s)
  PROVE  LET t == search' IN
         \/ /\ UNCHANGED <<work, phase>>
            /\ t \in Searches /\ t.fv = s.fv /\ t.bv = s.bv
            /\ \/ s.k # -s.d /\ t.dir = s.dir /\ t.d = s.d /\ t.k = s.k - 2
               \/ s.k = -s.d /\ s.dir = "forward" /\ t.dir = "backward" /\ t.d = s.d /\ t.k = s.d
               \/ /\ s.k = -s.d /\ s.dir = "backward" /\ s.d < Half(Head(work))
                  /\ t.dir = "forward" /\ t.d = s.d + 1 /\ t.k = s.d + 1
         \/ /\ s.k = -s.d /\ s.dir = "backward" /\ s.d = Half(Head(work))
            /\ phase' = "script"
<1> DEFINE t == search'
<1> USE DEF Searches
<1>1. CASE s.k # -s.d /\ search' = [s EXCEPT !.k = @ - 2] /\ UNCHANGED <<work, phase>>
  BY <1>1
<1>2. CASE /\ s.k = -s.d /\ s.dir = "forward"
           /\ search' = [s EXCEPT !.dir = "backward", !.k = s.d]
           /\ UNCHANGED <<work, phase>>
  <2>1. t.dir = "backward" /\ t.d = s.d /\ t.k = s.d /\ t.fv = s.fv /\ t.bv = s.bv
    BY <1>2
  <2>2. t \in Searches
    <3> DEFINE r == [s EXCEPT !.dir = "backward"]
    <3>1. r \in Searches /\ s.d \in Int
      OBVIOUS
    <3>2. t = [r EXCEPT !.k = s.d]
      BY <1>2
    <3> HIDE DEF r, t
    <3> QED
      BY <3>1, <3>2
  <2> QED
    BY <1>2, <2>1, <2>2
<1>3. CASE /\ s.k = -s.d /\ s.dir = "backward" /\ s.d < Half(Head(work))
           /\ search' = [s EXCEPT !.dir = "forward", !.d = @ + 1, !.k = s.d + 1]
           /\ UNCHANGED <<work, phase>>
  <2>1. t.dir = "forward" /\ t.d = s.d + 1 /\ t.k = s.d + 1 /\ t.fv = s.fv /\ t.bv = s.bv
    BY <1>3
  <2>2. t \in Searches
    <3> DEFINE r == [s EXCEPT !.dir = "forward"]
               q == [r EXCEPT !.d = @ + 1]
    <3>1. r \in Searches /\ s.d + 1 \in Nat /\ s.d + 1 \in Int /\ r.d = s.d
      OBVIOUS
    <3>2. t = [q EXCEPT !.k = s.d + 1]
      BY <1>3
    <3> HIDE DEF r, t
    <3>3. q \in Searches
      BY <3>1
    <3> HIDE DEF q
    <3> QED
      BY <3>1, <3>2, <3>3
  <2> QED
    BY <1>3, <2>1, <2>2
<1>4. CASE s.k = -s.d /\ s.dir = "backward" /\ s.d = Half(Head(work)) /\ phase' = "script"
  BY <1>4
<1> QED
  BY <1>1, <1>2, <1>3, <1>4 DEF NextDiagonal

\* The search goes on with the same box.
LEMMA SameSearch ==
  ASSUME DInv, phase = "search", UNCHANGED <<a, b, work, phase>>, search' \in Searches,
         Searching(Ahd(Head(work), search'.fv), Bck(Head(work), search'.bv),
                   Width(Head(work)), Height(Head(work)), search'.dir, search'.d, search'.k),
         Abs(Delta(Head(work))) <= 1 => DOMAIN search'.bv \subseteq Allocated(Head(work))
  PROVE  DInv'
<1> DEFINE box == Head(work)
<1>1. TypeOK'
  BY DEF DInv, TypeOK
<1>2. Chained'
  BY DEF DInv, Chained
<1>3. SearchOK'
  <2>1. Trim(box) /\ work # <<>>
    BY SearchParts
  <2>2. /\ box.x1 < box.x2 /\ box.y1 < box.y2
        /\ ~Same(box.x1, box.y1)' /\ ~Same(box.x2 - 1, box.y2 - 1)'
    BY <2>1 DEF Trim, Same
  <2> QED
    BY <2>1, <2>2 DEF SearchOK
<1>4. IndicesOK'
  BY DEF IndicesOK
<1>5. Uneven'
  BY DEF Uneven
<1> QED
  BY <1>1, <1>2, <1>3, <1>4, <1>5 DEF DInv

\* One diagonal forwards where the searches do not meet: what it writes, and where it
\* goes on.
ForwardOn ==
  LET box == Head(work) s == search
      x == FwdTo(box, s.fv, s.d, s.k) y == s.bv[s.k + Half(box)] IN
  /\ phase = "search" /\ s.dir = "forward" /\ UNCHANGED <<a, b, script>>
  /\ ~ /\ Delta(box) % 2 = 1
       /\ s.k - Delta(box) \in (1 - s.d)..(s.d - 1)
       /\ x >= Column(box, s.k, y)
  /\ NextDiagonal([s EXCEPT !.fv = Written(@, s.k + Half(box), x)])

LEMMA ForwardTurns ==
  ASSUME DInv, ForwardOn
  PROVE  LET box == Head(work) s == search t == search'
             n == Width(box) m == Height(box)
             x == FwdTo(box, s.fv, s.d, s.k)
             V == Ahd(box, t.fv) B == Bck(box, s.bv) IN
         /\ x \in Int
         /\ V[s.k] = x - box.x1
         /\ \A j \in Int : j # s.k => V[j] = Ahd(box, s.fv)[j]
         /\ ~(Odd(n, m) /\ s.k - (n - m) \in (1 - s.d)..(s.d - 1)
              /\ V[s.k] + B[s.k - (n - m)] >= m + s.k)
         /\ UNCHANGED <<work, phase>>
         /\ t \in Searches /\ t.bv = s.bv
         /\ \/ s.k # -s.d /\ t.dir = "forward" /\ t.d = s.d /\ t.k = s.k - 2
            \/ s.k = -s.d /\ t.dir = "backward" /\ t.d = s.d /\ t.k = s.d
<1> DEFINE box == Head(work)
           s == search
           t == search'
           n == Width(box)
           m == Height(box)
           i == s.k + Half(box)
           x == FwdTo(box, s.fv, s.d, s.k)
           new == Written(s.fv, i, x)
           s1 == [s EXCEPT !.fv = new]
           V == Ahd(box, new)
           B == Bck(box, s.bv)
<1>1. /\ Trim(box) /\ box \in Boxes
      /\ s \in Searches /\ s.fv \in Memory /\ s.bv \in Memory
      /\ s.d \in Nat /\ s.k \in Lanes(s.d) /\ s.k \in Int
      /\ Half(box) \in Int /\ Delta(box) \in Int
      /\ Searching(Ahd(box, s.fv), B, n, m, "forward", s.d, s.k)
  BY SearchParts DEF ForwardOn
<1>2. /\ n \in Int /\ m \in Int /\ Delta(box) = n - m
  BY <1>1, Sides DEF Trim
<1>3. x \in Int
  BY <1>1, ForwardPoint
<1>4. /\ V[s.k] = x - box.x1
      /\ \A j \in Int : j # s.k => V[j] = Ahd(box, s.fv)[j]
  BY <1>1, <1>3, AhdWritten
<1>5. new \in Memory
  <2>1. i \in Int
    BY <1>1
  <2> QED
    BY <1>1, <1>3, <2>1, WrittenParts
<1>6. ~(Odd(n, m) /\ s.k - (n - m) \in (1 - s.d)..(s.d - 1) /\ V[s.k] + B[s.k - (n - m)] >= m + s.k)
  <2> SUFFICES ASSUME Odd(n, m), s.k - Delta(box) \in (1 - s.d)..(s.d - 1)
               PROVE  ~(V[s.k] + B[s.k - Delta(box)] >= m + s.k)
    BY <1>2
  <2>1. Delta(box) % 2 = 1
    BY <1>2 DEF Odd
  <2>2. ~(x >= Column(box, s.k, s.bv[i]))
    BY <2>1 DEF ForwardOn
  <2>3. x >= Column(box, s.k, s.bv[i]) <=> (x - box.x1) + B[s.k - Delta(box)] >= m + s.k
    BY <1>1, ForwardMet
  <2> QED
    BY <1>4, <2>2, <2>3
<1>7. /\ s1 \in Searches /\ s1.fv = new /\ s1.bv = s.bv /\ s1.dir = "forward"
      /\ s1.d = s.d /\ s1.k = s.k
  BY <1>1, <1>5 DEF Searches, ForwardOn
<1>8. NextDiagonal(s1)
  BY DEF ForwardOn
<1> HIDE DEF n, m, V, B, new, s1, x
<1>9. /\ UNCHANGED <<work, phase>>
      /\ t \in Searches /\ t.fv = new /\ t.bv = s.bv
      /\ \/ s.k # -s.d /\ t.dir = "forward" /\ t.d = s.d /\ t.k = s.k - 2
         \/ s.k = -s.d /\ t.dir = "backward" /\ t.d = s.d /\ t.k = s.d
  BY <1>7, <1>8, NextDiagonalIs
<1> QED
  BY <1>3, <1>4, <1>6, <1>9 DEF n, m, V, B, x

LEMMA ForwardGoesOn ==
  ASSUME DInv, ForwardOn
  PROVE  DInv' /\ phase' = "search" /\ SearchAdvances
<1> DEFINE box == Head(work)
           s == search
           t == search'
           n == Width(box)
           m == Height(box)
           x == FwdTo(box, s.fv, s.d, s.k)
           V == Ahd(box, t.fv)
           B == Bck(box, s.bv)
<1>1. phase = "search" /\ s.dir = "forward" /\ UNCHANGED <<a, b, script>>
  BY DEF ForwardOn
<1>2. /\ Trim(box) /\ s.fv \in Memory /\ s.d \in Nat /\ s.k \in Lanes(s.d)
      /\ Searching(Ahd(box, s.fv), B, n, m, "forward", s.d, s.k)
  BY <1>1, SearchParts
<1>3. n \in Int /\ m \in Int /\ n >= 1 /\ m >= 1
  BY <1>2, Sides DEF Trim
<1>4. /\ Fresh(x - box.x1, s.k, s.d, n, m, 0)
      /\ s.d # 0 => Reach(x - box.x1, s.k, s.d, Ahd(box, s.fv), n, m)
  BY <1>2, ForwardPoint
<1>5. /\ V[s.k] = x - box.x1
      /\ \A j \in Int : j # s.k => V[j] = Ahd(box, s.fv)[j]
      /\ ~(Odd(n, m) /\ s.k - (n - m) \in (1 - s.d)..(s.d - 1)
           /\ V[s.k] + B[s.k - (n - m)] >= m + s.k)
  BY ForwardTurns
<1>6. /\ UNCHANGED <<work, phase>>
      /\ t \in Searches /\ t.bv = s.bv
      /\ \/ s.k # -s.d /\ t.dir = "forward" /\ t.d = s.d /\ t.k = s.k - 2
         \/ s.k = -s.d /\ t.dir = "backward" /\ t.d = s.d /\ t.k = s.d
  BY ForwardTurns
<1> HIDE DEF n, m, V, B, x
<1>7. /\ s.k # -s.d => Searching(V, B, n, m, "forward", s.d, s.k - 2)
      /\ s.k = -s.d => Searching(V, B, n, m, "backward", s.d, s.d)
  BY <1>2, <1>3, <1>4, <1>5, ForwardStep
<1>8. Searching(Ahd(box, t.fv), Bck(box, t.bv), n, m, t.dir, t.d, t.k)
  BY <1>6, <1>7 DEF V, B
<1>9. Abs(Delta(box)) <= 1 => DOMAIN t.bv \subseteq Allocated(box)
  BY <1>1, <1>6 DEF DInv, IndicesOK
<1>10. DInv'
  BY <1>1, <1>6, <1>8, <1>9, SameSearch DEF n, m
<1>11. SearchAdvances
  <2>1. s.d \in Nat /\ s.k \in Int /\ -s.d <= s.k /\ (s.k + s.d) % 2 = 0
    BY <1>2 DEF Lanes
  <2>2. CASE s.k # -s.d
    BY <1>1, <1>6, <2>1, <2>2 DEF SearchAdvances, Remaining
  <2>3. CASE s.k = -s.d
    <3>1. (s.k + s.d) \div 2 = 0 /\ (s.d + s.d) \div 2 = s.d
      BY <2>1, <2>3
    <3>2. Remaining(s) = s.d + 1
      BY <1>1, <2>1, <3>1 DEF Remaining
    <3>3. Remaining(t) = s.d /\ t.d = s.d
      BY <1>6, <2>1, <2>3, <3>1 DEF Remaining
    <3> QED
      BY <2>1, <3>2, <3>3 DEF SearchAdvances
  <2> QED
    BY <2>2, <2>3
<1> QED
  BY <1>1, <1>6, <1>10, <1>11

\* The element that the way back writes is in its array, if the sides of the box
\* differ by one line at most.
LEMMA BackwardInArray ==
  ASSUME NEW box, Trim(box), NEW F, NEW B, NEW d, NEW k,
         Searching(F, B, Width(box), Height(box), "backward", d, k), Abs(Delta(box)) <= 1
  PROVE  k + Delta(box) + Half(box) \in Allocated(box)
<1> DEFINE n == Width(box)
           m == Height(box)
<1>1. /\ n \in Int /\ n >= 1 /\ m \in Int /\ m >= 1
      /\ Half(box) \in Nat /\ Delta(box) = n - m
      /\ 2 * Half(box) = n + m + Slack(n, m)
      /\ Slack(n, m) \in {0, 1}
  BY Sides DEF Trim
<1>2. /\ d \in Nat /\ k \in Int /\ -d <= k /\ k <= d
      /\ 2 * d <= n + m + Slack(n, m)
      /\ Odd(n, m) => 2 * d # n + m + Slack(n, m)
  BY DEF Searching, Lanes, InTime
<1>3. (n - m = 0 /\ Slack(n, m) = 0) \/ ((n - m = 1 \/ n - m = -1) /\ Odd(n, m) /\ Slack(n, m) = 1)
  BY <1>1 DEF Abs, Slack, Odd
<1> HIDE DEF n, m
<1>4. CASE n - m = 0 /\ Slack(n, m) = 0
  BY <1>1, <1>2, <1>4 DEF Allocated
<1>5. CASE (n - m = 1 \/ n - m = -1) /\ Odd(n, m) /\ Slack(n, m) = 1
  BY <1>1, <1>2, <1>5 DEF Allocated
<1> QED
  BY <1>3, <1>4, <1>5

\* The same backwards.
BackwardOn ==
  LET box == Head(work) s == search k == s.k + Delta(box)
      y == BckTo(box, s.bv, s.d, s.k) IN
  /\ phase = "search" /\ s.dir = "backward" /\ UNCHANGED <<a, b, script>>
  /\ ~ /\ Delta(box) % 2 = 0
       /\ k \in (-s.d)..s.d
       /\ Column(box, k, y) <= s.fv[k + Half(box)]
  /\ NextDiagonal([s EXCEPT !.bv = Written(@, k + Half(box), y)])

LEMMA BackwardTurns ==
  ASSUME DInv, BackwardOn
  PROVE  LET box == Head(work) s == search t == search'
             n == Width(box) m == Height(box)
             y == BckTo(box, s.bv, s.d, s.k)
             new == Written(s.bv, s.k + Delta(box) + Half(box), y)
             V == Bck(box, new) F == Ahd(box, s.fv) IN
         /\ y \in Int
         /\ V[s.k] = box.y2 - y
         /\ \A j \in Int : j # s.k => V[j] = Bck(box, s.bv)[j]
         /\ ~(~Odd(n, m) /\ s.k + (n - m) \in (-s.d)..s.d
              /\ F[s.k + (n - m)] + V[s.k] >= n + s.k)
         /\ new \in Memory /\ DOMAIN new = DOMAIN s.bv \cup {s.k + Delta(box) + Half(box)}
         /\ \/ /\ UNCHANGED <<work, phase>>
               /\ t \in Searches /\ t.fv = s.fv /\ t.bv = new
               /\ \/ s.k # -s.d /\ t.dir = "backward" /\ t.d = s.d /\ t.k = s.k - 2
                  \/ /\ s.k = -s.d /\ s.d < Half(box)
                     /\ t.dir = "forward" /\ t.d = s.d + 1 /\ t.k = s.d + 1
            \/ s.k = -s.d /\ s.d = Half(box) /\ phase' = "script"
<1> DEFINE box == Head(work)
           s == search
           t == search'
           n == Width(box)
           m == Height(box)
           k == s.k + Delta(box)
           i == k + Half(box)
           y == BckTo(box, s.bv, s.d, s.k)
           w == box.y2 - y
           new == Written(s.bv, i, y)
           s1 == [s EXCEPT !.bv = new]
           V == Bck(box, new)
           F == Ahd(box, s.fv)
<1>1. /\ Trim(box) /\ box \in Boxes
      /\ s \in Searches /\ s.fv \in Memory /\ s.bv \in Memory
      /\ s.d \in Nat /\ s.k \in Lanes(s.d) /\ s.k \in Int
      /\ Half(box) \in Int /\ Delta(box) \in Int
      /\ Searching(F, Bck(box, s.bv), n, m, "backward", s.d, s.k)
  BY SearchParts DEF BackwardOn
<1>2. n \in Int /\ m \in Int /\ Delta(box) = n - m
  BY <1>1, Sides DEF Trim
<1>3. y \in Int
  BY <1>1, BackwardPoint
<1>4. /\ V[s.k] = w
      /\ \A j \in Int : j # s.k => V[j] = Bck(box, s.bv)[j]
  BY <1>1, <1>3, BckWritten
<1>5. new \in Memory /\ DOMAIN new = DOMAIN s.bv \cup {i}
  <2>1. i \in Int
    BY <1>1
  <2> HIDE DEF i, y
  <2> QED
    BY <1>1, <1>3, <2>1, WrittenParts
<1>6. ~(~Odd(n, m) /\ s.k + (n - m) \in (-s.d)..s.d /\ F[s.k + (n - m)] + V[s.k] >= n + s.k)
  <2> SUFFICES ASSUME ~Odd(n, m), k \in (-s.d)..s.d
               PROVE  ~(F[k] + V[s.k] >= n + s.k)
    BY <1>2
  <2>1. Delta(box) % 2 = 0
    BY <1>2 DEF Odd
  <2>2. ~(Column(box, k, y) <= s.fv[i])
    BY <2>1 DEF BackwardOn
  <2>3. Column(box, k, y) <= s.fv[i] <=> F[k] + w >= n + s.k
    BY <1>1, BackwardMet
  <2> QED
    BY <1>4, <2>2, <2>3
<1>7. /\ s1 \in Searches /\ s1.bv = new /\ s1.fv = s.fv /\ s1.dir = "backward"
      /\ s1.d = s.d /\ s1.k = s.k
  BY <1>1, <1>5 DEF Searches, BackwardOn
<1>8. NextDiagonal(s1)
  BY DEF BackwardOn
<1> HIDE DEF n, m, V, F, new, s1, i, y
<1>9. \/ /\ UNCHANGED <<work, phase>>
         /\ t \in Searches /\ t.fv = s.fv /\ t.bv = new
         /\ \/ s.k # -s.d /\ t.dir = "backward" /\ t.d = s.d /\ t.k = s.k - 2
            \/ /\ s.k = -s.d /\ s.d < Half(box)
               /\ t.dir = "forward" /\ t.d = s.d + 1 /\ t.k = s.d + 1
      \/ s.k = -s.d /\ s.d = Half(box) /\ phase' = "script"
  BY <1>7, <1>8, NextDiagonalIs
<1> QED
  BY <1>3, <1>4, <1>5, <1>6, <1>9 DEF n, m, V, F, new, i, y

LEMMA BackwardGoesOn ==
  ASSUME DInv, BackwardOn
  PROVE  DInv' /\ phase' = "search" /\ SearchAdvances
<1> DEFINE box == Head(work)
           s == search
           t == search'
           n == Width(box)
           m == Height(box)
           i == s.k + Delta(box) + Half(box)
           y == BckTo(box, s.bv, s.d, s.k)
           w == box.y2 - y
           new == Written(s.bv, i, y)
           V == Bck(box, new)
           F == Ahd(box, s.fv)
<1>1. phase = "search" /\ s.dir = "backward" /\ UNCHANGED <<a, b, script>>
  BY DEF BackwardOn
<1>2. /\ Trim(box) /\ s.bv \in Memory /\ s.d \in Nat /\ s.k \in Lanes(s.d) /\ s.k \in Int
      /\ Half(box) \in Int
      /\ Searching(F, Bck(box, s.bv), n, m, "backward", s.d, s.k)
  BY <1>1, SearchParts
<1>3. /\ n \in Int /\ m \in Int /\ n >= 1 /\ m >= 1
      /\ 2 * Half(box) = n + m + Slack(n, m)
      /\ Slack(n, m) \in {0, 1}
  BY <1>2, Sides DEF Trim
<1>4. /\ Fresh(w, s.k, s.d, m, n, Slack(n, m))
      /\ s.d # 0 => Reach(w, s.k, s.d, Bck(box, s.bv), m, n)
  BY <1>2, BackwardPoint
<1>5. /\ V[s.k] = w
      /\ \A j \in Int : j # s.k => V[j] = Bck(box, s.bv)[j]
      /\ ~(~Odd(n, m) /\ s.k + (n - m) \in (-s.d)..s.d /\ F[s.k + (n - m)] + V[s.k] >= n + s.k)
      /\ DOMAIN new = DOMAIN s.bv \cup {i}
  BY BackwardTurns
<1>6. \/ /\ UNCHANGED <<work, phase>>
         /\ t \in Searches /\ t.fv = s.fv /\ t.bv = new
         /\ \/ s.k # -s.d /\ t.dir = "backward" /\ t.d = s.d /\ t.k = s.k - 2
            \/ /\ s.k = -s.d /\ s.d < Half(box)
               /\ t.dir = "forward" /\ t.d = s.d + 1 /\ t.k = s.d + 1
      \/ s.k = -s.d /\ s.d = Half(box) /\ phase' = "script"
  BY BackwardTurns
<1>7. Abs(Delta(box)) <= 1 => i \in Allocated(box)
  BY <1>2, BackwardInArray
<1>8. /\ s.k # -s.d => Searching(F, V, n, m, "backward", s.d, s.k - 2)
      /\ s.k = -s.d => /\ 2 * s.d # n + m + Slack(n, m)
                       /\ 2 * s.d + 2 <= n + m + Slack(n, m)
                            => Searching(F, V, n, m, "forward", s.d + 1, s.d + 1)
  <2> HIDE DEF n, m, V, F, w
  <2>1. /\ Fresh(V[s.k], s.k, s.d, m, n, Slack(n, m))
        /\ s.d # 0 => Reach(V[s.k], s.k, s.d, Bck(box, s.bv), m, n)
    BY <1>4, <1>5
  <2> QED
    <3>1. n \in Int /\ m \in Int /\ n >= 1 /\ m >= 1
      BY <1>3
    <3>2. Searching(F, Bck(box, s.bv), n, m, "backward", s.d, s.k)
      BY <1>2
    <3>3. /\ \A j \in Int : j # s.k => V[j] = Bck(box, s.bv)[j]
          /\ ~(~Odd(n, m) /\ s.k + (n - m) \in (-s.d)..s.d /\ F[s.k + (n - m)] + V[s.k] >= n + s.k)
      BY <1>5, Zenon
    <3> QED
      BY <2>1, <3>1, <3>2, <3>3, BackwardStep, ZenonT(60)
<1> HIDE DEF n, m, V, F, new, i
<1>9. /\ UNCHANGED <<work, phase>>
      /\ t \in Searches /\ t.fv = s.fv /\ t.bv = new
      /\ \/ s.k # -s.d /\ t.dir = "backward" /\ t.d = s.d /\ t.k = s.k - 2
         \/ /\ s.k = -s.d /\ s.d < Half(box)
            /\ t.dir = "forward" /\ t.d = s.d + 1 /\ t.k = s.d + 1
  <2>1. s.k = -s.d => s.d # Half(box)
    BY <1>2, <1>3, <1>8
  <2> QED
    BY <1>6, <2>1
<1>10. Searching(Ahd(box, t.fv), Bck(box, t.bv), n, m, t.dir, t.d, t.k)
  <2>1. s.d < Half(box) => 2 * s.d + 2 <= n + m + Slack(n, m)
    BY <1>2, <1>3
  <2> QED
    BY <1>8, <1>9, <2>1 DEF V, F
<1>11. Abs(Delta(box)) <= 1 => DOMAIN t.bv \subseteq Allocated(box)
  BY <1>1, <1>5, <1>7, <1>9 DEF DInv, IndicesOK
<1>12. DInv'
  BY <1>1, <1>9, <1>10, <1>11, SameSearch DEF n, m
<1>13. SearchAdvances
  <2>1. s.d \in Nat /\ s.k \in Int /\ -s.d <= s.k /\ (s.k + s.d) % 2 = 0
    BY <1>2 DEF Lanes
  <2>2. CASE s.k # -s.d
    BY <1>1, <1>9, <2>1, <2>2 DEF SearchAdvances, Remaining
  <2>3. CASE s.k = -s.d
    <3>1. (s.k + s.d) \div 2 = 0
      BY <2>1, <2>3
    <3>2. Remaining(s) = 0
      BY <1>1, <2>1, <3>1 DEF Remaining
    <3> QED
      BY <1>9, <2>3, <3>2 DEF SearchAdvances
  <2> QED
    BY <2>2, <2>3
<1> QED
  BY <1>1, <1>9, <1>12, <1>13

-----------------------------------------------------------------------------
(* The boxes that wait *)

LEMMA SplitSequence ==
  ASSUME NEW S, NEW w \in Seq(S), w # <<>>, NEW p \in S, NEW q \in S
  PROVE  LET v == <<p, q>> \o Tail(w) IN
         /\ v \in Seq(S) /\ Len(v) = Len(w) + 1
         /\ v[1] = p /\ v[2] = q /\ Head(v) = p
         /\ \A i \in 3..Len(v) : v[i] = w[i - 1]
<1>1. Tail(w) \in Seq(S) /\ Len(Tail(w)) = Len(w) - 1 /\ \A i \in 1..Len(Tail(w)) : Tail(w)[i] = w[i + 1]
  OBVIOUS
<1>2. <<p, q>> \in Seq(S) /\ Len(<<p, q>>) = 2
  OBVIOUS
<1> QED
  BY <1>1, <1>2

\* The box after the i-th, or the end of the texts.
After(w, i) == IF i < Len(w) THEN w[i + 1] ELSE Box(Len(a), Len(b), Len(a), Len(b))

InOrder(box, next) ==
  /\ box.x1 <= box.x2 /\ box.y1 <= box.y2
  /\ box.x2 <= next.x1 /\ next.x1 - box.x2 = next.y1 - box.y2

LEMMA ChainedIs == Chained <=> \A i \in DOMAIN work : InOrder(work[i], After(work, i))
BY DEF Chained, InOrder, After

\* The script goes on with another head of the sequence of boxes.
LEMMA SplitKeeps ==
  ASSUME DInv, work # <<>>, UNCHANGED <<a, b, script>>,
         NEW x1, NEW y1, NEW x2, NEW y2, Inside(Head(work), x1, y1, x2, y2),
         Split(x1, y1, x2, y2)
  PROVE  /\ DInv' /\ phase' = "script"
         /\ Splits
<1> DEFINE box == Head(work)
           p == Box(box.x1, box.y1, x1, y1)
           q == Box(x2, y2, box.x2, box.y2)
           v == <<p, q>> \o Tail(work)
<1>1. /\ work \in Seq(Boxes) /\ box \in Boxes /\ box = work[1]
      /\ Len(work) \in Nat /\ Len(work) >= 1 /\ 1 \in DOMAIN work
  BY DEF DInv, TypeOK
<1>2. /\ box.x1 \in Int /\ box.y1 \in Int /\ box.x2 \in Int /\ box.y2 \in Int
  BY <1>1 DEF Boxes
<1>3. /\ x1 \in Int /\ y1 \in Int /\ x2 \in Int /\ y2 \in Int
      /\ box.x1 <= x1 /\ x1 <= x2 /\ x2 <= box.x2
      /\ box.y1 <= y1 /\ y1 <= y2 /\ y2 <= box.y2
      /\ x2 - x1 = y2 - y1
      /\ x1 < box.x2 \/ y1 < box.y2
      /\ box.x1 < x2 \/ box.y1 < y2
  BY DEF Inside
<1>4. /\ p \in Boxes /\ p.x1 = box.x1 /\ p.y1 = box.y1 /\ p.x2 = x1 /\ p.y2 = y1
      /\ q \in Boxes /\ q.x1 = x2 /\ q.y1 = y2 /\ q.x2 = box.x2 /\ q.y2 = box.y2
  BY <1>2, <1>3 DEF Box, Boxes
<1>5. work' = v /\ search' = <<>> /\ phase' = "script"
  BY DEF Split
<1> HIDE DEF p, q
<1>6. /\ v \in Seq(Boxes) /\ Len(v) = Len(work) + 1
      /\ v[1] = p /\ v[2] = q
      /\ \A i \in 3..Len(v) : v[i] = work[i - 1]
  BY <1>1, <1>4, SplitSequence
<1> HIDE DEF v
<1>7. InOrder(box, After(work, 1))
  BY <1>1, ChainedIs DEF DInv
<1>8. Chained'
  <2>1. \A i \in DOMAIN v : InOrder(v[i], After(v, i))
    <3> SUFFICES ASSUME NEW i \in DOMAIN v
                 PROVE  InOrder(v[i], After(v, i))
      OBVIOUS
    <3>1. i \in 1..Len(v) /\ Len(v) \in Nat
      BY <1>6
    <3>2. CASE i = 1
      <4>1. v[i] = p /\ After(v, i) = q
        BY <1>1, <1>6, <3>2 DEF After
      <4> QED
        BY <1>2, <1>3, <1>4, <4>1 DEF InOrder
    <3>3. CASE i = 2
      <4>1. v[i] = q /\ After(v, i) = After(work, 1)
        BY <1>1, <1>6, <3>3 DEF After
      <4> QED
        BY <1>2, <1>3, <1>4, <1>7, <4>1 DEF InOrder
    <3>4. CASE i > 2
      <4>1. i - 1 \in DOMAIN work /\ v[i] = work[i - 1]
        BY <1>1, <1>6, <3>1, <3>4
      <4>2. After(v, i) = After(work, i - 1)
        <5>1. CASE i < Len(v)
          <6>1. i + 1 \in 3..Len(v) /\ i - 1 < Len(work) /\ (i + 1) - 1 = (i - 1) + 1
            BY <1>1, <1>6, <3>1, <3>4, <5>1
          <6> QED
            BY <1>6, <5>1, <6>1 DEF After
        <5>2. CASE ~(i < Len(v))
          <6>1. ~(i - 1 < Len(work))
            BY <1>1, <1>6, <3>1, <5>2
          <6> QED
            BY <5>2, <6>1 DEF After
        <5> QED
          BY <5>1, <5>2
      <4>3. InOrder(work[i - 1], After(work, i - 1))
        BY <4>1, ChainedIs DEF DInv
      <4> QED
        BY <4>1, <4>2, <4>3
    <3> QED
      BY <3>1, <3>2, <3>3, <3>4
  <2>2. \A i \in DOMAIN work' : InOrder(work'[i], After(work, i)')
    <3>1. \A i \in DOMAIN v : After(work, i)' = After(v, i)
      BY <1>5 DEF After
    <3> QED
      BY <1>5, <2>1, <3>1
  <2> QED
    BY <2>2 DEF Chained, InOrder, After
<1>9. TypeOK'
  BY <1>5, <1>6 DEF DInv, TypeOK
<1>10. SearchOK' /\ IndicesOK' /\ Uneven'
  BY <1>5 DEF SearchOK, IndicesOK, Uneven
<1>11. Splits
  <2>1. Len(work') = Len(work) + 1 /\ work'[1] = p /\ work'[2] = q
    BY <1>5, <1>6
  <2>2. /\ p.x2 - p.x1 + p.y2 - p.y1 < box.x2 - box.x1 + box.y2 - box.y1
        /\ q.x2 - q.x1 + q.y2 - q.y1 < box.x2 - box.x1 + box.y2 - box.y1
    <3> HIDE DEF box
    <3>1. x1 - box.x1 + y1 - box.y1 < box.x2 - box.x1 + box.y2 - box.y1
      <4>1. x1 + y1 < box.x2 + box.y2
        BY <1>2, <1>3
      <4> QED
        BY <1>2, <1>3, <4>1, SMTT(60)
    <3>2. box.x2 - x2 + box.y2 - y2 < box.x2 - box.x1 + box.y2 - box.y1
      <4>1. box.x1 + box.y1 < x2 + y2
        BY <1>2, <1>3
      <4> QED
        BY <1>2, <1>3, <4>1, SMTT(60)
    <3> QED
      BY <1>4, <3>1, <3>2
  <2> QED
    BY <2>1, <2>2 DEF Splits
<1> QED
  BY <1>5, <1>8, <1>9, <1>10, <1>11 DEF DInv

-----------------------------------------------------------------------------
(* The invariant, and the theorems *)

LEMMA ForwardKeeps ==
  ASSUME DInv, Forward
  PROVE  DInv' /\ Splits /\ SearchAdvances
<1> DEFINE box == Head(work)
           s == search
           x == FwdTo(box, s.fv, s.d, s.k)
           y == s.bv[s.k + Half(box)]
           met == /\ Delta(box) % 2 = 1
                  /\ s.k - Delta(box) \in (1 - s.d)..(s.d - 1)
                  /\ x >= Column(box, s.k, y)
<1>1. phase = "search" /\ s.dir = "forward" /\ UNCHANGED <<a, b, script>>
  BY ForwardIs
<1>2. CASE met /\ Split(Column(box, s.k, y), y, x, Row(box, s.k, x))
  <2>1. /\ work # <<>> /\ Trim(box) /\ s.fv \in Memory /\ s.bv \in Memory
        /\ Searching(Ahd(box, s.fv), Bck(box, s.bv), Width(box), Height(box), "forward", s.d, s.k)
    BY <1>1, SearchParts
  <2>2. Odd(Width(box), Height(box))
    BY <1>2, <2>1, Sides DEF Odd, Trim
  <2>3. Inside(box, Column(box, s.k, y), y, x, Row(box, s.k, x))
    BY <1>2, <2>1, <2>2, ForwardMet
  <2> HIDE DEF x, y
  <2> QED
    BY <1>1, <1>2, <2>1, <2>3, SplitKeeps DEF SearchAdvances
<1>3. CASE ~met /\ NextDiagonal([s EXCEPT !.fv = Written(@, s.k + Half(box), x)])
  <2>1. ForwardOn
    BY <1>1, <1>3 DEF ForwardOn
  <2> QED
    BY <2>1, ForwardGoesOn DEF Splits
<1> QED
  BY <1>2, <1>3, ForwardIs

LEMMA BackwardKeeps ==
  ASSUME DInv, Backward
  PROVE  DInv' /\ Splits /\ SearchAdvances
<1> DEFINE box == Head(work)
           s == search
           k == s.k + Delta(box)
           y == BckTo(box, s.bv, s.d, s.k)
           x == Column(box, k, y)
           x2 == s.fv[k + Half(box)]
           met == /\ Delta(box) % 2 = 0
                  /\ k \in (-s.d)..s.d
                  /\ x <= x2
<1>1. phase = "search" /\ s.dir = "backward" /\ UNCHANGED <<a, b, script>>
  BY BackwardIs
<1>2. CASE met /\ Split(x, y, x2, Row(box, k, x2))
  <2>1. /\ work # <<>> /\ Trim(box) /\ s.fv \in Memory /\ s.bv \in Memory
        /\ Searching(Ahd(box, s.fv), Bck(box, s.bv), Width(box), Height(box), "backward", s.d, s.k)
    BY <1>1, SearchParts
  <2>2. ~Odd(Width(box), Height(box))
    BY <1>2, <2>1, Sides DEF Odd, Trim
  <2>3. Inside(box, x, y, x2, Row(box, k, x2))
    BY <1>2, <2>1, <2>2, BackwardMet
  <2> HIDE DEF x, y, x2
  <2> QED
    BY <1>1, <1>2, <2>1, <2>3, SplitKeeps DEF SearchAdvances
<1>3. CASE ~met /\ NextDiagonal([s EXCEPT !.bv = Written(@, k + Half(box), y)])
  <2>1. BackwardOn
    BY <1>1, <1>3 DEF BackwardOn
  <2> QED
    BY <2>1, BackwardGoesOn DEF Splits
<1> QED
  BY <1>2, <1>3, BackwardIs

LEMMA WriteOutsideKeeps ==
  ASSUME DInv, WriteOutside
  PROVE  DInv'
<1>1. phase = "search" /\ phase' = "undefined" /\ UNCHANGED <<a, b, work, search, script>>
  BY DEF WriteOutside
<1>2. Uneven'
  <2> SUFFICES ASSUME ~(Abs(Delta(Head(work))) >= 2)
               PROVE  FALSE
    BY <1>1 DEF Uneven
  <2>1. /\ Trim(Head(work)) /\ search.k \in Int
        /\ Half(Head(work)) \in Int /\ Delta(Head(work)) \in Int
        /\ Searching(Ahd(Head(work), search.fv), Bck(Head(work), search.bv),
                     Width(Head(work)), Height(Head(work)), search.dir, search.d, search.k)
    BY <1>1, SearchParts
  <2>2. Abs(Delta(Head(work))) <= 1
    BY <2>1 DEF Abs
  <2>3. DOMAIN search.bv \subseteq Allocated(Head(work))
    BY <1>1, <2>2 DEF DInv, IndicesOK
  <2>4. search.dir = "backward" => BackIndex \in Allocated(Head(work))
    BY <2>1, <2>2, BackwardInArray DEF BackIndex
  <2> QED
    BY <2>3, <2>4 DEF WriteOutside
<1>3. TypeOK' /\ Chained' /\ SearchOK' /\ IndicesOK'
  BY <1>1 DEF DInv, TypeOK, Chained, SearchOK, IndicesOK
<1> QED
  BY <1>2, <1>3 DEF DInv

LEMMA InitKeeps ==
  ASSUME Init
  PROVE  DInv
<1>1. a \in Seq(Lines) /\ b \in Seq(Lines)
  <2>1. ASSUME NEW t \in Texts
        PROVE  t \in Seq(Lines)
    BY SizeAssumption DEF Texts
  <2> QED
    BY <2>1 DEF Init
<1>2. Box(0, 0, Len(a), Len(b)) \in Boxes /\ work = <<Box(0, 0, Len(a), Len(b))>>
  BY <1>1 DEF Init, Box, Boxes
<1>3. TypeOK
  BY <1>1, <1>2 DEF Init, TypeOK
<1>4. Chained
  <2>1. Len(work) = 1 /\ DOMAIN work = {1} /\ work[1] = Box(0, 0, Len(a), Len(b))
    BY <1>2
  <2>2. InOrder(work[1], After(work, 1))
    BY <1>1, <2>1 DEF InOrder, After, Box
  <2> QED
    BY <2>1, <2>2, ChainedIs
<1> QED
  BY <1>3, <1>4 DEF DInv, Init, SearchOK, IndicesOK, Uneven

\* The next box is empty on one side, and printed.
LEMMA EmitKeeps ==
  ASSUME DInv, Emit
  PROVE  DInv'
<1>1. /\ work # <<>> /\ work' = Tail(work) /\ phase = "script"
      /\ UNCHANGED <<a, b, search, phase>>
  BY DEF Emit
<1>2. /\ work \in Seq(Boxes) /\ Tail(work) \in Seq(Boxes)
      /\ Len(work) \in Nat /\ Len(Tail(work)) = Len(work) - 1
      /\ \A i \in 1..Len(Tail(work)) : Tail(work)[i] = work[i + 1]
  BY <1>1 DEF DInv, TypeOK
<1>3. Chained'
  <2>1. ASSUME NEW i \in DOMAIN Tail(work)
        PROVE  InOrder(Tail(work)[i], After(Tail(work), i))
    <3>1. /\ i \in Int /\ i + 1 \in DOMAIN work /\ Tail(work)[i] = work[i + 1]
          /\ i < Len(Tail(work)) <=> i + 1 < Len(work)
          /\ i < Len(Tail(work)) => Tail(work)[i + 1] = work[(i + 1) + 1]
      BY <1>2
    <3>2. After(Tail(work), i) = After(work, i + 1)
      BY <3>1 DEF After
    <3> QED
      BY <3>1, <3>2, ChainedIs DEF DInv
  <2> QED
    BY <1>1, <2>1 DEF Chained, InOrder, After
<1>4. TypeOK'
  BY <1>1, <1>2 DEF DInv, TypeOK
<1>5. SearchOK' /\ IndicesOK' /\ Uneven'
  BY <1>1 DEF SearchOK, IndicesOK, Uneven
<1> QED
  BY <1>3, <1>4, <1>5 DEF DInv

LEMMA ElementParts ==
  ASSUME NEW i \in Int, NEW val \in Int
  PROVE  /\ Element(i, val) \in Memory
         /\ DOMAIN Element(i, val) = {i} /\ Element(i, val)[i] = val
<1>1. DOMAIN Element(i, val) = {i} /\ Element(i, val)[i] = val /\ Element(i, val) \in [{i} -> Int]
  BY DEF Element
<1>2. {i} \in SUBSET Int
  OBVIOUS
<1> QED
  BY <1>1, <1>2 DEF Memory

\* The corners are what the search starts from.
LEMMA FirstElements ==
  ASSUME NEW box, Trim(box)
  PROVE  LET fv == Element(1 + Half(box), box.x1)
             bv == Element(1 + Half(box) + Delta(box), box.y2) IN
         /\ fv \in Memory /\ bv \in Memory
         /\ Searching(Ahd(box, fv), Bck(box, bv), Width(box), Height(box), "forward", 0, 0)
         /\ Abs(Delta(box)) <= 1 => DOMAIN bv \subseteq Allocated(box)
<1> DEFINE n == Width(box)
           m == Height(box)
           i == 1 + Half(box)
           j == 1 + Half(box) + Delta(box)
           fv == Element(i, box.x1)
           bv == Element(j, box.y2)
<1>1. /\ box.x1 \in Int /\ box.y2 \in Int
      /\ n \in Int /\ n >= 1 /\ m \in Int /\ m >= 1
      /\ Half(box) \in Nat /\ Delta(box) = n - m
      /\ 2 * Half(box) = n + m + Slack(n, m)
      /\ Slack(n, m) \in {0, 1}
  BY Sides DEF Trim
<1>2. i \in Int /\ j \in Int
  BY <1>1
<1>3. /\ fv \in Memory /\ DOMAIN fv = {i} /\ fv[i] = box.x1
      /\ bv \in Memory /\ DOMAIN bv = {j} /\ bv[j] = box.y2
  <2> HIDE DEF i, j
  <2> QED
    BY <1>1, <1>2, ElementParts
<1> HIDE DEF fv, bv
<1>4. Ahd(box, fv)[1] = 0
  BY <1>1, <1>3 DEF Ahd
<1>5. Bck(box, bv)[1] = 0
  <2>1. 1 + Delta(box) + Half(box) = j
    BY <1>1
  <2> HIDE DEF j
  <2> QED
    BY <1>1, <1>3, <2>1 DEF Bck
<1>6. Searching(Ahd(box, fv), Bck(box, bv), n, m, "forward", 0, 0)
  <2>1. InTime(n, m, "forward", 0, 0)
    BY <1>1 DEF InTime
  <2>2. 0 \in Lanes(0)
    BY OneLane
  <2> QED
    BY <1>1, <1>4, <1>5, <2>1, <2>2 DEF Searching, ForwardOK
<1>7. Abs(Delta(box)) <= 1 => j \in Allocated(box)
  <2> SUFFICES ASSUME Abs(Delta(box)) <= 1
               PROVE  j \in Allocated(box)
    OBVIOUS
  <2>1. \/ n - m = 0 /\ Slack(n, m) = 0
        \/ n - m = 1 /\ Slack(n, m) = 1
        \/ n - m = -1 /\ Slack(n, m) = 1
    BY <1>1 DEF Abs, Slack, Odd
  <2> HIDE DEF n, m
  <2> QED
    BY <1>1, <2>1 DEF Allocated
<1> QED
  BY <1>3, <1>6, <1>7 DEF fv, bv

\* The next box has lines on both sides.
LEMMA StartSearchKeeps ==
  ASSUME DInv, StartSearch
  PROVE  DInv' /\ phase = "script" /\ phase' = "search"
<1> DEFINE old == Head(work)
           box == Trimmed(old)
           v == <<box>> \o Tail(work)
<1>1. /\ work # <<>> /\ phase = "script" /\ phase' = "search" /\ UNCHANGED <<a, b, script>>
      /\ box.x1 < box.x2 /\ box.y1 < box.y2
      /\ work' = v
      /\ search' = [dir |-> "forward", d |-> 0, k |-> 0,
                    fv |-> Element(1 + Half(box), box.x1),
                    bv |-> Element(1 + Half(box) + Delta(box), box.y2)]
  BY DEF StartSearch, NextBox
<1>2. /\ work \in Seq(Boxes) /\ old \in Boxes /\ old = work[1]
      /\ Len(work) \in Nat /\ Len(work) >= 1 /\ 1 \in DOMAIN work
  BY <1>1 DEF DInv, TypeOK
<1>3. InOrder(old, After(work, 1))
  BY <1>2, ChainedIs DEF DInv
<1>4. old.x1 <= old.x2 /\ old.y1 <= old.y2
  BY <1>3 DEF InOrder
<1>5. /\ box \in Boxes
      /\ old.x1 <= box.x1 /\ box.x1 <= box.x2 /\ box.x2 <= old.x2
      /\ old.y1 <= box.y1 /\ box.y1 <= box.y2 /\ box.y2 <= old.y2
      /\ old.x2 - box.x2 = old.y2 - box.y2
      /\ ~Same(box.x1, box.y1) /\ ~Same(box.x2 - 1, box.y2 - 1)
  BY <1>1, <1>2, <1>4, Trims
<1> HIDE DEF box
<1>6. /\ v \in Seq(Boxes) /\ Len(v) = Len(work) /\ v[1] = box /\ Head(v) = box /\ v # <<>>
      /\ \A i \in 2..Len(v) : v[i] = work[i]
  <2>1. /\ Tail(work) \in Seq(Boxes) /\ Len(Tail(work)) = Len(work) - 1
        /\ \A i \in 1..Len(Tail(work)) : Tail(work)[i] = work[i + 1]
    BY <1>1, <1>2
  <2>2. <<box>> \in Seq(Boxes) /\ Len(<<box>>) = 1 /\ <<box>>[1] = box
    BY <1>5
  <2> QED
    BY <1>2, <2>1, <2>2
<1> HIDE DEF v
<1>7. Trim(box)
  BY <1>1, <1>5 DEF Trim
<1>8. Chained'
  <2>1. ASSUME NEW i \in DOMAIN v
        PROVE  InOrder(v[i], After(v, i))
    <3>1. i \in 1..Len(v) /\ i \in DOMAIN work
      BY <1>2, <1>6
    <3>2. After(v, i) = After(work, i)
      <4>1. i < Len(v) => i + 1 \in 2..Len(v)
        BY <1>2, <1>6, <3>1
      <4> QED
        BY <1>6, <4>1 DEF After
    <3>3. CASE i = 1
      <4>1. /\ box.x1 \in Int /\ box.y1 \in Int /\ box.x2 \in Int /\ box.y2 \in Int
            /\ old.x2 \in Int /\ old.y2 \in Int
        BY <1>2, <1>5 DEF Boxes
      <4>2. After(work, 1).x1 \in Int /\ After(work, 1).y1 \in Int
        <5>1. Len(a) \in Int /\ Len(b) \in Int
          BY DEF DInv, TypeOK
        <5>2. Box(Len(a), Len(b), Len(a), Len(b)) \in Boxes
          BY <5>1 DEF Box, Boxes
        <5>3. 1 < Len(work) => work[1 + 1] \in Boxes
          BY <1>2
        <5>4. After(work, 1) \in Boxes
          BY <5>2, <5>3 DEF After
        <5> QED
          BY <5>4 DEF Boxes
      <4> DEFINE N == After(work, 1)
      <4>3. /\ old.x2 <= N.x1 /\ N.x1 - old.x2 = N.y1 - old.y2
        BY <1>3 DEF InOrder
      <4> HIDE DEF N
      <4>4. box.x2 <= N.x1 /\ N.x1 - box.x2 = N.y1 - box.y2
        BY <1>5, <4>1, <4>2, <4>3 DEF N
      <4>5. InOrder(box, N)
        BY <1>5, <4>4 DEF InOrder
      <4> QED
        BY <1>6, <3>2, <3>3, <4>5 DEF N
    <3>4. CASE i # 1
      <4>1. v[i] = work[i]
        BY <1>2, <1>6, <3>1, <3>4
      <4> QED
        BY <3>1, <3>2, <4>1, ChainedIs DEF DInv
    <3> QED
      BY <3>3, <3>4
  <2> QED
    BY <1>1, <2>1 DEF Chained, InOrder, After
<1>9. /\ search'.fv = Element(1 + Half(box), box.x1)
      /\ search'.bv = Element(1 + Half(box) + Delta(box), box.y2)
      /\ search'.dir = "forward" /\ search'.d = 0 /\ search'.k = 0
  BY <1>1
<1>10. /\ search'.fv \in Memory /\ search'.bv \in Memory
       /\ Searching(Ahd(box, search'.fv), Bck(box, search'.bv), Width(box), Height(box), "forward", 0, 0)
       /\ Abs(Delta(box)) <= 1 => DOMAIN search'.bv \subseteq Allocated(box)
  BY <1>7, <1>9, FirstElements
<1>11. TypeOK'
  <2>1. search' \in Searches
    BY <1>1, <1>9, <1>10 DEF Searches
  <2> QED
    BY <1>1, <1>6, <2>1 DEF DInv, TypeOK
<1>12. SearchOK'
  <2>1. Head(work') = box /\ work' # <<>>
    BY <1>1, <1>6
  <2>2. /\ a'[box.x1 + 1] # b'[box.y1 + 1]
        /\ a'[box.x2 - 1 + 1] # b'[box.y2 - 1 + 1]
    BY <1>1, <1>5 DEF Same
  <2> QED
    BY <1>1, <1>9, <1>10, <2>1, <2>2 DEF SearchOK, Same
<1>13. IndicesOK' /\ Uneven'
  BY <1>1, <1>6, <1>10 DEF IndicesOK, Uneven
<1> QED
  BY <1>1, <1>8, <1>11, <1>12, <1>13 DEF DInv

LEMMA Step ==
  ASSUME DInv, [Next]_vars
  PROVE  DInv' /\ ((Splits /\ SearchAdvances) \/ UNCHANGED vars)
<1>1. CASE Emit
  <2>1. phase = "script"
    BY <1>1 DEF Emit
  <2> QED
    BY <1>1, <2>1, EmitKeeps DEF Splits, SearchAdvances
<1>2. CASE StartSearch
  BY <1>2, StartSearchKeeps DEF Splits, SearchAdvances
<1>3. CASE Forward
  BY <1>3, ForwardKeeps
<1>4. CASE Backward
  BY <1>4, BackwardKeeps
<1>5. CASE WriteOutside
  <2>1. phase' = "undefined"
    BY <1>5 DEF WriteOutside
  <2> QED
    BY <1>5, <2>1, WriteOutsideKeeps DEF Splits, SearchAdvances
<1>6. CASE UNCHANGED vars
  <2>1. DInv'
    BY <1>6 DEF vars, DInv, TypeOK, Chained, SearchOK, Same, IndicesOK, Uneven
  <2> QED
    BY <1>6, <2>1
<1> QED
  BY <1>1, <1>2, <1>3, <1>4, <1>5, <1>6 DEF Next

\* The invariant of the edit script holds in every state, for all lines and
\* lengths of the texts.
THEOREM DiffInvariant == Spec => []DInv
<1>1. Init => DInv
  BY InitKeeps
<1>2. DInv /\ [Next]_vars => DInv'
  BY Step
<1> QED
  BY <1>1, <1>2, PTL DEF Spec

\* The boxes that wait are in order in both texts, and between them as many lines
\* of the one as of the other are left out (shortest_edit_script, diff.c).
THEOREM BoxesChained == Spec => []Chained
<1>1. DInv => Chained
  BY DEF DInv
<1> QED
  BY <1>1, DiffInvariant, PTL

\* find_middle finds a point at every call and comes nearer to it with each
\* diagonal, and the point splits the box into two that are smaller: it never
\* returns 0, and the recursion ends.
THEOREM SearchProgress == Spec => Progress
<1>1. DInv /\ [Next]_vars => [Splits /\ SearchAdvances]_vars
  BY Step
<1> QED
  BY <1>1, DiffInvariant, PTL DEF Spec, Progress

-----------------------------------------------------------------------------
(* Ways through the grid of two texts *)

\* A point in the grid of two texts, and the number of lines that go and come on a
\* way to it.
Points == Int \X Int \X Nat

\* What a move leads to from the points of S: a line goes, a line comes, lines in
\* common (those of M) stay.  A way may also waste two moves: so the ways to one
\* diagonal at a distance include those of the distances before.
Moves(x, y, e, M) ==
  {<<x + 1, y, e + 1>>, <<x, y + 1, e + 1>>, <<x, y, e + 2>>}
    \cup {p \in {<<x + 1, y + 1, e>>} : <<x, y>> \in M}

\* Moves do not lead out of S.
Closed(S, M) ==
  \A x, y \in Int, e \in Nat : <<x, y, e>> \in S => Moves(x, y, e, M) \subseteq S

\* The points that ways from (x0, y0) lead to.
From(M, x0, y0) ==
  {p \in Points : \A S \in SUBSET Points : <<x0, y0, 0>> \in S /\ Closed(S, M) => p \in S}

\* A way leads from (x0, y0) to (x, y), on which e lines go or come or are wasted.
Walk(M, x0, y0, x, y, e) == <<x, y, e>> \in From(M, x0, y0)

\* What a way leads to is a point.
LEMMA WalkType ==
  ASSUME NEW M, NEW x0, NEW y0, NEW x, NEW y, NEW e, Walk(M, x0, y0, x, y, e)
  PROVE  x \in Int /\ y \in Int /\ e \in Nat
<1>1. <<x, y, e>> \in Points
  BY DEF Walk, From
<1> QED
  BY <1>1 DEF Points

\* Moves lead from points to points.
LEMMA MovesIn ==
  ASSUME NEW x \in Int, NEW y \in Int, NEW e \in Nat, NEW M
  PROVE  Moves(x, y, e, M) \subseteq Points
BY DEF Moves, Points

\* What they are.
LEMMA MovesAre ==
  ASSUME NEW x, NEW y, NEW e, NEW M, NEW S, Moves(x, y, e, M) \subseteq S
  PROVE  /\ <<x + 1, y, e + 1>> \in S
         /\ <<x, y + 1, e + 1>> \in S
         /\ <<x, y, e + 2>> \in S
         /\ <<x, y>> \in M => <<x + 1, y + 1, e>> \in S
BY DEF Moves

\* A way begins at its start, and a move continues it.
LEMMA WalkMoves ==
  ASSUME NEW M, NEW x0 \in Int, NEW y0 \in Int
  PROVE  /\ Walk(M, x0, y0, x0, y0, 0)
         /\ \A x, y, e : Walk(M, x0, y0, x, y, e) =>
              /\ Walk(M, x0, y0, x + 1, y, e + 1)
              /\ Walk(M, x0, y0, x, y + 1, e + 1)
              /\ Walk(M, x0, y0, x, y, e + 2)
              /\ <<x, y>> \in M => Walk(M, x0, y0, x + 1, y + 1, e)
<1>1. <<x0, y0, 0>> \in Points
  BY DEF Points
<1>2. Walk(M, x0, y0, x0, y0, 0)
  BY <1>1 DEF Walk, From
<1>3. ASSUME NEW x, NEW y, NEW e, Walk(M, x0, y0, x, y, e)
      PROVE  Moves(x, y, e, M) \subseteq From(M, x0, y0)
  <2>1. x \in Int /\ y \in Int /\ e \in Nat
    BY <1>3, WalkType
  <2>2. Moves(x, y, e, M) \subseteq Points
    BY <2>1, MovesIn
  <2>3. ASSUME NEW S \in SUBSET Points, <<x0, y0, 0>> \in S, Closed(S, M)
        PROVE  Moves(x, y, e, M) \subseteq S
    <3>1. <<x, y, e>> \in S
      BY <1>3, <2>3 DEF Walk, From
    <3> QED
      BY <2>1, <2>3, <3>1 DEF Closed
  <2> QED
    BY <2>2, <2>3 DEF From
<1> QED
  BY <1>2, <1>3, MovesAre, Zenon DEF Walk

\* What holds at the start and is kept by every move holds at the end of every way.
LEMMA WalkInduction ==
  ASSUME NEW M, NEW x0 \in Int, NEW y0 \in Int, NEW S,
         <<x0, y0, 0>> \in S,
         \A x, y \in Int, e \in Nat : Walk(M, x0, y0, x, y, e) /\ <<x, y, e>> \in S =>
              /\ <<x + 1, y, e + 1>> \in S
              /\ <<x, y + 1, e + 1>> \in S
              /\ <<x, y, e + 2>> \in S
              /\ <<x, y>> \in M => <<x + 1, y + 1, e>> \in S
  PROVE  \A x, y, e : Walk(M, x0, y0, x, y, e) => <<x, y, e>> \in S
<1> DEFINE T == S \cap From(M, x0, y0)
<1>1. T \in SUBSET Points
  BY DEF From
<1>2. <<x0, y0, 0>> \in T
  BY WalkMoves DEF Walk
<1>3. ASSUME NEW x \in Int, NEW y \in Int, NEW e \in Nat, <<x, y, e>> \in T
      PROVE  Moves(x, y, e, M) \subseteq T
  <2>1. Walk(M, x0, y0, x, y, e) /\ <<x, y, e>> \in S
    BY <1>3 DEF Walk
  <2>2. /\ <<x + 1, y, e + 1>> \in S
        /\ <<x, y + 1, e + 1>> \in S
        /\ <<x, y, e + 2>> \in S
        /\ <<x, y>> \in M => <<x + 1, y + 1, e>> \in S
    BY <2>1
  <2>3. /\ <<x + 1, y, e + 1>> \in From(M, x0, y0)
        /\ <<x, y + 1, e + 1>> \in From(M, x0, y0)
        /\ <<x, y, e + 2>> \in From(M, x0, y0)
        /\ <<x, y>> \in M => <<x + 1, y + 1, e>> \in From(M, x0, y0)
    BY <2>1, WalkMoves DEF Walk
  <2> QED
    BY <2>2, <2>3 DEF Moves
<1>4. Closed(T, M)
  BY <1>3 DEF Closed
<1>5. ASSUME NEW x, NEW y, NEW e, Walk(M, x0, y0, x, y, e)
      PROVE  <<x, y, e>> \in S
  <2> HIDE DEF T
  <2>1. <<x, y, e>> \in T
    BY <1>1, <1>2, <1>4, <1>5 DEF Walk, From
  <2> QED
    BY <2>1 DEF T
<1> QED
  BY <1>5

\* A way counts the difference of the sides at least, and is odd with it.
LEMMA WalkBounds ==
  ASSUME NEW M, NEW x0 \in Int, NEW y0 \in Int
  PROVE  \A x, y, e : Walk(M, x0, y0, x, y, e) =>
           /\ x \in Int /\ y \in Int /\ e \in Nat
           /\ x0 <= x /\ y0 <= y
           /\ (x - x0) - (y - y0) <= e /\ (y - y0) - (x - x0) <= e
           /\ (e - ((x - x0) - (y - y0))) % 2 = 0
<1> DEFINE S == {p \in Points :
       /\ x0 <= p[1] /\ y0 <= p[2]
       /\ (p[1] - x0) - (p[2] - y0) <= p[3] /\ (p[2] - y0) - (p[1] - x0) <= p[3]
       /\ (p[3] - ((p[1] - x0) - (p[2] - y0))) % 2 = 0}
<1>1. \A x, y, e : <<x, y, e>> \in S <=>
        /\ x \in Int /\ y \in Int /\ e \in Nat
        /\ x0 <= x /\ y0 <= y
        /\ (x - x0) - (y - y0) <= e /\ (y - y0) - (x - x0) <= e
        /\ (e - ((x - x0) - (y - y0))) % 2 = 0
  BY DEF Points
<1> HIDE DEF S
<1>2. <<x0, y0, 0>> \in S
  <2>1. (x0 - x0) - (y0 - y0) = 0 /\ (y0 - y0) - (x0 - x0) = 0 /\ 0 - 0 = 0
    OBVIOUS
  <2>2. 0 % 2 = 0
    OBVIOUS
  <2>3. /\ 0 \in Nat /\ x0 <= x0 /\ y0 <= y0
        /\ (x0 - x0) - (y0 - y0) <= 0 /\ (y0 - y0) - (x0 - x0) <= 0
    BY <2>1
  <2>4. (0 - ((x0 - x0) - (y0 - y0))) % 2 = 0
    BY <2>1, <2>2, Zenon
  <2> QED
    BY <1>1, <2>3, <2>4, Zenon
<1>3. ASSUME NEW x \in Int, NEW y \in Int, NEW e \in Nat, <<x, y, e>> \in S
      PROVE  /\ <<x + 1, y, e + 1>> \in S
             /\ <<x, y + 1, e + 1>> \in S
             /\ <<x, y, e + 2>> \in S
             /\ <<x + 1, y + 1, e>> \in S
  <2>1. /\ x0 <= x /\ y0 <= y
        /\ (x - x0) - (y - y0) <= e /\ (y - y0) - (x - x0) <= e
        /\ (e - ((x - x0) - (y - y0))) % 2 = 0
    BY <1>1, <1>3
  <2>2. <<x + 1, y, e + 1>> \in S
    BY <1>1, <2>1
  <2>3. <<x, y + 1, e + 1>> \in S
    BY <1>1, <2>1
  <2>4. <<x, y, e + 2>> \in S
    BY <1>1, <2>1
  <2>5. <<x + 1, y + 1, e>> \in S
    BY <1>1, <2>1
  <2> QED
    BY <2>2, <2>3, <2>4, <2>5
<1>4. \A x, y, e : Walk(M, x0, y0, x, y, e) => <<x, y, e>> \in S
  BY <1>2, <1>3, WalkInduction
<1> QED
  BY <1>1, <1>4

\* Ways follow each other.
LEMMA Onwards ==
  ASSUME NEW M, NEW x0 \in Int, NEW y0 \in Int, NEW x1 \in Int, NEW y1 \in Int,
         NEW d \in Nat, Walk(M, x0, y0, x1, y1, d)
  PROVE  \A x, y, e : Walk(M, x1, y1, x, y, e) => Walk(M, x0, y0, x, y, d + e)
<1> DEFINE S == {p \in Points : Walk(M, x0, y0, p[1], p[2], d + p[3])}
<1>1. \A x \in Int, y \in Int, e \in Nat :
        <<x, y, e>> \in S <=> Walk(M, x0, y0, x, y, d + e)
  BY DEF Points
<1> HIDE DEF S
<1>2. <<x1, y1, 0>> \in S
  BY <1>1
<1>3. ASSUME NEW x \in Int, NEW y \in Int, NEW e \in Nat, <<x, y, e>> \in S
      PROVE  /\ <<x + 1, y, e + 1>> \in S
             /\ <<x, y + 1, e + 1>> \in S
             /\ <<x, y, e + 2>> \in S
             /\ <<x, y>> \in M => <<x + 1, y + 1, e>> \in S
  <2>1. Walk(M, x0, y0, x, y, d + e)
    BY <1>1, <1>3
  <2>2. /\ Walk(M, x0, y0, x + 1, y, (d + e) + 1)
        /\ Walk(M, x0, y0, x, y + 1, (d + e) + 1)
        /\ Walk(M, x0, y0, x, y, (d + e) + 2)
        /\ <<x, y>> \in M => Walk(M, x0, y0, x + 1, y + 1, d + e)
    BY <2>1, WalkMoves, Zenon
  <2>3. (d + e) + 1 = d + (e + 1) /\ (d + e) + 2 = d + (e + 2)
    OBVIOUS
  <2>4. x + 1 \in Int /\ y + 1 \in Int /\ e + 1 \in Nat /\ e + 2 \in Nat
    OBVIOUS
  <2> QED
    BY <1>1, <2>2, <2>3, <2>4
<1>4. \A x, y, e : Walk(M, x1, y1, x, y, e) => <<x, y, e>> \in S
  BY <1>2, <1>3, WalkInduction
<1>5. \A x, y, e : Walk(M, x1, y1, x, y, e) => x \in Int /\ y \in Int /\ e \in Nat
  BY WalkType
<1> QED
  BY <1>1, <1>4, <1>5, Zenon

\* The last move of a way.
LEMMA LastMove ==
  ASSUME NEW M, NEW x0 \in Int, NEW y0 \in Int
  PROVE  \A x, y, e : Walk(M, x0, y0, x, y, e) =>
           \/ x = x0 /\ y = y0 /\ e = 0
           \/ Walk(M, x0, y0, x - 1, y, e - 1)
           \/ Walk(M, x0, y0, x, y - 1, e - 1)
           \/ Walk(M, x0, y0, x, y, e - 2)
           \/ <<x - 1, y - 1>> \in M /\ Walk(M, x0, y0, x - 1, y - 1, e)
<1> DEFINE L(x, y, e) ==
           \/ x = x0 /\ y = y0 /\ e = 0
           \/ Walk(M, x0, y0, x - 1, y, e - 1)
           \/ Walk(M, x0, y0, x, y - 1, e - 1)
           \/ Walk(M, x0, y0, x, y, e - 2)
           \/ <<x - 1, y - 1>> \in M /\ Walk(M, x0, y0, x - 1, y - 1, e)
           S == {p \in Points : L(p[1], p[2], p[3])}
<1>1. \A x \in Int, y \in Int, e \in Nat : <<x, y, e>> \in S <=> L(x, y, e)
  BY DEF Points
<1>2. L(x0, y0, 0)
  OBVIOUS
<1>3. ASSUME NEW x \in Int, NEW y \in Int, NEW e \in Nat, Walk(M, x0, y0, x, y, e)
      PROVE  L(x + 1, y, e + 1) /\ L(x, y + 1, e + 1) /\ L(x, y, e + 2)
             /\ (<<x, y>> \in M => L(x + 1, y + 1, e))
  <2>1. (x + 1) - 1 = x /\ (y + 1) - 1 = y /\ (e + 1) - 1 = e /\ (e + 2) - 2 = e
    OBVIOUS
  <2> QED
    BY <1>3, <2>1
<1> HIDE DEF L
<1>4. \A x \in Int, y \in Int, e \in Nat :
         x + 1 \in Int /\ y + 1 \in Int /\ e + 1 \in Nat /\ e + 2 \in Nat
  OBVIOUS
<1> HIDE DEF S
<1>5. ASSUME NEW x \in Int, NEW y \in Int, NEW e \in Nat, Walk(M, x0, y0, x, y, e)
      PROVE  /\ <<x + 1, y, e + 1>> \in S
             /\ <<x, y + 1, e + 1>> \in S
             /\ <<x, y, e + 2>> \in S
             /\ <<x, y>> \in M => <<x + 1, y + 1, e>> \in S
  BY <1>1, <1>3, <1>4, <1>5
<1>6. <<x0, y0, 0>> \in S
  BY <1>1, <1>2
<1>7. \A x, y, e : Walk(M, x0, y0, x, y, e) => <<x, y, e>> \in S
  BY <1>5, <1>6, WalkInduction
<1>8. \A x, y, e : Walk(M, x0, y0, x, y, e) => x \in Int /\ y \in Int /\ e \in Nat
  BY WalkType
<1>9. \A x, y, e : Walk(M, x0, y0, x, y, e) => L(x, y, e)
  BY <1>1, <1>7, <1>8, Zenon
<1> QED
  BY <1>9 DEF L

\* Its last line in common, where the last move is along the diagonal.
LEMMA LastDiagonal ==
  ASSUME NEW M, NEW x0 \in Int, NEW y0 \in Int
  PROVE  \A x, y, e :
           /\ Walk(M, x0, y0, x, y, e)
           /\ ~Walk(M, x0, y0, x - 1, y, e - 1)
           /\ ~Walk(M, x0, y0, x, y - 1, e - 1)
           /\ ~Walk(M, x0, y0, x, y, e - 2)
           /\ ~(x = x0 /\ e = 0)
          => <<x - 1, y - 1>> \in M /\ Walk(M, x0, y0, x - 1, y - 1, e)
BY LastMove, Zenon

\* A way can be taken back at its end.
LEMMA TakenBack ==
  ASSUME NEW M, NEW x0 \in Int, NEW y0 \in Int
  PROVE  \A x, y, e : Walk(M, x0, y0, x, y, e) =>
           /\ y0 < y => Walk(M, x0, y0, x, y - 1, e + 1)
           /\ x0 < x => Walk(M, x0, y0, x - 1, y, e + 1)
           /\ x0 < x /\ y0 < y => Walk(M, x0, y0, x - 1, y - 1, e)
<1> DEFINE L(x, y, e) ==
           /\ y0 < y => Walk(M, x0, y0, x, y - 1, e + 1)
           /\ x0 < x => Walk(M, x0, y0, x - 1, y, e + 1)
           /\ x0 < x /\ y0 < y => Walk(M, x0, y0, x - 1, y - 1, e)
           S == {p \in Points : L(p[1], p[2], p[3])}
<1>1. \A x \in Int, y \in Int, e \in Nat : <<x, y, e>> \in S <=> L(x, y, e)
  BY DEF Points
<1>2. L(x0, y0, 0)
  OBVIOUS
<1>3. ASSUME NEW x \in Int, NEW y \in Int, NEW e \in Nat, Walk(M, x0, y0, x, y, e), L(x, y, e)
      PROVE  L(x + 1, y, e + 1) /\ L(x, y + 1, e + 1) /\ L(x, y, e + 2)
             /\ (<<x, y>> \in M => L(x + 1, y + 1, e))
  <2>1. (x + 1) - 1 = x /\ (y + 1) - 1 = y /\ (e + 1) + 1 = e + 2 /\ (e + 2) + 1 = (e + 1) + 2
    OBVIOUS
  <2>2. x0 <= x /\ y0 <= y
    BY <1>3, WalkBounds
  <2>3. /\ Walk(M, x0, y0, x + 1, y, e + 1)
        /\ Walk(M, x0, y0, x, y + 1, e + 1)
        /\ Walk(M, x0, y0, x, y, e + 2)
    BY <1>3, WalkMoves
  <2>4. L(x + 1, y, e + 1)
    <3>1. y0 < y => Walk(M, x0, y0, x + 1, y - 1, (e + 1) + 1)
      BY <1>3, WalkMoves
    <3> QED
      BY <1>3, <2>1, <2>3, <3>1
  <2>5. L(x, y + 1, e + 1)
    <3>1. x0 < x => Walk(M, x0, y0, x - 1, y + 1, (e + 1) + 1)
      BY <1>3, WalkMoves
    <3> QED
      BY <1>3, <2>1, <2>3, <3>1
  <2>6. L(x, y, e + 2)
    <3>1. y0 < y => Walk(M, x0, y0, x, y - 1, (e + 1) + 2)
      BY <1>3, WalkMoves
    <3>2. x0 < x => Walk(M, x0, y0, x - 1, y, (e + 1) + 2)
      BY <1>3, WalkMoves
    <3>3. x0 < x /\ y0 < y => Walk(M, x0, y0, x - 1, y - 1, e + 2)
      BY <1>3, WalkMoves
    <3> QED
      BY <2>1, <3>1, <3>2, <3>3
  <2>7. L(x + 1, y + 1, e)
    BY <1>3, <2>1, <2>3
  <2> QED
    BY <2>4, <2>5, <2>6, <2>7
<1> HIDE DEF L
<1>4. \A x \in Int, y \in Int, e \in Nat :
         x + 1 \in Int /\ y + 1 \in Int /\ e + 1 \in Nat /\ e + 2 \in Nat
  OBVIOUS
<1> HIDE DEF S
<1>5. ASSUME NEW x \in Int, NEW y \in Int, NEW e \in Nat, Walk(M, x0, y0, x, y, e),
             <<x, y, e>> \in S
      PROVE  /\ <<x + 1, y, e + 1>> \in S
             /\ <<x, y + 1, e + 1>> \in S
             /\ <<x, y, e + 2>> \in S
             /\ <<x, y>> \in M => <<x + 1, y + 1, e>> \in S
  BY <1>1, <1>3, <1>4, <1>5
<1>6. <<x0, y0, 0>> \in S
  BY <1>1, <1>2
<1>7. \A x, y, e : Walk(M, x0, y0, x, y, e) => <<x, y, e>> \in S
  BY <1>5, <1>6, WalkInduction
<1>8. \A x, y, e : Walk(M, x0, y0, x, y, e) => x \in Int /\ y \in Int /\ e \in Nat
  BY WalkType
<1>9. \A x, y, e : Walk(M, x0, y0, x, y, e) => L(x, y, e)
  BY <1>1, <1>7, <1>8, Zenon
<1> QED
  BY <1>9 DEF L

\* It can be taken back along a diagonal for the same price, to a point that is not
\* before the start.
LEMMA SlidBack ==
  ASSUME NEW M, NEW x0 \in Int, NEW y0 \in Int, NEW x \in Int, NEW y \in Int, NEW e,
         Walk(M, x0, y0, x, y, e), NEW r \in Nat, x0 <= x - r, y0 <= y - r
  PROVE  Walk(M, x0, y0, x - r, y - r, e)
<1> DEFINE T == {i \in 0..r : Walk(M, x0, y0, x - i, y - i, e)}
<1>1. 0 \in T
  <2>1. x - 0 = x /\ y - 0 = y
    OBVIOUS
  <2> QED
    BY <2>1
<1>2. ASSUME NEW i \in 1..r, i - 1 \in T
      PROVE  i \in T
  <2>1. Walk(M, x0, y0, x - (i - 1), y - (i - 1), e)
    BY <1>2
  <2>2. x0 < x - (i - 1) /\ y0 < y - (i - 1)
    OBVIOUS
  <2>3. Walk(M, x0, y0, (x - (i - 1)) - 1, (y - (i - 1)) - 1, e)
    BY <2>1, <2>2, TakenBack
  <2>4. (x - (i - 1)) - 1 = x - i /\ (y - (i - 1)) - 1 = y - i
    OBVIOUS
  <2> QED
    BY <2>3, <2>4
<1> HIDE DEF T
<1>3. r \in T
  <2>1. \A i \in 0..r : i \in T
    BY <1>1, <1>2, Climb
  <2> QED
    BY <2>1
<1> QED
  BY <1>3 DEF T

\* Lines in common cost nothing.
LEMMA Slide ==
  ASSUME NEW M, NEW x0 \in Int, NEW y0 \in Int, NEW x \in Int, NEW y \in Int, NEW e,
         Walk(M, x0, y0, x, y, e), NEW r \in Nat,
         \A i \in 0..(r - 1) : <<x + i, y + i>> \in M
  PROVE  Walk(M, x0, y0, x + r, y + r, e)
<1> DEFINE T == {i \in 0..r : Walk(M, x0, y0, x + i, y + i, e)}
<1>1. 0 \in T
  <2>1. x + 0 = x /\ y + 0 = y
    OBVIOUS
  <2> QED
    BY <2>1
<1>2. ASSUME NEW i \in 1..r, i - 1 \in T
      PROVE  i \in T
  <2>1. Walk(M, x0, y0, x + (i - 1), y + (i - 1), e)
    BY <1>2
  <2>2. <<x + (i - 1), y + (i - 1)>> \in M
    OBVIOUS
  <2>3. Walk(M, x0, y0, (x + (i - 1)) + 1, (y + (i - 1)) + 1, e)
    BY <2>1, <2>2, WalkMoves
  <2>4. (x + (i - 1)) + 1 = x + i /\ (y + (i - 1)) + 1 = y + i
    OBVIOUS
  <2> QED
    BY <2>3, <2>4
<1> HIDE DEF T
<1>3. r \in T
  <2>1. \A i \in 0..r : i \in T
    BY <1>1, <1>2, Climb
  <2> QED
    BY <2>1
<1> QED
  BY <1>3 DEF T

\* Lines of one text only.
LEMMA Straight ==
  ASSUME NEW M, NEW x0 \in Int, NEW y0 \in Int, NEW r \in Nat
  PROVE  Walk(M, x0, y0, x0 + r, y0, r) /\ Walk(M, x0, y0, x0, y0 + r, r)
<1> DEFINE T == {i \in 0..r : Walk(M, x0, y0, x0 + i, y0, i) /\ Walk(M, x0, y0, x0, y0 + i, i)}
<1>1. 0 \in T
  <2>1. x0 + 0 = x0 /\ y0 + 0 = y0
    OBVIOUS
  <2> QED
    BY <2>1, WalkMoves
<1>2. ASSUME NEW i \in 1..r, i - 1 \in T
      PROVE  i \in T
  <2>1. Walk(M, x0, y0, x0 + (i - 1), y0, i - 1) /\ Walk(M, x0, y0, x0, y0 + (i - 1), i - 1)
    BY <1>2
  <2>2. /\ Walk(M, x0, y0, (x0 + (i - 1)) + 1, y0, (i - 1) + 1)
        /\ Walk(M, x0, y0, x0, (y0 + (i - 1)) + 1, (i - 1) + 1)
    BY <2>1, WalkMoves
  <2>3. (x0 + (i - 1)) + 1 = x0 + i /\ (y0 + (i - 1)) + 1 = y0 + i /\ (i - 1) + 1 = i
    OBVIOUS
  <2> QED
    BY <2>2, <2>3
<1> HIDE DEF T
<1>3. r \in T
  <2>1. \A i \in 0..r : i \in T
    BY <1>1, <1>2, Climb
  <2> QED
    BY <2>1
<1> QED
  BY <1>3 DEF T

\* Any even number of moves can be wasted.
LEMMA Wasted ==
  ASSUME NEW M, NEW x0 \in Int, NEW y0 \in Int, NEW x, NEW y, NEW e \in Nat,
         Walk(M, x0, y0, x, y, e), NEW f \in Nat, e <= f, (f - e) % 2 = 0
  PROVE  Walk(M, x0, y0, x, y, f)
<1> DEFINE T == {i \in Nat : Walk(M, x0, y0, x, y, e + 2 * i)}
           r == (f - e) \div 2
<1>1. 0 \in T
  <2>1. e + 2 * 0 = e
    OBVIOUS
  <2> QED
    BY <2>1
<1>2. ASSUME NEW i \in 1..r, i - 1 \in T
      PROVE  i \in T
  <2>1. Walk(M, x0, y0, x, y, e + 2 * (i - 1))
    BY <1>2
  <2>2. Walk(M, x0, y0, x, y, (e + 2 * (i - 1)) + 2)
    BY <2>1, WalkMoves
  <2>3. (e + 2 * (i - 1)) + 2 = e + 2 * i /\ i \in Nat
    OBVIOUS
  <2> QED
    BY <2>2, <2>3
<1>3. r \in Nat /\ e + 2 * r = f
  OBVIOUS
<1> HIDE DEF T, r
<1>4. r \in T
  <2>1. \A i \in 0..r : i \in T
    BY <1>1, <1>2, <1>3, Climb
  <2> QED
    BY <2>1, <1>3
<1> QED
  BY <1>3, <1>4 DEF T

\* The grid seen from its other end, with the texts exchanged.
Mirror(M) == {<<-1 - p[2], -1 - p[1]>> : p \in M}

\* What is in it, and that the mirror of the mirror is the grid.
LEMMA Mirrored ==
  ASSUME NEW M, M \subseteq Int \X Int
  PROVE  /\ Mirror(M) \subseteq Int \X Int
         /\ \A x, y \in Int : <<-1 - y, -1 - x>> \in Mirror(M) <=> <<x, y>> \in M
         /\ Mirror(Mirror(M)) = M
<1>1. \A p \in M : p[1] \in Int /\ p[2] \in Int /\ p = <<p[1], p[2]>>
  OBVIOUS
<1>2. Mirror(M) \subseteq Int \X Int
  BY <1>1 DEF Mirror
<1>3. ASSUME NEW x \in Int, NEW y \in Int
      PROVE  <<-1 - y, -1 - x>> \in Mirror(M) <=> <<x, y>> \in M
  <2>1. ASSUME <<x, y>> \in M PROVE <<-1 - y, -1 - x>> \in Mirror(M)
    BY <2>1 DEF Mirror
  <2>2. ASSUME <<-1 - y, -1 - x>> \in Mirror(M) PROVE <<x, y>> \in M
    <3>1. PICK p \in M : <<-1 - y, -1 - x>> = <<-1 - p[2], -1 - p[1]>>
      BY <2>2 DEF Mirror
    <3>2. -1 - y = -1 - p[2] /\ -1 - x = -1 - p[1]
      BY <3>1
    <3>3. x = p[1] /\ y = p[2]
      BY <1>1, <3>2
    <3> QED
      BY <1>1, <3>3
  <2> QED
    BY <2>1, <2>2
<1>4. \A x \in Int : -1 - (-1 - x) = x
  OBVIOUS
<1>5. ASSUME NEW p \in M PROVE p \in Mirror(Mirror(M))
  <2>1. <<-1 - p[2], -1 - p[1]>> \in Mirror(M)
    BY DEF Mirror
  <2>2. PICK q \in Mirror(M) : q = <<-1 - p[2], -1 - p[1]>>
    BY <2>1
  <2>3. <<-1 - q[2], -1 - q[1]>> \in Mirror(Mirror(M))
    BY DEF Mirror
  <2>4. q[2] = -1 - p[1] /\ q[1] = -1 - p[2]
    BY <2>2
  <2> QED
    BY <1>1, <1>4, <2>3, <2>4
<1>6. ASSUME NEW q \in Mirror(Mirror(M)) PROVE q \in M
  <2>1. PICK p \in Mirror(M) : q = <<-1 - p[2], -1 - p[1]>>
    BY DEF Mirror
  <2>2. PICK o \in M : p = <<-1 - o[2], -1 - o[1]>>
    BY DEF Mirror
  <2>3. q = <<-1 - (-1 - o[1]), -1 - (-1 - o[2])>>
    BY <2>1, <2>2
  <2> QED
    BY <1>1, <1>4, <2>3
<1> QED
  BY <1>2, <1>3, <1>5, <1>6

\* Every way can be gone backwards.
LEMMA Backwards ==
  ASSUME NEW M, M \subseteq Int \X Int, NEW x0 \in Int, NEW y0 \in Int
  PROVE  \A x, y, e : Walk(M, x0, y0, x, y, e) => Walk(Mirror(M), -y, -x, -y0, -x0, e)
<1> DEFINE S == {p \in Points : Walk(Mirror(M), -p[2], -p[1], -y0, -x0, p[3])}
<1>1. \A x \in Int, y \in Int, e \in Nat :
        <<x, y, e>> \in S <=> Walk(Mirror(M), -y, -x, -y0, -x0, e)
  BY DEF Points
<1> HIDE DEF S
<1>2. <<x0, y0, 0>> \in S
  <2>1. -x0 \in Int /\ -y0 \in Int
    OBVIOUS
  <2> QED
    BY <1>1, <2>1, WalkMoves
<1>3. ASSUME NEW x \in Int, NEW y \in Int, NEW e \in Nat, <<x, y, e>> \in S
      PROVE  /\ <<x + 1, y, e + 1>> \in S
             /\ <<x, y + 1, e + 1>> \in S
             /\ <<x, y, e + 2>> \in S
             /\ <<x, y>> \in M => <<x + 1, y + 1, e>> \in S
  <2>1. Walk(Mirror(M), -y, -x, -y0, -x0, e)
    BY <1>1, <1>3
  <2>2. /\ -x \in Int /\ -y \in Int /\ -(x + 1) \in Int /\ -(y + 1) \in Int
        /\ -(x + 1) + 1 = -x /\ -(y + 1) + 1 = -y
        /\ -1 - x = -(x + 1) /\ -1 - y = -(y + 1)
        /\ 1 + e = e + 1 /\ 0 + e = e /\ 0 + 1 = 1
    OBVIOUS
  <2>3. Walk(Mirror(M), -y, -(x + 1), -y, -x, 1)
    <3>1. Walk(Mirror(M), -y, -(x + 1), -y, -(x + 1) + 1, 0 + 1)
      BY <2>2, WalkMoves
    <3> QED
      BY <2>2, <3>1
  <2>4. Walk(Mirror(M), -(y + 1), -x, -y, -x, 1)
    <3>1. Walk(Mirror(M), -(y + 1), -x, -(y + 1) + 1, -x, 0 + 1)
      BY <2>2, WalkMoves
    <3> QED
      BY <2>2, <3>1
  <2>5. <<x, y>> \in M => Walk(Mirror(M), -(y + 1), -(x + 1), -y, -x, 0)
    <3>1. <<x, y>> \in M => <<-(y + 1), -(x + 1)>> \in Mirror(M)
      BY <2>2, Mirrored
    <3>2. <<x, y>> \in M => Walk(Mirror(M), -(y + 1), -(x + 1), -(y + 1) + 1, -(x + 1) + 1, 0)
      BY <2>2, <3>1, WalkMoves
    <3> QED
      BY <2>2, <3>2
  <2>6. Walk(Mirror(M), -y, -(x + 1), -y0, -x0, 1 + e)
    BY <2>1, <2>2, <2>3, Onwards
  <2>7. Walk(Mirror(M), -(y + 1), -x, -y0, -x0, 1 + e)
    BY <2>1, <2>2, <2>4, Onwards
  <2>8. <<x, y>> \in M => Walk(Mirror(M), -(y + 1), -(x + 1), -y0, -x0, 0 + e)
    BY <2>1, <2>2, <2>5, Onwards
  <2>9. Walk(Mirror(M), -y, -x, -y0, -x0, e + 2)
    BY <2>1, <2>2, WalkMoves
  <2>10. x + 1 \in Int /\ y + 1 \in Int /\ e + 1 \in Nat /\ e + 2 \in Nat
    OBVIOUS
  <2> QED
    BY <1>1, <2>2, <2>6, <2>7, <2>8, <2>9, <2>10
<1>4. \A x, y, e : Walk(M, x0, y0, x, y, e) => <<x, y, e>> \in S
  BY <1>2, <1>3, WalkInduction
<1>5. \A x, y, e : Walk(M, x0, y0, x, y, e) => x \in Int /\ y \in Int /\ e \in Nat
  BY WalkType
<1> QED
  BY <1>1, <1>4, <1>5, Zenon

\* Ways in the grid and in the mirror are the same ones.
LEMMA BackAndForth ==
  ASSUME NEW M, M \subseteq Int \X Int,
         NEW x0 \in Int, NEW y0 \in Int, NEW x \in Int, NEW y \in Int, NEW e
  PROVE  Walk(M, x0, y0, x, y, e) <=> Walk(Mirror(M), -y, -x, -y0, -x0, e)
<1>1. Walk(M, x0, y0, x, y, e) => Walk(Mirror(M), -y, -x, -y0, -x0, e)
  BY Backwards
<1>2. -x0 \in Int /\ -y0 \in Int /\ -x \in Int /\ -y \in Int
  OBVIOUS
<1>3. Mirror(M) \subseteq Int \X Int /\ Mirror(Mirror(M)) = M
  BY Mirrored
<1>4. Walk(Mirror(M), -y, -x, -y0, -x0, e)
        => Walk(Mirror(Mirror(M)), -(-x0), -(-y0), -(-x), -(-y), e)
  BY <1>2, <1>3, Backwards
<1>5. -(-x0) = x0 /\ -(-y0) = y0 /\ -(-x) = x /\ -(-y) = y
  OBVIOUS
<1> QED
  BY <1>1, <1>3, <1>4, <1>5, Zenon

\* A way can be begun later on the diagonal, before its end.
LEMMA BegunLater ==
  ASSUME NEW M, M \subseteq Int \X Int, NEW x0 \in Int, NEW y0 \in Int,
         NEW x \in Int, NEW y \in Int, NEW e,
         Walk(M, x0, y0, x, y, e), NEW r \in Nat, x0 + r <= x, y0 + r <= y
  PROVE  Walk(M, x0 + r, y0 + r, x, y, e)
<1>1. Walk(Mirror(M), -y, -x, -y0, -x0, e)
  BY BackAndForth
<1>2. /\ -y \in Int /\ -x \in Int /\ -y0 \in Int /\ -x0 \in Int
      /\ -y <= -y0 - r /\ -x <= -x0 - r
  OBVIOUS
<1>3. Walk(Mirror(M), -y, -x, -y0 - r, -x0 - r, e)
  BY <1>1, <1>2, SlidBack
<1>4. -y0 - r = -(y0 + r) /\ -x0 - r = -(x0 + r) /\ x0 + r \in Int /\ y0 + r \in Int
  OBVIOUS
<1>5. Walk(Mirror(M), -y, -x, -(y0 + r), -(x0 + r), e)
  BY <1>3, <1>4
<1> QED
  BY <1>4, <1>5, BackAndForth

\* On the way to a point there is one at every distance.
Halved(M, x0, y0, x, y, g) ==
  \A e \in 0..g :
    \/ \E x1, y1 \in Int : Walk(M, x0, y0, x1, y1, e) /\ Walk(M, x1, y1, x, y, g - e)
    \/ x = x0 /\ y = y0 /\ e % 2 = 1

\* But for a way that wastes all its moves where it starts.
LEMMA Halfway ==
  ASSUME NEW M, NEW x0 \in Int, NEW y0 \in Int
  PROVE  \A x, y, g : Walk(M, x0, y0, x, y, g) => Halved(M, x0, y0, x, y, g)
<1> DEFINE C(x, y, g, e) ==
             \E x1, y1 \in Int : Walk(M, x0, y0, x1, y1, e) /\ Walk(M, x1, y1, x, y, g - e)
           L(x, y, g) ==
             \A e \in 0..g : C(x, y, g, e) \/ (x = x0 /\ y = y0 /\ e % 2 = 1)
           S == {p \in Points : L(p[1], p[2], p[3])}
<1>1. \A x \in Int, y \in Int, e \in Nat : <<x, y, e>> \in S <=> L(x, y, e)
  BY DEF Points
\* The end itself is a point at the last distance.
<1>2. ASSUME NEW x \in Int, NEW y \in Int, NEW g \in Nat, Walk(M, x0, y0, x, y, g)
      PROVE  C(x, y, g, g)
  <2>1. Walk(M, x, y, x, y, 0) /\ g - g = 0
    BY WalkMoves
  <2> QED
    BY <1>2, <2>1
<1>3. L(x0, y0, 0)
  <2>1. C(x0, y0, 0, 0)
    BY <1>2, WalkMoves
  <2>2. \A e \in 0..0 : e = 0
    OBVIOUS
  <2> HIDE DEF C
  <2> QED
    BY <2>1, <2>2
\* A move at the end comes after the point on the way.
<1>4. ASSUME NEW x \in Int, NEW y \in Int, NEW g \in Nat, Walk(M, x0, y0, x, y, g),
             NEW e \in 0..g, C(x, y, g, e)
      PROVE  /\ C(x + 1, y, g + 1, e)
             /\ C(x, y + 1, g + 1, e)
             /\ C(x, y, g + 2, e)
             /\ <<x, y>> \in M => C(x + 1, y + 1, g, e)
  <2>1. PICK x1, y1 \in Int : Walk(M, x0, y0, x1, y1, e) /\ Walk(M, x1, y1, x, y, g - e)
    BY <1>4
  <2>2. (g - e) + 1 = (g + 1) - e /\ (g - e) + 2 = (g + 2) - e
    OBVIOUS
  <2>3. /\ Walk(M, x1, y1, x + 1, y, (g - e) + 1)
        /\ Walk(M, x1, y1, x, y + 1, (g - e) + 1)
        /\ Walk(M, x1, y1, x, y, (g - e) + 2)
        /\ <<x, y>> \in M => Walk(M, x1, y1, x + 1, y + 1, g - e)
    BY <2>1, WalkMoves
  <2> QED
    BY <2>1, <2>2, <2>3
\* From the start, with moves that were wasted.
<1>5. ASSUME NEW g \in Nat, Walk(M, x0, y0, x0, y0, g), NEW e \in 0..g, e % 2 = 1
      PROVE  /\ C(x0 + 1, y0, g + 1, e)
             /\ C(x0, y0 + 1, g + 1, e)
             /\ C(x0 + 1, y0 + 1, g, e)
  <2>1. g % 2 = 0
    <3>1. (g - ((x0 - x0) - (y0 - y0))) % 2 = 0 /\ (x0 - x0) - (y0 - y0) = 0 /\ g - 0 = g
      BY <1>5, WalkBounds
    <3> QED
      BY <3>1
  <2>2. /\ 1 <= e /\ (e - 1) % 2 = 0 /\ e \in Nat /\ g - e \in Nat
        /\ (g - e) % 2 = 1 /\ 1 <= g - e /\ ((g - e) - 1) % 2 = 0
        /\ (g + 1) - e \in Nat /\ ((g + 1) - e) % 2 = 0
    BY <1>5, <2>1
  <2>3. Walk(M, x0, y0, x0 + 1, y0, 1) /\ Walk(M, x0, y0, x0, y0 + 1, 1)
    BY Straight
  <2>4. Walk(M, x0, y0, x0 + 1, y0, e) /\ Walk(M, x0, y0, x0, y0 + 1, e)
    BY <2>2, <2>3, Wasted
  <2>5. x0 + 1 \in Int /\ y0 + 1 \in Int
    OBVIOUS
  <2>6. /\ Walk(M, x0 + 1, y0, x0 + 1, y0, 0)
        /\ Walk(M, x0, y0 + 1, x0, y0 + 1, 0)
    BY <2>5, WalkMoves
  <2>7. ((g + 1) - e) - 0 = (g + 1) - e
    OBVIOUS
  <2>8. /\ Walk(M, x0 + 1, y0, x0 + 1, y0, (g + 1) - e)
        /\ Walk(M, x0, y0 + 1, x0, y0 + 1, (g + 1) - e)
    BY <2>2, <2>5, <2>6, <2>7, Wasted
  <2>9. Walk(M, x0 + 1, y0, x0 + 1, y0 + 1, g - e)
    <3>1. Walk(M, x0 + 1, y0, x0 + 1, y0 + 1, 1)
      BY <2>5, Straight
    <3> QED
      BY <2>2, <2>5, <3>1, Wasted
  <2> QED
    BY <2>4, <2>5, <2>8, <2>9
<1>6. ASSUME NEW x \in Int, NEW y \in Int, NEW g \in Nat, Walk(M, x0, y0, x, y, g), L(x, y, g)
      PROVE  L(x + 1, y, g + 1) /\ L(x, y + 1, g + 1) /\ L(x, y, g + 2)
             /\ (<<x, y>> \in M => L(x + 1, y + 1, g))
  <2>1. /\ x0 <= x /\ y0 <= y
        /\ (g - ((x - x0) - (y - y0))) % 2 = 0
    BY <1>6, WalkBounds
  <2>2. /\ Walk(M, x0, y0, x + 1, y, g + 1)
        /\ Walk(M, x0, y0, x, y + 1, g + 1)
        /\ Walk(M, x0, y0, x, y, g + 2)
        /\ <<x, y>> \in M => Walk(M, x0, y0, x + 1, y + 1, g)
    BY <1>6, WalkMoves
  <2>3. /\ x + 1 \in Int /\ y + 1 \in Int /\ g + 1 \in Nat /\ g + 2 \in Nat
        /\ \A e \in 0..(g + 1) : e \in 0..g \/ e = g + 1
        /\ \A e \in 0..(g + 2) : e \in 0..g \/ e = g + 1 \/ e = g + 2
    OBVIOUS
  <2>4. C(x + 1, y, g + 1, g + 1) /\ C(x, y + 1, g + 1, g + 1) /\ C(x, y, g + 2, g + 2)
    BY <1>2, <2>2, <2>3
  <2>5. C(x, y, g + 2, g + 1) \/ (x = x0 /\ y = y0 /\ (g + 1) % 2 = 1)
    <3>1. (g + 2) - (g + 1) = 1
      OBVIOUS
    <3>2. CASE x0 < x
      <4>1. Walk(M, x0, y0, x - 1, y, g + 1)
        BY <1>6, <3>2, TakenBack
      <4>2. x - 1 \in Int /\ (x - 1) + 1 = x
        OBVIOUS
      <4>3. Walk(M, x - 1, y, (x - 1) + 1, y, 1)
        BY <4>2, Straight
      <4> QED
        BY <3>1, <4>1, <4>2, <4>3
    <3>3. CASE y0 < y
      <4>1. Walk(M, x0, y0, x, y - 1, g + 1)
        BY <1>6, <3>3, TakenBack
      <4>2. y - 1 \in Int /\ (y - 1) + 1 = y
        OBVIOUS
      <4>3. Walk(M, x, y - 1, x, (y - 1) + 1, 1)
        BY <4>2, Straight
      <4> QED
        BY <3>1, <4>1, <4>2, <4>3
    <3>4. CASE x = x0 /\ y = y0
      <4>1. (x - x0) - (y - y0) = 0
        BY <3>4
      <4>2. g % 2 = 0
        BY <2>1, <4>1
      <4> QED
        BY <3>4, <4>2
    <3> QED
      BY <2>1, <3>2, <3>3, <3>4
  <2> HIDE DEF C
  <2>6. \A e \in 0..g : C(x, y, g, e) \/ (x = x0 /\ y = y0 /\ e % 2 = 1)
    BY <1>6
  <2>7. L(x + 1, y, g + 1)
    BY <1>4, <1>5, <1>6, <2>3, <2>4, <2>6
  <2>8. L(x, y + 1, g + 1)
    BY <1>4, <1>5, <1>6, <2>3, <2>4, <2>6
  <2>9. L(x, y, g + 2)
    BY <1>4, <1>6, <2>3, <2>4, <2>5, <2>6
  <2>10. <<x, y>> \in M => L(x + 1, y + 1, g)
    BY <1>4, <1>5, <1>6, <2>6
  <2> QED
    BY <2>7, <2>8, <2>9, <2>10
<1> HIDE DEF L
<1>7. \A x \in Int, y \in Int, e \in Nat :
         x + 1 \in Int /\ y + 1 \in Int /\ e + 1 \in Nat /\ e + 2 \in Nat
  OBVIOUS
<1> HIDE DEF S
<1>8. ASSUME NEW x \in Int, NEW y \in Int, NEW e \in Nat, Walk(M, x0, y0, x, y, e),
             <<x, y, e>> \in S
      PROVE  /\ <<x + 1, y, e + 1>> \in S
             /\ <<x, y + 1, e + 1>> \in S
             /\ <<x, y, e + 2>> \in S
             /\ <<x, y>> \in M => <<x + 1, y + 1, e>> \in S
  BY <1>1, <1>6, <1>7, <1>8
<1>9. <<x0, y0, 0>> \in S
  BY <1>1, <1>3
<1>10. \A x, y, e : Walk(M, x0, y0, x, y, e) => <<x, y, e>> \in S
  BY <1>8, <1>9, WalkInduction
<1>11. \A x, y, e : Walk(M, x0, y0, x, y, e) => x \in Int /\ y \in Int /\ e \in Nat
  BY WalkType
<1>12. \A x, y, e : Walk(M, x0, y0, x, y, e) => L(x, y, e)
  BY <1>1, <1>10, <1>11, Zenon
<1>13. ASSUME NEW x, NEW y, NEW g, L(x, y, g)
       PROVE  Halved(M, x0, y0, x, y, g)
  BY <1>13 DEF L, Halved
<1> QED
  BY <1>12, <1>13

-----------------------------------------------------------------------------
(* The points furthest on *)

\* u is the first coordinate of the last point on diagonal k, inside of a box of n
\* and m lines from (x0, y0), that a way of d lines leads to.  It may be outside,
\* then nothing inside is too far.
Furthest(M, x0, y0, n, m, u, k, d) ==
  /\ u <= n /\ u - k <= m => Walk(M, x0, y0, x0 + u, y0 + (u - k), d)
  /\ \A i \in Nat : i <= n /\ i - k <= m /\ Walk(M, x0, y0, x0 + i, y0 + (i - k), d) => i <= u

\* r lines are in common from (x, y) on, and no more of the n and m lines there.
SlideOf(M, x, y, n, m, r) ==
  /\ \A i \in 0..(r - 1) : <<x + i, y + i>> \in M
  /\ r < n /\ r < m => <<x + r, y + r>> \notin M

\* Beyond a point the ways of d lines go along the diagonal only.
Diagonally(M, x0, y0, n, m, from, k, d) ==
  \A i \in Nat :
    from < i /\ i <= n /\ i - k <= m /\ Walk(M, x0, y0, x0 + i, y0 + (i - k), d)
      => /\ <<x0 + i - 1, y0 + (i - k) - 1>> \in M
         /\ Walk(M, x0, y0, x0 + i - 1, y0 + (i - k) - 1, d)

\* Where the slide from a point ends that no way passes by, but along the diagonal.
LEMMA SlideEnds ==
  ASSUME NEW M, NEW x0 \in Int, NEW y0 \in Int, NEW n \in Int, NEW m \in Int,
         NEW d \in Nat, NEW k \in Int, NEW from \in Nat, NEW r \in Nat,
         from <= n /\ from - k <= m => Walk(M, x0, y0, x0 + from, y0 + (from - k), d),
         SlideOf(M, x0 + from, y0 + (from - k), n - from, m - (from - k), r),
         Diagonally(M, x0, y0, n, m, from, k, d)
  PROVE  Furthest(M, x0, y0, n, m, from + r, k, d)
<1> DEFINE u == from + r
           T == {i \in Nat : /\ i <= n /\ i - k <= m /\ u < i
                             /\ Walk(M, x0, y0, x0 + i, y0 + (i - k), d)}
<1>1. ASSUME u <= n, u - k <= m
      PROVE  Walk(M, x0, y0, x0 + u, y0 + (u - k), d)
  <2>1. from <= n /\ from - k <= m
    BY <1>1
  <2>2. Walk(M, x0, y0, x0 + from, y0 + (from - k), d)
    BY <2>1
  <2>3. x0 + from \in Int /\ y0 + (from - k) \in Int
    OBVIOUS
  <2>4. Walk(M, x0, y0, x0 + from + r, y0 + (from - k) + r, d)
    BY <2>2, <2>3, Slide DEF SlideOf
  <2>5. x0 + from + r = x0 + u /\ y0 + (from - k) + r = y0 + (u - k)
    OBVIOUS
  <2> QED
    BY <2>4, <2>5
<1>2. ASSUME T # {} PROVE FALSE
  <2>1. T \subseteq Nat
    OBVIOUS
  <2> HIDE DEF T
  <2>2. PICK i \in T : \A j \in T : i <= j
    BY <1>2, <2>1, Least
  <2>3. /\ i \in Nat /\ i <= n /\ i - k <= m /\ u < i
        /\ Walk(M, x0, y0, x0 + i, y0 + (i - k), d)
    BY <2>2 DEF T
  <2>4. from < i
    BY <2>3
  <2>5. /\ <<x0 + i - 1, y0 + (i - k) - 1>> \in M
        /\ Walk(M, x0, y0, x0 + i - 1, y0 + (i - k) - 1, d)
    BY <2>3, <2>4 DEF Diagonally
  <2>6. /\ x0 + i - 1 = x0 + (i - 1) /\ y0 + (i - k) - 1 = y0 + ((i - 1) - k)
        /\ i - 1 \in Nat /\ i - 1 <= n /\ (i - 1) - k <= m /\ i - 1 < i
    BY <2>3
  <2>7. CASE u < i - 1
    <3>1. i - 1 \in T
      BY <2>5, <2>6, <2>7 DEF T
    <3> QED
      BY <2>2, <2>3, <2>6, <3>1
  <2>8. CASE u = i - 1
    <3>1. r < n - from /\ r < m - (from - k)
      BY <2>3, <2>8
    <3>2. x0 + from + r = x0 + i - 1 /\ y0 + (from - k) + r = y0 + (i - k) - 1
      BY <2>3, <2>8
    <3> QED
      BY <2>5, <3>1, <3>2 DEF SlideOf
  <2> QED
    BY <2>3, <2>7, <2>8
<1>3. ASSUME NEW i \in Nat, i <= n, i - k <= m, Walk(M, x0, y0, x0 + i, y0 + (i - k), d)
      PROVE  i <= u
  <2>1. i \notin T
    BY <1>2
  <2>2. ~(u < i)
    BY <1>3, <2>1
  <2> QED
    BY <2>2
<1> QED
  BY <1>1, <1>3 DEF Furthest

\* At distance 0 it is where the lines in common from the corner end.
LEMMA FurthestFirst ==
  ASSUME NEW M, NEW x0 \in Int, NEW y0 \in Int, NEW n \in Int, NEW m \in Int, NEW r \in Nat,
         SlideOf(M, x0, y0, n, m, r)
  PROVE  Furthest(M, x0, y0, n, m, r, 0, 0)
<1>1. Walk(M, x0, y0, x0 + 0, y0 + (0 - 0), 0)
  <2>1. x0 + 0 = x0 /\ y0 + (0 - 0) = y0
    OBVIOUS
  <2> QED
    BY <2>1, WalkMoves
<1>2. ASSUME NEW i \in Nat, Walk(M, x0, y0, x0 + i, y0 + (i - 0), 0), 0 < i
      PROVE  /\ <<x0 + i - 1, y0 + (i - 0) - 1>> \in M
             /\ Walk(M, x0, y0, x0 + i - 1, y0 + (i - 0) - 1, 0)
  <2>1. ~Walk(M, x0, y0, x0 + i - 1, y0 + (i - 0), 0 - 1)
    BY WalkType
  <2>2. ~Walk(M, x0, y0, x0 + i, y0 + (i - 0) - 1, 0 - 1)
    BY WalkType
  <2>3. ~Walk(M, x0, y0, x0 + i, y0 + (i - 0), 0 - 2)
    BY WalkType
  <2>4. ~(x0 + i = x0 /\ 0 = 0)
    BY <1>2
  <2>6. PICK x, y : x = x0 + i /\ y = y0 + (i - 0)
    OBVIOUS
  <2>7. /\ Walk(M, x0, y0, x, y, 0)
        /\ ~Walk(M, x0, y0, x - 1, y, 0 - 1)
        /\ ~Walk(M, x0, y0, x, y - 1, 0 - 1)
        /\ ~Walk(M, x0, y0, x, y, 0 - 2)
        /\ ~(x = x0 /\ 0 = 0)
    BY <1>2, <2>1, <2>2, <2>3, <2>4, <2>6
  <2>8. <<x - 1, y - 1>> \in M /\ Walk(M, x0, y0, x - 1, y - 1, 0)
    BY <2>7, LastDiagonal, Zenon
  <2> QED
    BY <2>6, <2>8
<1>3. SlideOf(M, x0 + 0, y0 + (0 - 0), n - 0, m - (0 - 0), r)
  <2>1. x0 + 0 = x0 /\ y0 + (0 - 0) = y0 /\ n - 0 = n /\ m - (0 - 0) = m
    OBVIOUS
  <2> QED
    BY <2>1
<1>4. Diagonally(M, x0, y0, n, m, 0, 0, 0)
  BY <1>2 DEF Diagonally
<1>5. Furthest(M, x0, y0, n, m, 0 + r, 0, 0)
  <2>1. 0 \in Int /\ 0 \in Nat
    OBVIOUS
  <2> QED
    BY <1>1, <1>3, <1>4, <2>1, SlideEnds, Zenon
<1>6. 0 + r = r
  OBVIOUS
<1> QED
  BY <1>5, <1>6

\* At the next distance it is where one step leads, from the further of the points
\* on the diagonals beside, and a slide.
LEMMA FurthestNext ==
  ASSUME NEW M, NEW x0 \in Int, NEW y0 \in Int, NEW n \in Int, NEW m \in Int,
         NEW d \in Nat, d # 0, NEW k \in Int, -d <= k, k <= d, NEW U,
         k < d => U[k + 1] \in Nat /\ Furthest(M, x0, y0, n, m, U[k + 1], k + 1, d - 1),
         -d < k => U[k - 1] \in Nat /\ Furthest(M, x0, y0, n, m, U[k - 1], k - 1, d - 1),
         NEW r \in Nat, NEW from,
         from = IF k = -d \/ (k # d /\ U[k - 1] < U[k + 1]) THEN U[k + 1] ELSE U[k - 1] + 1,
         SlideOf(M, x0 + from, y0 + (from - k), n - from, m - (from - k), r)
  PROVE  Furthest(M, x0, y0, n, m, from + r, k, d)
<1> DEFINE p == U[k - 1] q == U[k + 1]
<1>1. /\ k < d => q \in Nat /\ Furthest(M, x0, y0, n, m, q, k + 1, d - 1)
      /\ -d < k => p \in Nat /\ Furthest(M, x0, y0, n, m, p, k - 1, d - 1)
      /\ from = IF k = -d \/ (k # d /\ p < q) THEN q ELSE p + 1
  OBVIOUS
<1> HIDE DEF p, q
<1>2. /\ from \in Nat
      /\ k < d => q <= from
      /\ -d < k => p + 1 <= from
      /\ (k < d /\ from = q) \/ (-d < k /\ from = p + 1)
  BY <1>1
<1>3. ASSUME from <= n, from - k <= m
      PROVE  Walk(M, x0, y0, x0 + from, y0 + (from - k), d)
  <2>1. CASE k < d /\ from = q
    <3>1. q <= n /\ q - (k + 1) <= m
      BY <1>3, <2>1, <1>1
    <3>2. Walk(M, x0, y0, x0 + q, y0 + (q - (k + 1)), d - 1)
      BY <1>1, <2>1, <3>1 DEF Furthest
    <3>3. Walk(M, x0, y0, x0 + q, (y0 + (q - (k + 1))) + 1, (d - 1) + 1)
      BY <3>2, WalkMoves
    <3>4. (y0 + (q - (k + 1))) + 1 = y0 + (from - k) /\ (d - 1) + 1 = d
      BY <1>1, <2>1
    <3> QED
      BY <2>1, <3>3, <3>4
  <2>2. CASE -d < k /\ from = p + 1
    <3>1. p <= n /\ p - (k - 1) <= m
      BY <1>3, <2>2, <1>1
    <3>2. Walk(M, x0, y0, x0 + p, y0 + (p - (k - 1)), d - 1)
      BY <1>1, <2>2, <3>1 DEF Furthest
    <3>3. Walk(M, x0, y0, (x0 + p) + 1, y0 + (p - (k - 1)), (d - 1) + 1)
      BY <3>2, WalkMoves
    <3>4. (x0 + p) + 1 = x0 + from /\ p - (k - 1) = from - k /\ (d - 1) + 1 = d
      <4>1. p \in Int
        BY <1>1, <2>2
      <4> QED
        BY <2>2, <4>1
    <3> QED
      BY <3>3, <3>4
  <2> QED
    BY <1>2, <2>1, <2>2
\* A line that goes, or two moves wasted, lead from the diagonal below.
<1>4. ASSUME NEW i \in Nat, i <= n, i - k <= m, 1 <= i,
             Walk(M, x0, y0, x0 + i - 1, y0 + (i - k), d - 1)
      PROVE  i <= from
  <2>1. x0 + i - 1 = x0 + (i - 1) /\ i - k = (i - 1) - (k - 1) /\ i - 1 \in Nat
    BY <1>4
  <2>2. Walk(M, x0, y0, x0 + (i - 1), y0 + ((i - 1) - (k - 1)), d - 1)
    BY <1>4, <2>1
  <2>3. -d < k
    <3>1. /\ (y0 + ((i - 1) - (k - 1))) - y0 - ((x0 + (i - 1)) - x0) <= d - 1
      BY <2>2, WalkBounds
    <3> QED
      BY <3>1
  <2>4. i - 1 <= p
    <3>1. i - 1 <= n /\ (i - 1) - (k - 1) <= m
      BY <1>4
    <3> QED
      BY <1>1, <2>1, <2>2, <2>3, <3>1 DEF Furthest
  <2> QED
    BY <1>1, <1>2, <2>3, <2>4
\* A line that comes leads from the diagonal above.
<1>5. ASSUME NEW i \in Nat, i <= n, i - k <= m,
             Walk(M, x0, y0, x0 + i, y0 + (i - k) - 1, d - 1)
      PROVE  i <= from
  <2>1. y0 + (i - k) - 1 = y0 + (i - (k + 1))
    OBVIOUS
  <2>2. Walk(M, x0, y0, x0 + i, y0 + (i - (k + 1)), d - 1)
    BY <1>5, <2>1
  <2>3. k < d
    <3>1. (x0 + i) - x0 - ((y0 + (i - (k + 1))) - y0) <= d - 1
      BY <2>2, WalkBounds
    <3> QED
      BY <3>1
  <2>4. i <= q
    <3>1. i - (k + 1) <= m
      BY <1>5
    <3> QED
      BY <1>1, <1>5, <2>2, <2>3, <3>1 DEF Furthest
  <2> QED
    BY <1>1, <1>2, <2>3, <2>4
<1>6. ASSUME NEW i \in Nat, i <= n, i - k <= m,
             Walk(M, x0, y0, x0 + i, y0 + (i - k), d), from < i
      PROVE  /\ <<x0 + i - 1, y0 + (i - k) - 1>> \in M
             /\ Walk(M, x0, y0, x0 + i - 1, y0 + (i - k) - 1, d)
  <2>1. 1 <= i /\ ~(i <= from)
    BY <1>2, <1>6
  <2>2. ~Walk(M, x0, y0, x0 + i - 1, y0 + (i - k), d - 1)
    BY <1>4, <1>6, <2>1
  <2>3. ~Walk(M, x0, y0, x0 + i, y0 + (i - k) - 1, d - 1)
    BY <1>5, <1>6, <2>1
  <2>4. ~Walk(M, x0, y0, x0 + i, y0 + (i - k), d - 2)
    <3>1. ASSUME Walk(M, x0, y0, x0 + i, y0 + (i - k), d - 2) PROVE FALSE
      <4>1. x0 < x0 + i /\ (d - 2) + 1 = d - 1
        BY <2>1
      <4>2. Walk(M, x0, y0, x0 + i - 1, y0 + (i - k), d - 1)
        BY <3>1, <4>1, TakenBack
      <4> QED
        BY <2>2, <4>2
    <3> QED
      BY <3>1
  <2>5. ~(x0 + i = x0 /\ d = 0)
    OBVIOUS
  <2>6. PICK x, y : x = x0 + i /\ y = y0 + (i - k)
    OBVIOUS
  <2>7. /\ Walk(M, x0, y0, x, y, d)
        /\ ~Walk(M, x0, y0, x - 1, y, d - 1)
        /\ ~Walk(M, x0, y0, x, y - 1, d - 1)
        /\ ~Walk(M, x0, y0, x, y, d - 2)
        /\ ~(x = x0 /\ d = 0)
    BY <1>6, <2>2, <2>3, <2>4, <2>5, <2>6
  <2>8. <<x - 1, y - 1>> \in M /\ Walk(M, x0, y0, x - 1, y - 1, d)
    BY <2>7, LastDiagonal, Zenon
  <2> QED
    BY <2>6, <2>8
<1>7. Diagonally(M, x0, y0, n, m, from, k, d)
  BY <1>6 DEF Diagonally
<1> QED
  BY <1>2, <1>3, <1>7, SlideEnds

-----------------------------------------------------------------------------
(* The distance of two points *)

\* The least number of lines that go and come on a way.
Distance(M, x1, y1, x2, y2, e) ==
  /\ Walk(M, x1, y1, x2, y2, e)
  /\ \A f : Walk(M, x1, y1, x2, y2, f) => e <= f

\* There is one from every point to those that do not lie before it.
LEMMA DistanceExists ==
  ASSUME NEW M, NEW x1 \in Int, NEW y1 \in Int, NEW x2 \in Int, NEW y2 \in Int,
         x1 <= x2, y1 <= y2
  PROVE  \E e \in Nat : Distance(M, x1, y1, x2, y2, e)
<1> DEFINE T == {e \in Nat : Walk(M, x1, y1, x2, y2, e)}
<1>1. T \subseteq Nat
  OBVIOUS
<1>2. T # {}
  <2>1. /\ x2 - x1 \in Nat /\ y2 - y1 \in Nat /\ x1 + (x2 - x1) = x2 /\ y1 + (y2 - y1) = y2
        /\ (x2 - x1) + (y2 - y1) \in Nat
    OBVIOUS
  <2>2. Walk(M, x1, y1, x1 + (x2 - x1), y1, x2 - x1)
    BY <2>1, Straight
  <2>3. Walk(M, x1, y1, x2, y1, x2 - x1)
    BY <2>1, <2>2
  <2>4. Walk(M, x2, y1, x2, y1 + (y2 - y1), y2 - y1)
    BY <2>1, Straight
  <2>5. Walk(M, x2, y1, x2, y2, y2 - y1)
    BY <2>1, <2>4
  <2>6. Walk(M, x1, y1, x2, y2, (x2 - x1) + (y2 - y1))
    BY <2>1, <2>3, <2>5, Onwards
  <2> QED
    BY <2>1, <2>6
<1>3. \A f : Walk(M, x1, y1, x2, y2, f) => f \in T
  BY WalkType
<1>4. \A e \in T : e \in Nat /\ Walk(M, x1, y1, x2, y2, e)
  OBVIOUS
<1> HIDE DEF T
<1>5. PICK e \in T : \A f \in T : e <= f
  BY <1>1, <1>2, Least
<1> QED
  BY <1>3, <1>4, <1>5 DEF Distance

\* Without lines on one side every line of the other goes or comes.
LEMMA OneSide ==
  ASSUME NEW M, NEW x1 \in Int, NEW y1 \in Int, NEW x2 \in Int, NEW y2 \in Int,
         x1 <= x2, y1 <= y2, x1 = x2 \/ y1 = y2, NEW e, Distance(M, x1, y1, x2, y2, e)
  PROVE  e = (x2 - x1) + (y2 - y1)
<1>1. /\ e \in Nat /\ (x2 - x1) - (y2 - y1) <= e /\ (y2 - y1) - (x2 - x1) <= e
      /\ \A f : Walk(M, x1, y1, x2, y2, f) => e <= f
  BY WalkBounds DEF Distance
<1>2. CASE x1 = x2
  <2>1. y2 - y1 \in Nat /\ y1 + (y2 - y1) = y2
    OBVIOUS
  <2>2. Walk(M, x1, y1, x1, y1 + (y2 - y1), y2 - y1)
    BY <2>1, Straight
  <2>3. e <= y2 - y1
    BY <1>1, <1>2, <2>1, <2>2
  <2> QED
    BY <1>1, <1>2, <2>3
<1>3. CASE y1 = y2
  <2>1. x2 - x1 \in Nat /\ x1 + (x2 - x1) = x2
    OBVIOUS
  <2>2. Walk(M, x1, y1, x1 + (x2 - x1), y1, x2 - x1)
    BY <2>1, Straight
  <2>3. e <= x2 - x1
    BY <1>1, <1>3, <2>1, <2>2
  <2> QED
    BY <1>1, <1>3, <2>3
<1> QED
  BY <1>2, <1>3

\* Lines in common at the start and at the end do not count.
LEMMA DistanceAfter ==
  ASSUME NEW M, M \subseteq Int \X Int,
         NEW x1 \in Int, NEW y1 \in Int, NEW x2 \in Int, NEW y2 \in Int,
         NEW r \in Nat, x1 + r <= x2, y1 + r <= y2,
         \A i \in 0..(r - 1) : <<x1 + i, y1 + i>> \in M,
         NEW e, Distance(M, x1, y1, x2, y2, e)
  PROVE  Distance(M, x1 + r, y1 + r, x2, y2, e)
<1>1. Walk(M, x1 + r, y1 + r, x2, y2, e)
  BY BegunLater DEF Distance
<1>2. ASSUME NEW f, Walk(M, x1 + r, y1 + r, x2, y2, f)
      PROVE  e <= f
  <2>1. Walk(M, x1, y1, x1 + r, y1 + r, 0)
    BY WalkMoves, Slide
  <2>2. x1 + r \in Int /\ y1 + r \in Int /\ f \in Nat /\ 0 + f = f
    BY <1>2, WalkType
  <2>3. Walk(M, x1, y1, x2, y2, 0 + f)
    BY <1>2, <2>1, <2>2, Onwards
  <2> QED
    BY <2>2, <2>3 DEF Distance
<1> QED
  BY <1>1, <1>2 DEF Distance

\* The same at the end.
LEMMA DistanceBefore ==
  ASSUME NEW M, NEW x1 \in Int, NEW y1 \in Int, NEW x2 \in Int, NEW y2 \in Int,
         NEW r \in Nat, x1 <= x2 - r, y1 <= y2 - r,
         \A i \in 1..r : <<x2 - i, y2 - i>> \in M,
         NEW e, Distance(M, x1, y1, x2, y2, e)
  PROVE  Distance(M, x1, y1, x2 - r, y2 - r, e)
<1>1. Walk(M, x1, y1, x2 - r, y2 - r, e)
  BY SlidBack DEF Distance
<1>2. ASSUME NEW f, Walk(M, x1, y1, x2 - r, y2 - r, f)
      PROVE  e <= f
  <2>1. ASSUME NEW i \in 0..(r - 1)
        PROVE  <<(x2 - r) + i, (y2 - r) + i>> \in M
    <3>1. r - i \in 1..r /\ (x2 - r) + i = x2 - (r - i) /\ (y2 - r) + i = y2 - (r - i)
      OBVIOUS
    <3> QED
      BY <3>1
  <2>2. x2 - r \in Int /\ y2 - r \in Int /\ (x2 - r) + r = x2 /\ (y2 - r) + r = y2
    OBVIOUS
  <2>3. Walk(M, x1, y1, (x2 - r) + r, (y2 - r) + r, f)
    BY <1>2, <2>1, <2>2, Slide
  <2> QED
    BY <2>2, <2>3 DEF Distance
<1> QED
  BY <1>1, <1>2 DEF Distance

\* p and q are two points of one diagonal, q not after p.  If a way leads to p and
\* one from q, and together they could only be longer than the way from end to end
\* by wasted moves, then the boxes before q and after p are shortened as much as
\* they can be: the lines between q and p need not be lines in common.
LEMMA DistanceSplits ==
  ASSUME NEW M, M \subseteq Int \X Int,
         NEW x0 \in Int, NEW y0 \in Int, NEW x3 \in Int, NEW y3 \in Int,
         NEW x1 \in Int, NEW y1 \in Int, NEW r \in Nat,
         x0 <= x1, y0 <= y1, x1 + r <= x3, y1 + r <= y3,
         NEW d \in Nat, NEW f \in Nat,
         Walk(M, x0, y0, x1 + r, y1 + r, d),
         Walk(M, x1, y1, x3, y3, f),
         ~Walk(M, x0, y0, x3, y3, (d + f) - 2)
  PROVE  /\ Distance(M, x0, y0, x1, y1, d)
         /\ Distance(M, x1 + r, y1 + r, x3, y3, f)
         /\ Distance(M, x0, y0, x3, y3, d + f)
<1>1. Walk(M, x0, y0, x1, y1, d)
  <2>1. x1 + r \in Int /\ y1 + r \in Int /\ (x1 + r) - r = x1 /\ (y1 + r) - r = y1
    OBVIOUS
  <2>2. Walk(M, x0, y0, (x1 + r) - r, (y1 + r) - r, d)
    BY <2>1, SlidBack
  <2> QED
    BY <2>1, <2>2
<1>2. Walk(M, x1 + r, y1 + r, x3, y3, f)
  BY BegunLater
<1>3. Walk(M, x0, y0, x3, y3, d + f)
  BY <1>1, Onwards
<1>4. x1 + r \in Int /\ y1 + r \in Int
  OBVIOUS
<1>5. (d + f - ((x3 - x0) - (y3 - y0))) % 2 = 0
  BY <1>3, WalkBounds
<1>6. ASSUME NEW e, Walk(M, x0, y0, x3, y3, e)
      PROVE  d + f <= e
  <2>1. e \in Nat /\ (e - ((x3 - x0) - (y3 - y0))) % 2 = 0
    BY <1>6, WalkBounds
  <2>2. ASSUME e < d + f PROVE FALSE
    <3>1. e <= (d + f) - 2 /\ (d + f) - 2 \in Nat /\ ((d + f) - 2 - e) % 2 = 0
      BY <1>5, <2>1, <2>2
    <3>2. Walk(M, x0, y0, x3, y3, (d + f) - 2)
      BY <1>6, <2>1, <3>1, Wasted
    <3> QED
      BY <3>2
  <2> QED
    BY <2>1, <2>2
<1>7. ASSUME NEW e, Walk(M, x0, y0, x1, y1, e)
      PROVE  d <= e
  <2>1. e \in Nat
    BY <1>7, WalkType
  <2>2. Walk(M, x0, y0, x3, y3, e + f)
    BY <1>7, <2>1, Onwards
  <2>3. d + f <= e + f
    BY <1>6, <2>2
  <2> QED
    BY <2>1, <2>3
<1>8. ASSUME NEW e, Walk(M, x1 + r, y1 + r, x3, y3, e)
      PROVE  f <= e
  <2>1. e \in Nat
    BY <1>8, WalkType
  <2>2. Walk(M, x0, y0, x3, y3, d + e)
    BY <1>4, <1>8, <2>1, Onwards
  <2>3. d + f <= d + e
    BY <1>6, <2>2
  <2> QED
    BY <2>1, <2>3
<1> QED
  BY <1>1, <1>2, <1>3, <1>6, <1>7, <1>8 DEF Distance

-----------------------------------------------------------------------------
(* The longest common subsequence *)

\* The pairs of lines that are equal.
Matches == {p \in Int \X Int : Same(p[1], p[2])}

\* Which points those are.
LEMMA MatchesAre ==
  /\ Matches \subseteq Int \X Int
  /\ \A x, y \in Int : <<x, y>> \in Matches <=> Same(x, y)
BY DEF Matches

\* A distance counts the difference of the sides at least, their sum at most.
LEMMA DistanceBounds ==
  ASSUME NEW M, NEW x \in Int, NEW y \in Int, NEW i \in Nat, NEW j \in Nat,
         NEW e, Distance(M, x, y, x + i, y + j, e)
  PROVE  /\ e \in Nat /\ i - j <= e /\ j - i <= e /\ e <= i + j
         /\ (e - (i - j)) % 2 = 0
<1>1. x + i \in Int /\ y + j \in Int /\ (x + i) - x = i /\ (y + j) - y = j
  OBVIOUS
<1>2. Walk(M, x, y, x + i, y + j, e)
  BY DEF Distance
<1>3. /\ e \in Nat /\ i - j <= e /\ j - i <= e /\ (e - (i - j)) % 2 = 0
  BY <1>1, <1>2, WalkBounds
<1>4. e <= i + j
  <2>1. Walk(M, x, y, x + i, y, i) /\ Walk(M, x + i, y, x + i, y + j, j)
    BY <1>1, Straight
  <2>2. Walk(M, x, y, x + i, y + j, i + j)
    BY <1>1, <2>1, Onwards
  <2> QED
    BY <2>2 DEF Distance
<1> QED
  BY <1>3, <1>4

\* How the distance of a point follows from those of the points before it.
Follows(M, x, y, i, j) ==
  \A e, p, q, s :
    /\ Distance(M, x, y, i, j, e)
    /\ Distance(M, x, y, i - 1, j, p)
    /\ Distance(M, x, y, i, j - 1, q)
    /\ Distance(M, x, y, i - 1, j - 1, s)
    => /\ <<i - 1, j - 1>> \in M => e = s
       /\ <<i - 1, j - 1>> \notin M => e = 1 + (IF p <= q THEN p ELSE q)

LEMMA DistanceStep ==
  ASSUME NEW M, NEW x \in Int, NEW y \in Int, NEW i \in Int, NEW j \in Int,
         x < i, y < j
  PROVE  Follows(M, x, y, i, j)
<1> SUFFICES ASSUME NEW e, NEW p, NEW q, NEW s,
                    Distance(M, x, y, i, j, e), Distance(M, x, y, i - 1, j, p),
                    Distance(M, x, y, i, j - 1, q), Distance(M, x, y, i - 1, j - 1, s)
             PROVE  /\ <<i - 1, j - 1>> \in M => e = s
                    /\ <<i - 1, j - 1>> \notin M => e = 1 + (IF p <= q THEN p ELSE q)
  BY DEF Follows
<1>1. /\ i - 1 \in Int /\ j - 1 \in Int /\ x <= i - 1 /\ y <= j - 1
      /\ (i - 1) + 1 = i /\ (j - 1) + 1 = j
  OBVIOUS
<1>2. e \in Nat /\ p \in Nat /\ q \in Nat /\ s \in Nat
  BY WalkType DEF Distance
<1>3. ASSUME <<i - 1, j - 1>> \in M PROVE e = s
  <2>1. Walk(M, x, y, (i - 1) + 1, (j - 1) + 1, s)
    BY <1>1, <1>3, WalkMoves DEF Distance
  <2>2. Walk(M, x, y, i - 1, j - 1, e)
    BY <1>1, TakenBack DEF Distance
  <2>3. e <= s /\ s <= e
    BY <1>1, <2>1, <2>2 DEF Distance
  <2> QED
    BY <1>2, <2>3
<1>4. ASSUME <<i - 1, j - 1>> \notin M PROVE e = 1 + (IF p <= q THEN p ELSE q)
  <2>1. e <= p + 1
    <3>1. Walk(M, x, y, (i - 1) + 1, j, p + 1)
      BY <1>1, WalkMoves DEF Distance
    <3> QED
      BY <1>1, <3>1 DEF Distance
  <2>2. e <= q + 1
    <3>1. Walk(M, x, y, i, (j - 1) + 1, q + 1)
      BY <1>1, WalkMoves DEF Distance
    <3> QED
      BY <1>1, <3>1 DEF Distance
  <2>3. p <= e - 1 \/ q <= e - 1
    <3>1. ~Walk(M, x, y, i, j, e - 2)
      <4>1. ~(e <= e - 2)
        BY <1>2
      <4> QED
        BY <4>1 DEF Distance
    <3>2. x # i /\ Walk(M, x, y, i, j, e)
      BY DEF Distance
    <3>3. Walk(M, x, y, i - 1, j, e - 1) \/ Walk(M, x, y, i, j - 1, e - 1)
      BY <1>4, <3>1, <3>2, LastMove, Zenon
    <3> QED
      BY <3>3 DEF Distance
  <2> QED
    BY <1>2, <2>1, <2>2, <2>3
<1> QED
  BY <1>3, <1>4

\* The larger of two numbers.
LEMMA LargerOf ==
  ASSUME NEW p \in Int, NEW q \in Int
  PROVE  Max({p, q}) = IF q <= p THEN p ELSE q
BY DEF Max

\* What the lengths of the longest common subsequences of the beginnings of a box
\* satisfy.
Entry(box, f, i, j) ==
  IF i = 0 \/ j = 0 THEN 0
  ELSE IF Same(box.x1 + i - 1, box.y1 + j - 1) THEN f[<<i - 1, j - 1>>] + 1
  ELSE Max({f[<<i - 1, j>>], f[<<i, j - 1>>]})

Cells(box) == (0..Width(box)) \X (0..Height(box))

Table(box, f) == f = [p \in Cells(box) |-> Entry(box, f, p[1], p[2])]

\* Common is the last entry of such a table.
LEMMA CommonIs ==
  ASSUME NEW box, NEW h, Table(box, h)
  PROVE \E c : Table(box, c) /\ Common(box) = c[<<Width(box), Height(box)>>]
<1>1. Table(box, CHOOSE f : Table(box, f))
  BY Zenon
<1>2. Common(box) = (CHOOSE f : Table(box, f))[<<Width(box), Height(box)>>]
  BY DEF Common, Table, Entry, Cells, Width, Height
<1> QED
  BY <1>1, <1>2, Zenon

\* An entry of a table.
LEMMA TableEntry ==
  ASSUME NEW box, NEW f, Table(box, f),
         NEW i \in 0..Width(box), NEW j \in 0..Height(box)
  PROVE  f[<<i, j>>] = Entry(box, f, i, j)
<1>1. <<i, j>> \in Cells(box) /\ <<i, j>>[1] = i /\ <<i, j>>[2] = j
  BY DEF Cells
<1>2. f[<<i, j>>] = [p \in Cells(box) |-> Entry(box, f, p[1], p[2])][<<i, j>>]
  BY Zenon DEF Table
<1> QED
  BY <1>1, <1>2

\* There is one table only.
LEMMA OneTable ==
  ASSUME NEW box, Width(box) \in Nat, Height(box) \in Nat,
         NEW g, NEW h, Table(box, g), Table(box, h)
  PROVE  g[<<Width(box), Height(box)>>] = h[<<Width(box), Height(box)>>]
<1> DEFINE n == Width(box) m == Height(box)
           T == {s \in 0..(n + m) :
                   \A i \in 0..n, j \in 0..m : i + j <= s => g[<<i, j>>] = h[<<i, j>>]}
<1>1. n \in Nat /\ m \in Nat /\ n + m \in Nat
  OBVIOUS
<1>2. ASSUME NEW i \in 0..n, NEW j \in 0..m
      PROVE  g[<<i, j>>] = Entry(box, g, i, j) /\ h[<<i, j>>] = Entry(box, h, i, j)
  BY TableEntry
<1> HIDE DEF n, m
<1>3. 0 \in T
  <2>1. ASSUME NEW i \in 0..n, NEW j \in 0..m, i + j <= 0
        PROVE  g[<<i, j>>] = h[<<i, j>>]
    <3>1. i = 0
      BY <1>1, <2>1
    <3>2. Entry(box, g, i, j) = 0 /\ Entry(box, h, i, j) = 0
      BY <3>1 DEF Entry
    <3> QED
      BY <1>2, <3>2
  <2> QED
    BY <1>1, <2>1
<1>4. ASSUME NEW s \in 1..(n + m), s - 1 \in T
      PROVE  s \in T
  <2>1. ASSUME NEW i \in 0..n, NEW j \in 0..m, i + j <= s
        PROVE  g[<<i, j>>] = h[<<i, j>>]
    <3>1. CASE i = 0 \/ j = 0
      <4>1. Entry(box, g, i, j) = 0 /\ Entry(box, h, i, j) = 0
        BY <3>1 DEF Entry
      <4> QED
        BY <1>2, <4>1
    <3>2. CASE i # 0 /\ j # 0
      <4>1. /\ i - 1 \in 0..n /\ j - 1 \in 0..m
            /\ (i - 1) + (j - 1) <= s - 1 /\ (i - 1) + j <= s - 1 /\ i + (j - 1) <= s - 1
        BY <1>1, <2>1, <3>2
      <4>2. /\ g[<<i - 1, j - 1>>] = h[<<i - 1, j - 1>>]
            /\ g[<<i - 1, j>>] = h[<<i - 1, j>>]
            /\ g[<<i, j - 1>>] = h[<<i, j - 1>>]
        BY <1>4, <4>1
      <4>3. Entry(box, g, i, j) = Entry(box, h, i, j)
        BY <4>2, Zenon DEF Entry
      <4> QED
        BY <1>2, <4>3
    <3> QED
      BY <3>1, <3>2
  <2>2. s \in 0..(n + m)
    BY <1>1
  <2> QED
    BY <2>1, <2>2
<1> HIDE DEF T
<1>5. \A s \in 0..(n + m) : s \in T
  BY <1>1, <1>3, <1>4, Climb
<1>6. n + m \in T
  BY <1>1, <1>5
<1>7. n \in 0..n /\ m \in 0..m /\ n + m <= n + m
  BY <1>1
<1>8. g[<<n, m>>] = h[<<n, m>>]
  BY <1>6, <1>7 DEF T
<1> QED
  BY <1>8 DEF n, m

\* A shortest script names the lines that a longest common subsequence leaves.
LEMMA CommonCounts ==
  ASSUME NEW box \in Boxes, box.x1 <= box.x2, box.y1 <= box.y2,
         NEW e, Distance(Matches, box.x1, box.y1, box.x2, box.y2, e)
  PROVE  Common(box) \in Nat /\ e = Width(box) + Height(box) - 2 * Common(box)
<1> DEFINE n == Width(box) m == Height(box) X == box.x1 Y == box.y1
           D(i, j) == CHOOSE f : Distance(Matches, X, Y, X + i, Y + j, f)
           L(i, j) == (i + j - D(i, j)) \div 2
           h == [p \in Cells(box) |-> L(p[1], p[2])]
<1>1. /\ X \in Int /\ Y \in Int /\ X + n = box.x2 /\ Y + m = box.y2
      /\ n \in Nat /\ m \in Nat /\ n \in 0..n /\ m \in 0..m
  BY DEF Boxes, Width, Height
<1>2. ASSUME NEW i \in Nat, NEW j \in Nat
      PROVE  Distance(Matches, X, Y, X + i, Y + j, D(i, j))
  <2>1. X + i \in Int /\ Y + j \in Int /\ X <= X + i /\ Y <= Y + j
    BY <1>1
  <2>2. \E f \in Nat : Distance(Matches, X, Y, X + i, Y + j, f)
    BY <1>1, <2>1, DistanceExists
  <2> QED
    BY <2>2, Zenon
<1> HIDE DEF D
<1>3. ASSUME NEW i \in Nat, NEW j \in Nat
      PROVE  /\ D(i, j) \in Nat /\ i - j <= D(i, j) /\ j - i <= D(i, j) /\ D(i, j) <= i + j
             /\ (D(i, j) - (i - j)) % 2 = 0
  BY <1>1, <1>2, DistanceBounds
<1>4. ASSUME NEW i \in Nat, NEW j \in Nat
      PROVE  L(i, j) \in Nat /\ D(i, j) = i + j - 2 * L(i, j)
  <2>1. D(i, j) \in Nat /\ D(i, j) <= i + j /\ (D(i, j) - (i - j)) % 2 = 0
    BY <1>3
  <2>2. \A x \in Nat : x <= i + j /\ (x - (i - j)) % 2 = 0
          => (i + j - x) \div 2 \in Nat /\ x = i + j - 2 * ((i + j - x) \div 2)
    OBVIOUS
  <2> QED
    BY <2>1, <2>2
<1> HIDE DEF L
<1>5. ASSUME NEW i \in 0..n, NEW j \in 0..m
      PROVE  h[<<i, j>>] = L(i, j)
  BY DEF Cells
<1>6. ASSUME NEW i \in 0..n, NEW j \in 0..m
      PROVE  L(i, j) = Entry(box, h, i, j)
  <2> HIDE DEF h, n, m, X, Y
  <2>0. i \in Nat /\ j \in Nat
    BY <1>1
  <2>1. CASE i = 0 \/ j = 0
    <3>1. D(i, j) = i + j
      <4>1. D(i, j) \in Nat /\ i - j <= D(i, j) /\ j - i <= D(i, j) /\ D(i, j) <= i + j
        BY <1>3, <2>0
      <4> QED
        BY <2>0, <2>1, <4>1
    <3>2. L(i, j) \in Nat /\ D(i, j) = i + j - 2 * L(i, j)
      BY <1>4, <2>0
    <3>3. PICK l \in Nat : l = L(i, j)
      BY <3>2
    <3>4. i + j = i + j - 2 * l
      BY <3>1, <3>2, <3>3, Zenon
    <3>5. l = 0
      BY <2>0, <3>4
    <3> QED
      BY <2>1, <3>3, <3>5 DEF Entry
  <2>2. CASE i # 0 /\ j # 0
    <3>1. /\ i - 1 \in 0..n /\ j - 1 \in 0..m /\ i - 1 \in Nat /\ j - 1 \in Nat
          /\ (i - 1) + 1 = i /\ (j - 1) + 1 = j /\ i - 1 \in Int /\ j - 1 \in Int
      BY <1>1, <2>2
    <3>2. /\ X + i \in Int /\ Y + j \in Int /\ X + i - 1 \in Int /\ Y + j - 1 \in Int
          /\ X < X + i /\ Y < Y + j
          /\ X + (i - 1) = X + i - 1 /\ Y + (j - 1) = Y + j - 1
      BY <1>1, <2>0, <2>2
    <3>3. /\ Same(X + i - 1, Y + j - 1) => D(i, j) = D(i - 1, j - 1)
          /\ ~Same(X + i - 1, Y + j - 1)
               => D(i, j) = 1 + (IF D(i - 1, j) <= D(i, j - 1) THEN D(i - 1, j) ELSE D(i, j - 1))
      <4>1. PICK u \in Int, v \in Int : u = X + i /\ v = Y + j
        BY <3>2
      <4>2. /\ u = X + i /\ v = Y + j /\ u - 1 = X + (i - 1) /\ v - 1 = Y + (j - 1)
            /\ X < u /\ Y < v
        BY <1>1, <2>0, <3>2, <4>1
      <4>3. /\ Distance(Matches, X, Y, X + i, Y + j, D(i, j))
            /\ Distance(Matches, X, Y, X + (i - 1), Y + (j - 1), D(i - 1, j - 1))
            /\ Distance(Matches, X, Y, X + (i - 1), Y + j, D(i - 1, j))
            /\ Distance(Matches, X, Y, X + i, Y + (j - 1), D(i, j - 1))
        BY <1>2, <2>0, <3>1, Zenon
      <4>4. /\ Distance(Matches, X, Y, u, v, D(i, j))
            /\ Distance(Matches, X, Y, u - 1, v - 1, D(i - 1, j - 1))
            /\ Distance(Matches, X, Y, u - 1, v, D(i - 1, j))
            /\ Distance(Matches, X, Y, u, v - 1, D(i, j - 1))
        BY <4>2, <4>3, Zenon
      <4>5. X \in Int /\ Y \in Int /\ X < u /\ Y < v
        BY <1>1, <4>2
      <4>6. /\ <<u - 1, v - 1>> \in Matches => D(i, j) = D(i - 1, j - 1)
            /\ <<u - 1, v - 1>> \notin Matches
                 => D(i, j) = 1 + (IF D(i - 1, j) <= D(i, j - 1) THEN D(i - 1, j) ELSE D(i, j - 1))
        <5>1. Follows(Matches, X, Y, u, v)
          BY <4>5, DistanceStep
        <5> QED
          BY <4>4, <5>1 DEF Follows
      <4>7. <<u - 1, v - 1>> \in Matches <=> Same(u - 1, v - 1)
        BY MatchesAre
      <4> QED
        BY <3>2, <4>2, <4>6, <4>7
    <3>4. /\ L(i, j) \in Nat /\ D(i, j) = i + j - 2 * L(i, j)
          /\ L(i - 1, j - 1) \in Nat /\ D(i - 1, j - 1) = (i - 1) + (j - 1) - 2 * L(i - 1, j - 1)
          /\ L(i - 1, j) \in Nat /\ D(i - 1, j) = (i - 1) + j - 2 * L(i - 1, j)
          /\ L(i, j - 1) \in Nat /\ D(i, j - 1) = i + (j - 1) - 2 * L(i, j - 1)
      BY <1>4, <2>0, <3>1
    <3>5. CASE Same(X + i - 1, Y + j - 1)
      <4>1. D(i, j) = D(i - 1, j - 1)
        BY <3>3, <3>5
      <4>2. L(i, j) = L(i - 1, j - 1) + 1
        <5>1. PICK x, y \in Nat : x = L(i, j) /\ y = L(i - 1, j - 1)
          BY <3>4
        <5>2. i + j - 2 * x = (i - 1) + (j - 1) - 2 * y
          BY <3>4, <4>1, <5>1
        <5>3. x = y + 1
          BY <2>0, <5>2
        <5> QED
          BY <5>1, <5>3
      <4>3. h[<<i - 1, j - 1>>] = L(i - 1, j - 1)
        BY <1>5, <3>1
      <4> QED
        BY <2>2, <3>5, <4>2, <4>3 DEF Entry, X, Y
    <3>6. CASE ~Same(X + i - 1, Y + j - 1)
      <4>1. D(i, j) = 1 + (IF D(i - 1, j) <= D(i, j - 1) THEN D(i - 1, j) ELSE D(i, j - 1))
        BY <3>3, <3>6
      <4>2. PICK x, y, z \in Nat : x = L(i, j) /\ y = L(i - 1, j) /\ z = L(i, j - 1)
        BY <3>4
      <4>3. L(i, j) = IF L(i, j - 1) <= L(i - 1, j) THEN L(i - 1, j) ELSE L(i, j - 1)
        <5>1. D(i, j) = i + j - 2 * x /\ D(i - 1, j) = (i - 1) + j - 2 * y
                /\ D(i, j - 1) = i + (j - 1) - 2 * z
          BY <3>4, <4>2
        <5>2. i + j - 2 * x = 1 + (IF (i - 1) + j - 2 * y <= i + (j - 1) - 2 * z
                                   THEN (i - 1) + j - 2 * y ELSE i + (j - 1) - 2 * z)
          BY <4>1, <5>1, Zenon
        <5>3. x = IF z <= y THEN y ELSE z
          BY <2>0, <5>2
        <5> QED
          BY <4>2, <5>3, Zenon
      <4>4. Max({L(i - 1, j), L(i, j - 1)})
              = IF L(i, j - 1) <= L(i - 1, j) THEN L(i - 1, j) ELSE L(i, j - 1)
        <5>1. y \in Int /\ z \in Int
          OBVIOUS
        <5>2. Max({y, z}) = IF z <= y THEN y ELSE z
          BY <5>1, LargerOf
        <5> QED
          BY <4>2, <5>2, Zenon
      <4>5. h[<<i - 1, j>>] = L(i - 1, j) /\ h[<<i, j - 1>>] = L(i, j - 1)
        BY <1>5, <3>1
      <4>6. Entry(box, h, i, j) = Max({h[<<i - 1, j>>], h[<<i, j - 1>>]})
        BY <2>2, <3>6, Zenon DEF Entry, X, Y
      <4> QED
        BY <4>3, <4>4, <4>5, <4>6, Zenon
    <3> QED
      BY <3>5, <3>6
  <2> QED
    BY <2>1, <2>2
<1>7. Table(box, h)
  <2>1. \A p \in Cells(box) : L(p[1], p[2]) = Entry(box, h, p[1], p[2])
    <3>1. Cells(box) = (0..n) \X (0..m)
      BY DEF Cells
    <3> HIDE DEF h, n, m
    <3> QED
      BY <1>6, <3>1
  <2>2. ASSUME NEW f, NEW S, \A p \in S : L(p[1], p[2]) = Entry(box, f, p[1], p[2])
        PROVE  [p \in S |-> L(p[1], p[2])] = [p \in S |-> Entry(box, f, p[1], p[2])]
    BY <2>2
  <2>3. h = [p \in Cells(box) |-> Entry(box, h, p[1], p[2])]
    <3>1. h = [p \in Cells(box) |-> L(p[1], p[2])]
      OBVIOUS
    <3> HIDE DEF h
    <3> QED
      BY <2>1, <2>2, <3>1
  <2> HIDE DEF h
  <2> QED
    BY <2>3 DEF Table
<1>8. L(n, m) \in Nat /\ D(n, m) = n + m - 2 * L(n, m)
  BY <1>1, <1>4
<1>9. Common(box) = L(n, m)
  <2>1. h[<<n, m>>] = L(n, m)
    BY <1>1, <1>5
  <2> HIDE DEF h
  <2>2. PICK c : Table(box, c) /\ Common(box) = c[<<n, m>>]
    BY <1>7, CommonIs, Zenon
  <2>3. c[<<n, m>>] = h[<<n, m>>]
    BY <1>1, <1>7, <2>2, OneTable
  <2> QED
    BY <2>1, <2>2, <2>3
<1>10. e = D(n, m)
  <2>1. Distance(Matches, X, Y, X + n, Y + m, D(n, m))
    BY <1>1, <1>2
  <2>2. e <= D(n, m) /\ D(n, m) <= e
    BY <1>1, <2>1 DEF Distance
  <2>3. e \in Nat /\ D(n, m) \in Nat
    BY <1>1, <1>3, WalkType DEF Distance
  <2> QED
    BY <2>2, <2>3
<1> HIDE DEF h
<1> QED
  BY <1>8, <1>9, <1>10

-----------------------------------------------------------------------------
(* How far the two searches have come *)

\* Both searches have the furthest points, one of d lines and one of f, and on no
\* diagonal have they met: then no way of so many lines leads from end to end.
LEMMA NotYet ==
  ASSUME NEW M, M \subseteq Int \X Int, NEW x0 \in Int, NEW y0 \in Int,
         NEW n \in Int, NEW m \in Int, n >= 1,
         NEW d \in Nat, NEW f \in Nat, NEW F \in [Int -> Int], NEW B \in [Int -> Int],
         \A k \in Lanes(d) : Furthest(M, x0, y0, n, m, F[k], k, d),
         \A k \in Lanes(f) :
           Furthest(Mirror(M), -(y0 + m), -(x0 + n), m, n, B[k], k, f),
         \A k \in Lanes(d) :
           k - (n - m) \in Lanes(f) => F[k] + B[k - (n - m)] < m + k
  PROVE  ~Walk(M, x0, y0, x0 + n, y0 + m, d + f)
<1> SUFFICES ASSUME Walk(M, x0, y0, x0 + n, y0 + m, d + f)
             PROVE  FALSE
  OBVIOUS
<1>1. PICK x1 \in Int, y1 \in Int :
        Walk(M, x0, y0, x1, y1, d) /\ Walk(M, x1, y1, x0 + n, y0 + m, f)
  <2>1. PICK X \in Int, Y \in Int, g \in Nat : X = x0 + n /\ Y = y0 + m /\ g = d + f
    OBVIOUS
  <2>2. Walk(M, x0, y0, X, Y, g)
    BY <2>1
  <2>3. Halved(M, x0, y0, X, Y, g)
    BY <2>2, Halfway
  <2>4. d \in 0..g /\ g - d = f /\ X # x0
    BY <2>1
  <2>5. \E x1, y1 \in Int : Walk(M, x0, y0, x1, y1, d) /\ Walk(M, x1, y1, X, Y, g - d)
    BY <2>3, <2>4 DEF Halved
  <2> QED
    BY <2>1, <2>4, <2>5
<1>2. PICK i \in Int, j \in Int, k \in Int, w \in Int :
        i = x1 - x0 /\ j = y1 - y0 /\ k = i - j /\ w = m - j
  OBVIOUS
<1>3. x1 = x0 + i /\ y1 = y0 + (i - k) /\ w - (k - (n - m)) = n - i
  BY <1>2
<1>4. x0 <= x1 /\ y0 <= y1 /\ (x1 - x0) - (y1 - y0) <= d /\ (y1 - y0) - (x1 - x0) <= d
      /\ (d - ((x1 - x0) - (y1 - y0))) % 2 = 0
  BY <1>1, WalkBounds
<1>5. /\ x1 <= x0 + n /\ y1 <= y0 + m
      /\ ((x0 + n) - x1) - ((y0 + m) - y1) <= f /\ ((y0 + m) - y1) - ((x0 + n) - x1) <= f
      /\ (f - (((x0 + n) - x1) - ((y0 + m) - y1))) % 2 = 0
  BY <1>1, x0 + n \in Int, y0 + m \in Int, WalkBounds
<1>6. k \in Lanes(d) /\ i \in Nat /\ i <= n /\ i - k <= m
  <2>1. -d <= k /\ k <= d /\ (d - k) % 2 = 0
    BY <1>2, <1>4
  <2> QED
    BY <1>2, <1>4, <1>5, <2>1 DEF Lanes
<1>7. PICK l \in Int : l = k - (n - m)
  OBVIOUS
<1>8. l \in Lanes(f) /\ w \in Nat /\ w <= m /\ w - l <= n
  <2>1. l = ((y0 + m) - y1) - ((x0 + n) - x1)
    BY <1>2, <1>7
  <2>2. -f <= l /\ l <= f
    BY <1>5, <2>1
  <2>3. (f - l) % 2 = 0
    <3>1. PICK g \in Int : g = ((x0 + n) - x1) - ((y0 + m) - y1)
      OBVIOUS
    <3>2. l = -g /\ (f - g) % 2 = 0
      BY <1>5, <2>1, <3>1
    <3> QED
      BY <3>2
  <2> QED
    BY <1>2, <1>3, <1>4, <1>5, <1>7, <2>2, <2>3 DEF Lanes
<1>9. i <= F[k]
  <2>1. Walk(M, x0, y0, x0 + i, y0 + (i - k), d)
    BY <1>1, <1>3
  <2> QED
    BY <1>6, <2>1 DEF Furthest
<1>10. w <= B[l]
  <2>1. Walk(Mirror(M), -(y0 + m), -(x0 + n), -y1, -x1, f)
    BY <1>1, BackAndForth, x0 + n \in Int, y0 + m \in Int
  <2>2. -y1 = -(y0 + m) + w /\ -x1 = -(x0 + n) + (w - l)
    BY <1>2, <1>7
  <2>3. Walk(Mirror(M), -(y0 + m), -(x0 + n), -(y0 + m) + w, -(x0 + n) + (w - l), f)
    BY <2>1, <2>2
  <2> QED
    BY <1>8, <2>3 DEF Furthest
<1>11. F[k] + B[l] < m + k
  BY <1>6, <1>7, <1>8
<1> QED
  <2>1. F[k] \in Int /\ B[l] \in Int /\ i + w = m + k
    BY <1>2
  <2> QED
    BY <1>9, <1>10, <1>11, <2>1

-----------------------------------------------------------------------------
(* Trimming *)

\* What trimming takes off a box does not count.
LEMMA TrimmedDistance ==
  ASSUME NEW box \in Boxes, box.x1 <= box.x2, box.y1 <= box.y2,
         NEW e, Distance(Matches, box.x1, box.y1, box.x2, box.y2, e)
  PROVE  LET t == Trimmed(box) IN Distance(Matches, t.x1, t.y1, t.x2, t.y2, e)
<1> DEFINE p == Ahead(box.x1, box.y1, box)
           rest == Box(box.x1 + p, box.y1 + p, box.x2, box.y2)
           q == Behind(rest.x2, rest.y2, rest)
           t == Box(rest.x1, rest.y1, rest.x2 - q, rest.y2 - q)
<1>1. t = Trimmed(box)
  BY DEF Trimmed
<1>2. box.x1 \in Int /\ box.y1 \in Int /\ box.x2 \in Int /\ box.y2 \in Int
  BY DEF Boxes
<1>3. /\ p \in Nat
      /\ p = 0 \/ (box.x1 + p <= box.x2 /\ box.y1 + p <= box.y2)
      /\ \A i \in 0..(p - 1) : Same(box.x1 + i, box.y1 + i)
  BY <1>2, AheadSlides
<1> HIDE DEF p
<1>4. /\ rest.x1 = box.x1 + p /\ rest.y1 = box.y1 + p
      /\ rest.x2 = box.x2 /\ rest.y2 = box.y2
      /\ rest.x1 \in Int /\ rest.y1 \in Int
      /\ rest.x1 <= rest.x2 /\ rest.y1 <= rest.y2
  BY <1>2, <1>3 DEF Box
<1> HIDE DEF rest
<1>5. /\ q \in Nat
      /\ q = 0 \/ (rest.x2 - q >= rest.x1 /\ rest.y2 - q >= rest.y1)
      /\ \A i \in 1..q : Same(rest.x2 - i, rest.y2 - i)
  BY <1>2, <1>4, BehindSlides
<1> HIDE DEF q
<1>6. t.x1 = rest.x1 /\ t.y1 = rest.y1 /\ t.x2 = rest.x2 - q /\ t.y2 = rest.y2 - q
  BY DEF Box
<1> HIDE DEF t
<1>7. Distance(Matches, rest.x1, rest.y1, rest.x2, rest.y2, e)
  <2>1. \A i \in 0..(p - 1) : <<box.x1 + i, box.y1 + i>> \in Matches
    <3> SUFFICES ASSUME NEW i \in 0..(p - 1)
                 PROVE  <<box.x1 + i, box.y1 + i>> \in Matches
      OBVIOUS
    <3>1. box.x1 + i \in Int /\ box.y1 + i \in Int /\ Same(box.x1 + i, box.y1 + i)
      BY <1>2, <1>3
    <3> QED
      BY <3>1, MatchesAre
  <2>2. box.x1 + p <= box.x2 /\ box.y1 + p <= box.y2
    BY <1>2, <1>3
  <2>3. Distance(Matches, box.x1 + p, box.y1 + p, box.x2, box.y2, e)
    BY <1>2, <1>3, <2>1, <2>2, DistanceAfter, MatchesAre
  <2> QED
    BY <1>4, <2>3
<1>8. Distance(Matches, rest.x1, rest.y1, rest.x2 - q, rest.y2 - q, e)
  <2>1. \A i \in 1..q : <<rest.x2 - i, rest.y2 - i>> \in Matches
    <3> SUFFICES ASSUME NEW i \in 1..q
                 PROVE  <<rest.x2 - i, rest.y2 - i>> \in Matches
      OBVIOUS
    <3>1. rest.x2 - i \in Int /\ rest.y2 - i \in Int /\ Same(rest.x2 - i, rest.y2 - i)
      BY <1>2, <1>4, <1>5
    <3> QED
      BY <3>1, MatchesAre
  <2>2. rest.x1 <= rest.x2 - q /\ rest.y1 <= rest.y2 - q /\ rest.x2 \in Int /\ rest.y2 \in Int
    BY <1>2, <1>4, <1>5
  <2> QED
    BY <1>4, <1>5, <1>7, <2>1, <2>2, DistanceBefore, MatchesAre
<1> QED
  BY <1>1, <1>6, <1>8

-----------------------------------------------------------------------------
(* The points of the two searches are the furthest *)

\* The points U on the diagonals of distance d above k are the furthest.
Far(M, x0, y0, n, m, U, d, k) ==
  \A j \in Lanes(d) : j > k => Furthest(M, x0, y0, n, m, U[j], j, d)

FarAhead(M, box, F, d, k) ==
  Far(M, box.x1, box.y1, Width(box), Height(box), F, d, k)

FarBack(M, box, B, d, k) ==
  Far(Mirror(M), -box.y2, -box.x2, Height(box), Width(box), B, d, k)

\* One step and a slide lead as far forwards as any way of as many lines.
LEMMA ForwardFurthest ==
  ASSUME NEW box, Trim(box), NEW fv \in Memory, NEW B, NEW d, NEW k,
         Searching(Ahd(box, fv), B, Width(box), Height(box), "forward", d, k),
         d # 0 => FarAhead(Matches, box, Ahd(box, fv), d - 1, -d - 1)
  PROVE  Furthest(Matches, box.x1, box.y1, Width(box), Height(box),
                  FwdTo(box, fv, d, k) - box.x1, k, d)
<1> DEFINE n == Width(box)
           m == Height(box)
           F == Ahd(box, fv)
           h == Half(box)
           from == FwdFrom(box, fv, d, k)
           y == Row(box, k, from)
           r == Ahead(from, y, box)
           x == FwdTo(box, fv, d, k)
           u == x - box.x1
           f == from - box.x1
<1>1. /\ box.x1 \in Int /\ box.y1 \in Int /\ box.x2 \in Int /\ box.y2 \in Int
      /\ n \in Int /\ n >= 1 /\ n = box.x2 - box.x1
      /\ m \in Int /\ m >= 1 /\ m = box.y2 - box.y1
      /\ h \in Int
      /\ box \in Boxes
  BY Sides DEF Trim
<1>2. /\ d \in Nat /\ k \in Lanes(d) /\ k \in Int
      /\ ForwardOK(F, B, n, m, d, k)
  BY DEF Searching, Lanes
<1>3. x = from + r
  BY DEF FwdTo
<1>4. ASSUME NEW j \in Int, F[j] >= 0
      PROVE  fv[j + h] \in Int /\ fv[j + h] = F[j] + box.x1
  BY <1>1, <1>4, AhdPoint
<1>5. d # 0 => FarAhead(Matches, box, F, d - 1, -d - 1)
  OBVIOUS
<1> HIDE DEF F, h
<1>6. ASSUME from \in Int
      PROVE  /\ r \in Nat /\ u = f + r /\ f \in Int
             /\ SlideOf(Matches, box.x1 + f, box.y1 + (f - k), n - f, m - (f - k), r)
  <2> HIDE DEF from, n, m
  <2>1. y = from - box.x1 - k + box.y1 /\ y \in Int
    BY <1>1, <1>2, <1>6 DEF Row
  <2> HIDE DEF y
  <2>2. /\ r \in Nat
        /\ from + r < box.x2 /\ y + r < box.y2 => ~Same(from + r, y + r)
        /\ \A i \in 0..(r - 1) : Same(from + i, y + i)
    BY <1>1, <1>6, <2>1, AheadSlides
  <2> HIDE DEF r, x
  <2>3. /\ u = f + r /\ f \in Int /\ box.x1 + f = from /\ box.y1 + (f - k) = y
        /\ n - f = box.x2 - from /\ m - (f - k) = box.y2 - y
    BY <1>1, <1>2, <1>3, <1>6, <2>1, <2>2
  <2>4. \A i \in 0..(r - 1) : <<from + i, y + i>> \in Matches
    <3> SUFFICES ASSUME NEW i \in 0..(r - 1)
                 PROVE  <<from + i, y + i>> \in Matches
      OBVIOUS
    <3>1. from + i \in Int /\ y + i \in Int /\ Same(from + i, y + i)
      BY <1>6, <2>1, <2>2
    <3> QED
      BY <3>1, MatchesAre
  <2>5. r < box.x2 - from /\ r < box.y2 - y => <<from + r, y + r>> \notin Matches
    <3> SUFFICES ASSUME r < box.x2 - from, r < box.y2 - y
                 PROVE  <<from + r, y + r>> \notin Matches
      OBVIOUS
    <3>1. from + r \in Int /\ y + r \in Int /\ from + r < box.x2 /\ y + r < box.y2
      BY <1>1, <1>6, <2>1, <2>2
    <3> QED
      BY <2>2, <3>1, MatchesAre
  <2>6. SlideOf(Matches, from, y, box.x2 - from, box.y2 - y, r)
    BY <2>4, <2>5 DEF SlideOf
  <2> QED
    BY <2>2, <2>3, <2>6
<1>7. CASE d = 0
  <2>1. k = 0 /\ k = -d
    BY <1>2, <1>7, OneLane
  <2>2. F[1] = 0
    BY <1>2, <1>7 DEF ForwardOK
  <2>3. from = box.x1
    <3>1. fv[1 + h] = box.x1
      BY <1>1, <1>4, <2>2
    <3>2. k + h + 1 = 1 + h
      BY <1>1, <2>1
    <3> QED
      BY <2>1, <3>1, <3>2 DEF FwdFrom, h
  <2>4. from \in Int /\ f = 0
    BY <1>1, <2>3
  <2> HIDE DEF f
  <2>5. /\ r \in Nat /\ u = f + r
        /\ SlideOf(Matches, box.x1 + f, box.y1 + (f - k), n - f, m - (f - k), r)
    BY <1>6, <2>4
  <2> HIDE DEF r, u, n, m
  <2>6. /\ box.x1 + f = box.x1 /\ box.y1 + (f - k) = box.y1 /\ n - f = n /\ m - (f - k) = m
        /\ f + r = r
    BY <1>1, <2>1, <2>4, <2>5
  <2>7. SlideOf(Matches, box.x1, box.y1, n, m, r)
    BY <2>5, <2>6
  <2>8. Furthest(Matches, box.x1, box.y1, n, m, r, 0, 0)
    BY <1>1, <2>5, <2>7, FurthestFirst
  <2> QED
    BY <1>7, <2>1, <2>5, <2>6, <2>8 DEF n, m, u
<1>8. CASE d # 0
  <2>1. Frontier(F, d - 1, n, m, 0)
    BY <1>2, <1>8 DEF ForwardOK
  <2>2. /\ -d <= k /\ k <= d
        /\ k < d => k + 1 \in Lanes(d - 1)
        /\ k > -d => k - 1 \in Lanes(d - 1)
    BY <1>2, LaneNeighbours
  <2>3. ASSUME NEW j \in Lanes(d - 1)
        PROVE  /\ F[j] \in Nat /\ fv[j + h] \in Int /\ fv[j + h] = F[j] + box.x1
               /\ Furthest(Matches, box.x1, box.y1, n, m, F[j], j, d - 1)
    <3>1. j \in Int /\ F[j] \in Int /\ F[j] >= 0 /\ j > -d - 1
      BY <1>2, <1>8, <2>1 DEF Frontier, Fresh, Lanes
    <3>2. Furthest(Matches, box.x1, box.y1, n, m, F[j], j, d - 1)
      BY <1>5, <1>8, <3>1 DEF FarAhead, Far
    <3> QED
      BY <1>4, <3>1, <3>2
  <2>4. k + h + 1 = (k + 1) + h /\ k + h - 1 = (k - 1) + h
    BY <1>1, <1>2
  <2>5. k < d => /\ F[k + 1] \in Nat /\ fv[k + h + 1] \in Int /\ fv[k + h + 1] = F[k + 1] + box.x1
                 /\ Furthest(Matches, box.x1, box.y1, n, m, F[k + 1], k + 1, d - 1)
    BY <2>2, <2>3, <2>4
  <2>6. -d < k => /\ F[k - 1] \in Nat /\ fv[k + h - 1] \in Int /\ fv[k + h - 1] = F[k - 1] + box.x1
                  /\ Furthest(Matches, box.x1, box.y1, n, m, F[k - 1], k - 1, d - 1)
    BY <2>2, <2>3, <2>4
  <2>7. /\ from \in Int
        /\ f = IF k = -d \/ (k # d /\ F[k - 1] < F[k + 1]) THEN F[k + 1] ELSE F[k - 1] + 1
    BY <1>1, <1>2, <1>8, <2>2, <2>5, <2>6 DEF FwdFrom, h
  <2> HIDE DEF f, from
  <2>8. /\ r \in Nat /\ u = f + r
        /\ SlideOf(Matches, box.x1 + f, box.y1 + (f - k), n - f, m - (f - k), r)
    BY <1>6, <2>7
  <2> HIDE DEF r, u, n, m
  <2>9. Furthest(Matches, box.x1, box.y1, n, m, f + r, k, d)
    BY <1>1, <1>2, <1>8, <2>2, <2>5, <2>6, <2>7, <2>8, FurthestNext
  <2> QED
    BY <2>8, <2>9 DEF n, m, u
<1> QED
  BY <1>7, <1>8

\* A slide backwards is one forwards in the mirror.
LEMMA MirroredSlide ==
  ASSUME NEW M, M \subseteq Int \X Int, NEW x \in Int, NEW y \in Int, NEW n \in Int, NEW m \in Int,
         NEW r \in Nat,
         \A i \in 1..r : <<x - i, y - i>> \in M,
         r < n /\ r < m => <<x - r - 1, y - r - 1>> \notin M
  PROVE  SlideOf(Mirror(M), -y, -x, m, n, r)
<1>1. ASSUME NEW i \in Nat
      PROVE  <<-y + i, -x + i>> \in Mirror(M) <=> <<x - (i + 1), y - (i + 1)>> \in M
  <2>1. PICK p \in Int, q \in Int : p = x - (i + 1) /\ q = y - (i + 1)
    OBVIOUS
  <2>2. <<-1 - q, -1 - p>> \in Mirror(M) <=> <<p, q>> \in M
    BY Mirrored
  <2>3. -1 - q = -y + i /\ -1 - p = -x + i
    BY <2>1
  <2> QED
    BY <2>1, <2>2, <2>3
<1>2. \A i \in 0..(r - 1) : <<-y + i, -x + i>> \in Mirror(M)
  <2> SUFFICES ASSUME NEW i \in 0..(r - 1)
               PROVE  <<-y + i, -x + i>> \in Mirror(M)
    OBVIOUS
  <2>1. i \in Nat /\ i + 1 \in 1..r
    OBVIOUS
  <2>2. <<x - (i + 1), y - (i + 1)>> \in M
    BY <2>1
  <2> QED
    BY <1>1, <2>1, <2>2
<1>3. r < m /\ r < n => <<-y + r, -x + r>> \notin Mirror(M)
  <2>1. x - (r + 1) = x - r - 1 /\ y - (r + 1) = y - r - 1
    OBVIOUS
  <2> QED
    BY <1>1, <2>1
<1> QED
  BY <1>2, <1>3 DEF SlideOf

\* The same backwards.
LEMMA BackwardFurthest ==
  ASSUME NEW box, Trim(box), NEW bv \in Memory, NEW F, NEW d, NEW k,
         Searching(F, Bck(box, bv), Width(box), Height(box), "backward", d, k),
         d # 0 => FarBack(Matches, box, Bck(box, bv), d - 1, -d - 1)
  PROVE  Furthest(Mirror(Matches), -box.y2, -box.x2, Height(box), Width(box),
                  box.y2 - BckTo(box, bv, d, k), k, d)
<1> DEFINE n == Width(box)
           m == Height(box)
           sl == Slack(n, m)
           M == Mirror(Matches)
           B == Bck(box, bv)
           h == Delta(box) + Half(box)
           from == BckFrom(box, bv, d, k)
           x == Column(box, k + Delta(box), from)
           r == Behind(x, from, box)
           y == BckTo(box, bv, d, k)
           w == box.y2 - y
           f == box.y2 - from
<1>1. /\ box.x1 \in Int /\ box.y1 \in Int /\ box.x2 \in Int /\ box.y2 \in Int
      /\ n \in Int /\ n >= 1 /\ n = box.x2 - box.x1
      /\ m \in Int /\ m >= 1 /\ m = box.y2 - box.y1
      /\ Half(box) \in Int /\ Delta(box) = n - m /\ h \in Int
      /\ box \in Boxes
  BY Sides DEF Trim
<1>2. /\ d \in Nat /\ k \in Lanes(d) /\ k \in Int
      /\ BackwardOK(F, B, n, m, d, k)
  BY DEF Searching, Lanes
<1>3. y = from - r
  BY DEF BckTo
<1>4. ASSUME NEW j \in Int, B[j] >= 0
      PROVE  bv[j + h] \in Int /\ bv[j + h] = box.y2 - B[j]
  <2>1. /\ bv[j + Delta(box) + Half(box)] \in Int
        /\ bv[j + Delta(box) + Half(box)] = box.y2 - B[j]
    BY <1>1, <1>4, BckPoint
  <2>2. j + Delta(box) + Half(box) = j + h
    BY <1>1
  <2> QED
    BY <2>1, <2>2
<1>5. k + Delta(box) + Half(box) = k + h
  BY <1>1, <1>2
<1> HIDE DEF h
<1>6. from = IF k = -d \/ (k # d /\ bv[k + h - 1] > bv[k + h + 1])
             THEN bv[k + h + 1] ELSE bv[k + h - 1] - 1
  BY <1>1, <1>2, <1>5 DEF BckFrom
<1>7. x = from - box.y1 + (k + (n - m)) + box.x1
  BY <1>1 DEF Column
<1>8. d # 0 => FarBack(Matches, box, B, d - 1, -d - 1)
  OBVIOUS
<1> HIDE DEF n, m, B, sl, from, x, y
<1>9. ASSUME from \in Int
      PROVE  /\ r \in Nat /\ w = f + r /\ f \in Int
             /\ SlideOf(M, -box.y2 + f, -box.x2 + (f - k), m - f, n - (f - k), r)
  <2>1. x \in Int
    BY <1>1, <1>2, <1>7, <1>9
  <2>2. /\ r \in Nat
        /\ x - r > box.x1 /\ from - r > box.y1 => ~Same(x - r - 1, from - r - 1)
        /\ \A i \in 1..r : Same(x - i, from - i)
    BY <1>1, <1>9, <2>1, BehindSlides
  <2> HIDE DEF r
  <2>3. /\ w = f + r /\ f \in Int /\ -box.y2 + f = -from /\ -box.x2 + (f - k) = -x
        /\ m - f = from - box.y1 /\ n - (f - k) = x - box.x1
    BY <1>1, <1>2, <1>3, <1>7, <1>9, <2>1, <2>2
  <2>4. \A i \in 1..r : <<x - i, from - i>> \in Matches
    <3> SUFFICES ASSUME NEW i \in 1..r
                 PROVE  <<x - i, from - i>> \in Matches
      OBVIOUS
    <3>1. x - i \in Int /\ from - i \in Int /\ Same(x - i, from - i)
      BY <1>9, <2>1, <2>2
    <3> QED
      BY <3>1, MatchesAre
  <2>5. r < x - box.x1 /\ r < from - box.y1 => <<x - r - 1, from - r - 1>> \notin Matches
    <3> SUFFICES ASSUME r < x - box.x1, r < from - box.y1
                 PROVE  <<x - r - 1, from - r - 1>> \notin Matches
      OBVIOUS
    <3>1. /\ x - r - 1 \in Int /\ from - r - 1 \in Int
          /\ x - r > box.x1 /\ from - r > box.y1
      BY <1>1, <1>9, <2>1, <2>2
    <3> QED
      BY <2>2, <3>1, MatchesAre
  <2>6. SlideOf(M, -from, -x, from - box.y1, x - box.x1, r)
    <3>1. from - box.y1 \in Int /\ x - box.x1 \in Int
      BY <1>1, <1>9, <2>1
    <3> QED
      BY <1>9, <2>1, <2>2, <2>4, <2>5, <3>1, MatchesAre, MirroredSlide
  <2> QED
    BY <2>2, <2>3, <2>6
<1>10. -box.y2 \in Int /\ -box.x2 \in Int
  BY <1>1
<1>11. CASE d = 0
  <2>1. k = 0 /\ k = -d
    BY <1>2, <1>11, OneLane
  <2>2. B[1] = 0
    BY <1>2, <1>11 DEF BackwardOK
  <2>3. from = box.y2
    <3>1. bv[1 + h] = box.y2
      BY <1>1, <1>4, <2>2
    <3>2. k + h + 1 = 1 + h
      BY <1>1, <2>1
    <3> QED
      BY <1>6, <2>1, <3>1, <3>2
  <2>4. from \in Int /\ f = 0
    BY <1>1, <2>3
  <2> HIDE DEF f
  <2>5. /\ r \in Nat /\ w = f + r
        /\ SlideOf(M, -box.y2 + f, -box.x2 + (f - k), m - f, n - (f - k), r)
    BY <1>9, <2>4
  <2> HIDE DEF r, w
  <2>6. /\ -box.y2 + f = -box.y2 /\ -box.x2 + (f - k) = -box.x2
        /\ m - f = m /\ n - (f - k) = n /\ f + r = r
    BY <1>1, <2>1, <2>4, <2>5
  <2>7. SlideOf(M, -box.y2, -box.x2, m, n, r)
    BY <2>5, <2>6
  <2> HIDE DEF M
  <2>8. Furthest(M, -box.y2, -box.x2, m, n, r, 0, 0)
    BY <1>1, <1>10, <2>5, <2>7, FurthestFirst
  <2> QED
    BY <1>11, <2>1, <2>5, <2>6, <2>8 DEF n, m, w, M, y
<1>12. CASE d # 0
  <2>1. Frontier(B, d - 1, m, n, sl)
    BY <1>2, <1>12 DEF BackwardOK, sl
  <2>2. /\ -d <= k /\ k <= d
        /\ k < d => k + 1 \in Lanes(d - 1)
        /\ k > -d => k - 1 \in Lanes(d - 1)
    BY <1>2, LaneNeighbours
  <2>3. ASSUME NEW j \in Lanes(d - 1)
        PROVE  /\ B[j] \in Nat /\ bv[j + h] \in Int /\ bv[j + h] = box.y2 - B[j]
               /\ Furthest(M, -box.y2, -box.x2, m, n, B[j], j, d - 1)
    <3>1. j \in Int /\ B[j] \in Int /\ B[j] >= 0 /\ j > -d - 1
      BY <1>2, <1>12, <2>1 DEF Frontier, Fresh, Lanes
    <3>2. Furthest(M, -box.y2, -box.x2, m, n, B[j], j, d - 1)
      BY <1>8, <1>12, <3>1 DEF FarBack, Far, n, m
    <3> QED
      BY <1>4, <3>1, <3>2
  <2>4. k + h + 1 = (k + 1) + h /\ k + h - 1 = (k - 1) + h
    BY <1>1, <1>2
  <2>5. k < d => /\ B[k + 1] \in Nat /\ bv[k + h + 1] \in Int /\ bv[k + h + 1] = box.y2 - B[k + 1]
                 /\ Furthest(M, -box.y2, -box.x2, m, n, B[k + 1], k + 1, d - 1)
    BY <2>2, <2>3, <2>4
  <2>6. -d < k => /\ B[k - 1] \in Nat /\ bv[k + h - 1] \in Int /\ bv[k + h - 1] = box.y2 - B[k - 1]
                  /\ Furthest(M, -box.y2, -box.x2, m, n, B[k - 1], k - 1, d - 1)
    BY <2>2, <2>3, <2>4
  <2>7. /\ from \in Int
        /\ f = IF k = -d \/ (k # d /\ B[k - 1] < B[k + 1]) THEN B[k + 1] ELSE B[k - 1] + 1
    BY <1>1, <1>2, <1>6, <1>12, <2>2, <2>5, <2>6
  <2> HIDE DEF f
  <2>8. /\ r \in Nat /\ w = f + r
        /\ SlideOf(M, -box.y2 + f, -box.x2 + (f - k), m - f, n - (f - k), r)
    BY <1>9, <2>7
  <2> HIDE DEF r, w, M
  <2>9. Furthest(M, -box.y2, -box.x2, m, n, f + r, k, d)
    BY <1>1, <1>2, <1>10, <1>12, <2>2, <2>5, <2>6, <2>7, <2>8, FurthestNext
  <2> QED
    BY <2>8, <2>9 DEF n, m, w, M, y
<1> QED
  BY <1>11, <1>12

-----------------------------------------------------------------------------
(* The searches go on *)

\* On the diagonals above k that both searches have visited they have not met.
ApartAhead(F, B, n, m, d, k) ==
  \A j \in Lanes(d) :
    j > k /\ j - (n - m) \in Lanes(d - 1) => F[j] + B[j - (n - m)] < m + j

ApartBack(F, B, n, m, d, k) ==
  \A j \in Lanes(d) :
    j > k /\ j + (n - m) \in Lanes(d) => F[j + (n - m)] + B[j] < n + j

\* No way of e lines leads from one end of a box to the other.
Unreached(M, box, e) == ~Walk(M, box.x1, box.y1, box.x2, box.y2, e)

\* The first loop is at diagonal k of distance d: the points that it has come to
\* and those of distance d - 1, in both directions, are the furthest, and a script
\* that is as short as the searches have come so far there is none.
ForwardFar(M, box, F, B, d, k) ==
  /\ d # 0 => FarAhead(M, box, F, d - 1, -d - 1) /\ FarBack(M, box, B, d - 1, -d - 1)
  /\ FarAhead(M, box, F, d, k)
  /\ Odd(Width(box), Height(box)) => ApartAhead(F, B, Width(box), Height(box), d, k)
  /\ Unreached(M, box, IF Odd(Width(box), Height(box)) THEN 2 * d - 3 ELSE 2 * d - 2)

\* The second loop is: the way forward is complete at distance d.
BackwardFar(M, box, F, B, d, k) ==
  /\ FarAhead(M, box, F, d, -d - 2)
  /\ d # 0 => FarBack(M, box, B, d - 1, -d - 1)
  /\ FarBack(M, box, B, d, k)
  /\ ~Odd(Width(box), Height(box)) => ApartBack(F, B, Width(box), Height(box), d, k)
  /\ Unreached(M, box, IF Odd(Width(box), Height(box)) THEN 2 * d - 1 ELSE 2 * d - 2)

\* One diagonal more is visited.
LEMMA FarNext ==
  ASSUME NEW M, NEW x0, NEW y0, NEW n, NEW m, NEW d \in Nat, NEW k \in Lanes(d),
         NEW U, NEW V, \A j \in Int : j # k => V[j] = U[j]
  PROVE  /\ Far(M, x0, y0, n, m, U, d, k) /\ Furthest(M, x0, y0, n, m, V[k], k, d)
              => Far(M, x0, y0, n, m, V, d, k - 2)
         /\ d # 0 => \A l : Far(M, x0, y0, n, m, U, d - 1, l) => Far(M, x0, y0, n, m, V, d - 1, l)
<1>1. ASSUME Far(M, x0, y0, n, m, U, d, k), Furthest(M, x0, y0, n, m, V[k], k, d),
             NEW j \in Lanes(d), j > k - 2
      PROVE  Furthest(M, x0, y0, n, m, V[j], j, d)
  <2>1. j \in Int /\ (j = k \/ j > k) /\ k \in Int
    BY <1>1, LaneOrder DEF Lanes
  <2>2. CASE j = k
    BY <1>1, <2>2
  <2>3. CASE j > k
    <3>1. V[j] = U[j]
      BY <2>1, <2>3
    <3> QED
      BY <1>1, <2>3, <3>1 DEF Far
  <2> QED
    BY <2>1, <2>2, <2>3
<1>2. ASSUME d # 0
      PROVE  \A j \in Lanes(d - 1) : V[j] = U[j]
  BY <1>2, LaneOrder
<1> QED
  BY <1>1, <1>2 DEF Far

\* There, too, the searches have not met.
LEMMA ApartAheadNext ==
  ASSUME NEW n \in Int, NEW m \in Int, NEW d \in Nat, NEW k \in Lanes(d),
         NEW U, NEW V \in [Int -> Int], NEW B \in [Int -> Int],
         \A j \in Int : j # k => V[j] = U[j],
         ApartAhead(U, B, n, m, d, k),
         ~(k - (n - m) \in (1 - d)..(d - 1) /\ V[k] + B[k - (n - m)] >= m + k)
  PROVE  ApartAhead(V, B, n, m, d, k - 2)
<1> SUFFICES ASSUME NEW j \in Lanes(d), j > k - 2, j - (n - m) \in Lanes(d - 1)
             PROVE  V[j] + B[j - (n - m)] < m + j
  BY DEF ApartAhead
<1>1. j \in Int /\ (j = k \/ j > k) /\ k \in Int
  BY LaneOrder DEF Lanes
<1>2. CASE j = k
  <2>1. k - (n - m) \in (1 - d)..(d - 1) /\ k - (n - m) \in Int
    BY <1>1, <1>2 DEF Lanes
  <2>2. V[k] \in Int /\ B[k - (n - m)] \in Int
    BY <1>1, <2>1
  <2> QED
    BY <1>1, <1>2, <2>1, <2>2
<1>3. CASE j > k
  <2>1. V[j] = U[j]
    BY <1>1, <1>3
  <2> QED
    BY <1>3, <2>1 DEF ApartAhead
<1> QED
  BY <1>1, <1>2, <1>3

\* The same for the way back.
LEMMA ApartBackNext ==
  ASSUME NEW n \in Int, NEW m \in Int, NEW d \in Nat, NEW k \in Lanes(d),
         NEW U, NEW V \in [Int -> Int], NEW F \in [Int -> Int],
         \A j \in Int : j # k => V[j] = U[j],
         ApartBack(F, U, n, m, d, k),
         ~(k + (n - m) \in (-d)..d /\ F[k + (n - m)] + V[k] >= n + k)
  PROVE  ApartBack(F, V, n, m, d, k - 2)
<1> SUFFICES ASSUME NEW j \in Lanes(d), j > k - 2, j + (n - m) \in Lanes(d)
             PROVE  F[j + (n - m)] + V[j] < n + j
  BY DEF ApartBack
<1>1. j \in Int /\ (j = k \/ j > k) /\ k \in Int
  BY LaneOrder DEF Lanes
<1>2. CASE j = k
  <2>1. k + (n - m) \in (-d)..d /\ k + (n - m) \in Int
    BY <1>1, <1>2 DEF Lanes
  <2>2. V[k] \in Int /\ F[k + (n - m)] \in Int
    BY <1>1, <2>1
  <2> QED
    BY <1>1, <1>2, <2>1, <2>2
<1>3. CASE j > k
  <2>1. V[j] = U[j]
    BY <1>1, <1>3
  <2> QED
    BY <1>3, <2>1 DEF ApartBack
<1> QED
  BY <1>1, <1>2, <1>3

\* When both searches have all their points and have not met, a way of as many lines
\* as they have gone does not lead from end to end.
LEMMA FarUnreached ==
  ASSUME NEW M, M \subseteq Int \X Int, NEW box, Trim(box),
         NEW d \in Nat, NEW f \in Nat, NEW F \in [Int -> Int], NEW B \in [Int -> Int],
         FarAhead(M, box, F, d, -d - 2), FarBack(M, box, B, f, -f - 2),
         \A j \in Lanes(d) : j - (Width(box) - Height(box)) \in Lanes(f)
           => F[j] + B[j - (Width(box) - Height(box))] < Height(box) + j
  PROVE  Unreached(M, box, d + f)
<1> DEFINE n == Width(box)
           m == Height(box)
<1>1. /\ box.x1 \in Int /\ box.y1 \in Int /\ box.x2 \in Int /\ box.y2 \in Int
      /\ n \in Int /\ n >= 1 /\ n = box.x2 - box.x1
      /\ m \in Int /\ m >= 1 /\ m = box.y2 - box.y1
  BY Sides DEF Trim
<1>2. box.x1 + n = box.x2 /\ box.y1 + m = box.y2
  BY <1>1
<1>3. \A j \in Lanes(d) : Furthest(M, box.x1, box.y1, n, m, F[j], j, d)
  <2>1. \A j \in Lanes(d) : j > -d - 2
    BY DEF Lanes
  <2> QED
    BY <2>1 DEF FarAhead, Far
<1>4. \A j \in Lanes(f) : Furthest(Mirror(M), -(box.y1 + m), -(box.x1 + n), m, n, B[j], j, f)
  <2>1. \A j \in Lanes(f) : j > -f - 2
    BY DEF Lanes
  <2>2. \A j \in Lanes(f) : Furthest(Mirror(M), -box.y2, -box.x2, m, n, B[j], j, f)
    BY <2>1 DEF FarBack, Far
  <2> QED
    BY <1>2, <2>2
<1>5. \A j \in Lanes(d) : j - (n - m) \in Lanes(f) => F[j] + B[j - (n - m)] < m + j
  OBVIOUS
<1> HIDE DEF n, m
<1>6. ~Walk(M, box.x1, box.y1, box.x1 + n, box.y1 + m, d + f)
  BY <1>1, <1>3, <1>4, <1>5, NotYet
<1> QED
  BY <1>2, <1>6 DEF Unreached

\* Nothing is left of a distance above its last diagonal.
LEMMA NoneAbove ==
  ASSUME NEW M, NEW d \in Nat, NEW U
  PROVE  /\ \A x0, y0, n, m : Far(M, x0, y0, n, m, U, d, d)
         /\ \A F, n, m : ApartAhead(F, U, n, m, d, d) /\ ApartBack(F, U, n, m, d, d)
<1>1. \A j \in Lanes(d) : ~(j > d)
  BY DEF Lanes
<1> QED
  BY <1>1 DEF Far, ApartAhead, ApartBack

\* The first loop goes on to the next diagonal, or the second one begins.
LEMMA ForwardFarStep ==
  ASSUME NEW M, M \subseteq Int \X Int, NEW box, Trim(box), NEW d \in Nat, NEW k \in Lanes(d),
         NEW U, NEW V \in [Int -> Int], NEW B \in [Int -> Int],
         ForwardFar(M, box, U, B, d, k),
         \A j \in Int : j # k => V[j] = U[j],
         Furthest(M, box.x1, box.y1, Width(box), Height(box), V[k], k, d),
         ~ /\ Odd(Width(box), Height(box))
           /\ k - (Width(box) - Height(box)) \in (1 - d)..(d - 1)
           /\ V[k] + B[k - (Width(box) - Height(box))] >= Height(box) + k
  PROVE  /\ k # -d => ForwardFar(M, box, V, B, d, k - 2)
         /\ k = -d => BackwardFar(M, box, V, B, d, d)
<1> DEFINE n == Width(box)
           m == Height(box)
<1>1. n \in Int /\ m \in Int
  BY Sides DEF Trim
<1>2. /\ FarAhead(M, box, V, d, k - 2)
      /\ d # 0 => FarAhead(M, box, V, d - 1, -d - 1) /\ FarBack(M, box, B, d - 1, -d - 1)
  <2>1. FarAhead(M, box, U, d, k) /\ (d # 0 => FarAhead(M, box, U, d - 1, -d - 1))
    BY DEF ForwardFar
  <2>2. Far(M, box.x1, box.y1, n, m, V, d, k - 2)
    BY <2>1, FarNext DEF FarAhead
  <2>3. d # 0 => Far(M, box.x1, box.y1, n, m, V, d - 1, -d - 1)
    BY <2>1, FarNext DEF FarAhead
  <2> QED
    BY <2>2, <2>3 DEF FarAhead, ForwardFar
<1>3. Odd(n, m) => ApartAhead(V, B, n, m, d, k - 2)
  <2> SUFFICES ASSUME Odd(n, m)
               PROVE  ApartAhead(V, B, n, m, d, k - 2)
    OBVIOUS
  <2>1. ApartAhead(U, B, n, m, d, k)
    BY DEF ForwardFar
  <2>2. ~(k - (n - m) \in (1 - d)..(d - 1) /\ V[k] + B[k - (n - m)] >= m + k)
    OBVIOUS
  <2> HIDE DEF n, m
  <2> QED
    BY <1>1, <2>1, <2>2, ApartAheadNext
<1>4. Unreached(M, box, IF Odd(n, m) THEN 2 * d - 3 ELSE 2 * d - 2)
  BY DEF ForwardFar
<1>5. CASE k # -d
  BY <1>2, <1>3, <1>4, <1>5 DEF ForwardFar
<1>6. CASE k = -d
  <2>1. FarAhead(M, box, V, d, -d - 2)
    BY <1>2, <1>6
  <2>2. Odd(n, m) => Unreached(M, box, 2 * d - 1)
    <3> SUFFICES ASSUME Odd(n, m)
                 PROVE  Unreached(M, box, 2 * d - 1)
      OBVIOUS
    <3>1. CASE d = 0
      <4>1. 2 * d - 1 \notin Nat
        BY <3>1
      <4> QED
        BY <4>1, WalkType DEF Unreached
    <3>2. CASE d # 0
      <4>1. PICK f \in Nat : f = d - 1
        BY <3>2
      <4>2. -f - 2 = -d - 1 /\ d + f = 2 * d - 1
        BY <4>1
      <4>3. FarBack(M, box, B, f, -f - 2)
        BY <1>2, <3>2, <4>1, <4>2
      <4>4. \A j \in Lanes(d) : j - (n - m) \in Lanes(f) => V[j] + B[j - (n - m)] < m + j
        <5>1. ApartAhead(V, B, n, m, d, -d - 2)
          BY <1>3, <1>6
        <5>2. \A j \in Lanes(d) : j > -d - 2
          BY DEF Lanes
        <5> HIDE DEF n, m
        <5> QED
          BY <4>1, <5>1, <5>2 DEF ApartAhead
      <4>5. Unreached(M, box, d + f)
        BY <2>1, <4>3, <4>4, FarUnreached
      <4> QED
        BY <4>2, <4>5
    <3> QED
      BY <3>1, <3>2
  <2>3. FarBack(M, box, B, d, d) /\ ApartBack(V, B, n, m, d, d)
    BY NoneAbove DEF FarBack
  <2> QED
    BY <1>2, <1>4, <1>6, <2>1, <2>2, <2>3 DEF BackwardFar
<1> QED
  BY <1>5, <1>6

\* The second loop goes on, or the next distance begins.
LEMMA BackwardFarStep ==
  ASSUME NEW M, M \subseteq Int \X Int, NEW box, Trim(box), NEW d \in Nat, NEW k \in Lanes(d),
         NEW U, NEW V \in [Int -> Int], NEW F \in [Int -> Int],
         BackwardFar(M, box, F, U, d, k),
         \A j \in Int : j # k => V[j] = U[j],
         Furthest(Mirror(M), -box.y2, -box.x2, Height(box), Width(box), V[k], k, d),
         ~ /\ ~Odd(Width(box), Height(box))
           /\ k + (Width(box) - Height(box)) \in (-d)..d
           /\ F[k + (Width(box) - Height(box))] + V[k] >= Width(box) + k
  PROVE  /\ k # -d => BackwardFar(M, box, F, V, d, k - 2)
         /\ k = -d => ForwardFar(M, box, F, V, d + 1, d + 1)
<1> DEFINE n == Width(box)
           m == Height(box)
<1>1. n \in Int /\ m \in Int
  BY Sides DEF Trim
<1>2. /\ FarBack(M, box, V, d, k - 2)
      /\ d # 0 => FarBack(M, box, V, d - 1, -d - 1)
      /\ FarAhead(M, box, F, d, -d - 2)
  <2>1. /\ FarBack(M, box, U, d, k) /\ (d # 0 => FarBack(M, box, U, d - 1, -d - 1))
        /\ FarAhead(M, box, F, d, -d - 2)
    BY DEF BackwardFar
  <2>2. Far(Mirror(M), -box.y2, -box.x2, m, n, V, d, k - 2)
    BY <2>1, FarNext DEF FarBack
  <2>3. d # 0 => Far(Mirror(M), -box.y2, -box.x2, m, n, V, d - 1, -d - 1)
    BY <2>1, FarNext DEF FarBack
  <2> QED
    BY <2>1, <2>2, <2>3 DEF FarBack
<1>3. ~Odd(n, m) => ApartBack(F, V, n, m, d, k - 2)
  <2> SUFFICES ASSUME ~Odd(n, m)
               PROVE  ApartBack(F, V, n, m, d, k - 2)
    OBVIOUS
  <2>1. ApartBack(F, U, n, m, d, k)
    BY DEF BackwardFar
  <2>2. ~(k + (n - m) \in (-d)..d /\ F[k + (n - m)] + V[k] >= n + k)
    OBVIOUS
  <2> HIDE DEF n, m
  <2> QED
    BY <1>1, <2>1, <2>2, ApartBackNext
<1>4. Unreached(M, box, IF Odd(n, m) THEN 2 * d - 1 ELSE 2 * d - 2)
  BY DEF BackwardFar
<1>5. CASE k # -d
  BY <1>2, <1>3, <1>4, <1>5 DEF BackwardFar
<1>6. CASE k = -d
  <2>1. FarBack(M, box, V, d, -d - 2)
    BY <1>2, <1>6
  <2>2. ~Odd(n, m) => Unreached(M, box, 2 * d)
    <3> SUFFICES ASSUME ~Odd(n, m)
                 PROVE  Unreached(M, box, 2 * d)
      OBVIOUS
    <3>1. \A j \in Lanes(d) : j - (n - m) \in Lanes(d) => F[j] + V[j - (n - m)] < m + j
      <4>1. ApartBack(F, V, n, m, d, -d - 2)
        BY <1>3, <1>6
      <4> HIDE DEF n, m
      <4> SUFFICES ASSUME NEW j \in Lanes(d), j - (n - m) \in Lanes(d)
                   PROVE  F[j] + V[j - (n - m)] < m + j
        OBVIOUS
      <4>2. PICK l \in Int : l = j - (n - m)
        BY <1>1 DEF Lanes
      <4>3. j \in Int /\ l + (n - m) = j /\ n + l = m + j /\ l > -d - 2
        BY <1>1, <4>2 DEF Lanes
      <4>4. F[l + (n - m)] + V[l] < n + l
        BY <4>1, <4>2, <4>3 DEF ApartBack
      <4> QED
        BY <4>2, <4>3, <4>4
    <3>2. Unreached(M, box, d + d)
      BY <1>2, <2>1, <3>1, FarUnreached
    <3>3. d + d = 2 * d
      OBVIOUS
    <3> QED
      BY <3>2, <3>3
  <2>3. FarAhead(M, box, F, d + 1, d + 1) /\ ApartAhead(F, V, n, m, d + 1, d + 1)
    BY NoneAbove, d + 1 \in Nat DEF FarAhead
  <2>4. /\ (d + 1) - 1 = d /\ -(d + 1) - 1 = -d - 2
        /\ 2 * (d + 1) - 3 = 2 * d - 1 /\ 2 * (d + 1) - 2 = 2 * d
    OBVIOUS
  <2>5. /\ FarAhead(M, box, F, (d + 1) - 1, -(d + 1) - 1)
        /\ FarBack(M, box, V, (d + 1) - 1, -(d + 1) - 1)
    BY <1>2, <2>1, <2>4
  <2>6. Unreached(M, box, IF Odd(n, m) THEN 2 * (d + 1) - 3 ELSE 2 * (d + 1) - 2)
    BY <1>4, <2>2, <2>4
  <2> QED
    BY <1>6, <2>3, <2>5, <2>6 DEF ForwardFar
<1> QED
  BY <1>5, <1>6

\* At the start nothing has been visited.
LEMMA FarFirst ==
  ASSUME NEW M, NEW box, NEW F, NEW B
  PROVE  ForwardFar(M, box, F, B, 0, 0)
<1>1. FarAhead(M, box, F, 0, 0)
  BY NoneAbove, 0 \in Nat DEF FarAhead
<1>2. Unreached(M, box, -3) /\ Unreached(M, box, -2)
  <2>1. -3 \notin Nat /\ -2 \notin Nat
    OBVIOUS
  <2> QED
    BY <2>1, WalkType DEF Unreached
<1>3. ApartAhead(F, B, Width(box), Height(box), 0, 0)
  BY NoneAbove, 0 \in Nat
<1>4. 2 * 0 - 3 = -3 /\ 2 * 0 - 2 = -2
  OBVIOUS
<1> QED
  BY <1>1, <1>2, <1>3, <1>4 DEF ForwardFar

-----------------------------------------------------------------------------
(* The length of the script *)

\* The distance of the two ends of a box.
Between(M, box, e) == Distance(M, box.x1, box.y1, box.x2, box.y2, e)

\* A script that has s lines, when the boxes w wait, will have e: f counts the lines
\* after each of the boxes.
Counted(M, w, s, f, e) ==
  /\ f \in [0..Len(w) -> Int]
  /\ f[0] = s /\ f[Len(w)] = e
  /\ \A i \in 1..Len(w) : Between(M, w[i], f[i] - f[i - 1])

\* Two points have one distance.
LEMMA OneDistance ==
  ASSUME NEW M, NEW box, NEW e, NEW f, Between(M, box, e), Between(M, box, f)
  PROVE  e = f /\ e \in Nat
<1>1. e \in Nat /\ f \in Nat /\ e <= f /\ f <= e
  BY WalkType DEF Between, Distance
<1> QED
  BY <1>1

\* The first box.
LEMMA CountedFirst ==
  ASSUME NEW M, NEW S, NEW w \in Seq(S), w # <<>>, NEW s, NEW f, NEW e, Counted(M, w, s, f, e)
  PROVE  /\ Between(M, Head(w), f[1] - s)
         /\ s \in Int /\ f[1] \in Int
         /\ Len(w) \in Nat /\ 1 <= Len(w)
<1>1. Len(w) \in Nat /\ 1 <= Len(w) /\ Head(w) = w[1] /\ 1 - 1 = 0
  OBVIOUS
<1>2. 1 \in 1..Len(w) /\ 0 \in 0..Len(w) /\ 1 \in 0..Len(w)
  BY <1>1
<1> QED
  BY <1>1, <1>2 DEF Counted

\* It is printed.
LEMMA CountedTail ==
  ASSUME NEW M, NEW S, NEW w \in Seq(S), w # <<>>, NEW s, NEW f, NEW e, Counted(M, w, s, f, e),
         NEW g, Between(M, Head(w), g)
  PROVE  \E h : Counted(M, Tail(w), s + g, h, e)
<1>1. /\ Between(M, Head(w), f[1] - s)
      /\ s \in Int /\ f[1] \in Int
      /\ Len(w) \in Nat /\ 1 <= Len(w)
  BY CountedFirst
<1>2. s + g = f[1]
  <2>1. g = f[1] - s /\ g \in Nat
    BY <1>1, OneDistance
  <2> QED
    BY <1>1, <2>1
<1>3. /\ Len(Tail(w)) = Len(w) - 1
      /\ \A i \in 1..Len(Tail(w)) : Tail(w)[i] = w[i + 1]
  OBVIOUS
<1> DEFINE h == [i \in 0..Len(Tail(w)) |-> f[i + 1]]
<1>4. \A i \in 0..Len(Tail(w)) : i + 1 \in 0..Len(w) /\ f[i + 1] \in Int
  BY <1>1, <1>3 DEF Counted
<1>5. h \in [0..Len(Tail(w)) -> Int]
  BY <1>4
<1>6. h[0] = s + g /\ h[Len(Tail(w))] = e
  <2>1. 0 \in 0..Len(Tail(w)) /\ Len(Tail(w)) \in 0..Len(Tail(w)) /\ Len(Tail(w)) + 1 = Len(w)
    BY <1>1, <1>3
  <2>2. h[0] = f[0 + 1] /\ h[Len(Tail(w))] = f[Len(Tail(w)) + 1] /\ 0 + 1 = 1
    BY <2>1
  <2> QED
    BY <1>2, <2>1, <2>2 DEF Counted
<1>7. ASSUME NEW i \in 1..Len(Tail(w))
      PROVE  Between(M, Tail(w)[i], h[i] - h[i - 1])
  <2>1. /\ i + 1 \in 1..Len(w) /\ i \in 0..Len(Tail(w)) /\ i - 1 \in 0..Len(Tail(w))
        /\ (i - 1) + 1 = i /\ (i + 1) - 1 = i
    BY <1>1, <1>3
  <2>2. h[i] = f[i + 1] /\ h[i - 1] = f[i]
    BY <2>1
  <2>3. Between(M, w[i + 1], f[i + 1] - f[i])
    BY <2>1 DEF Counted
  <2> QED
    BY <1>3, <2>2, <2>3
<1> HIDE DEF h
<1>8. Counted(M, Tail(w), s + g, h, e)
  BY <1>5, <1>6, <1>7 DEF Counted
<1> QED
  BY <1>8

\* It is trimmed: it becomes another one with the same distance.
LEMMA CountedHead ==
  ASSUME NEW M, NEW S, NEW w \in Seq(S), w # <<>>, NEW s, NEW f, NEW e, Counted(M, w, s, f, e),
         NEW box \in S, \A g : Between(M, Head(w), g) => Between(M, box, g)
  PROVE  Counted(M, <<box>> \o Tail(w), s, f, e)
<1> DEFINE v == <<box>> \o Tail(w)
<1>1. /\ Between(M, Head(w), f[1] - s)
      /\ Len(w) \in Nat /\ 1 <= Len(w)
  BY CountedFirst
<1>2. /\ Len(v) = Len(w) /\ v[1] = box
      /\ \A i \in 2..Len(w) : v[i] = w[i]
  <2>1. /\ Tail(w) \in Seq(S) /\ Len(Tail(w)) = Len(w) - 1
        /\ \A i \in 1..Len(Tail(w)) : Tail(w)[i] = w[i + 1]
    OBVIOUS
  <2>2. <<box>> \in Seq(S) /\ Len(<<box>>) = 1 /\ <<box>>[1] = box
    OBVIOUS
  <2> QED
    BY <1>1, <2>1, <2>2
<1> HIDE DEF v
<1>3. ASSUME NEW i \in 1..Len(w)
      PROVE  Between(M, v[i], f[i] - f[i - 1])
  <2>1. CASE i = 1
    BY <1>1, <1>2, <2>1 DEF Counted
  <2>2. CASE i # 1
    BY <1>1, <1>2, <2>2 DEF Counted
  <2> QED
    BY <2>1, <2>2
<1>4. Counted(M, v, s, f, e)
  BY <1>2, <1>3 DEF Counted
<1> QED
  BY <1>4 DEF v

\* It is split into two.
LEMMA CountedSplit ==
  ASSUME NEW M, NEW S, NEW w \in Seq(S), w # <<>>, NEW s, NEW f, NEW e, Counted(M, w, s, f, e),
         NEW p \in S, NEW q \in S, NEW g \in Int, NEW h \in Int,
         Between(M, p, g), Between(M, q, h), Between(M, Head(w), g + h)
  PROVE  \E c : Counted(M, <<p, q>> \o Tail(w), s, c, e)
<1> DEFINE v == <<p, q>> \o Tail(w)
           c == [i \in 0..(Len(w) + 1) |-> IF i = 0 THEN s ELSE IF i = 1 THEN s + g ELSE f[i - 1]]
<1>1. /\ Between(M, Head(w), f[1] - s)
      /\ s \in Int /\ f[1] \in Int
      /\ Len(w) \in Nat /\ 1 <= Len(w)
  BY CountedFirst
<1>2. f[1] - (s + g) = h
  <2>1. g + h = f[1] - s
    BY <1>1, OneDistance
  <2> QED
    BY <1>1, <2>1
<1>3. /\ Len(v) = Len(w) + 1
      /\ v[1] = p /\ v[2] = q
      /\ \A i \in 3..Len(v) : v[i] = w[i - 1]
  BY SplitSequence
<1> HIDE DEF v
<1>4. c \in [0..Len(v) -> Int]
  <2>1. \A i \in 0..(Len(w) + 1) : i # 0 => i - 1 \in 0..Len(w) /\ f[i - 1] \in Int
    <3>1. f \in [0..Len(w) -> Int]
      BY DEF Counted
    <3>2. ASSUME NEW i \in 0..(Len(w) + 1), i # 0
          PROVE  i - 1 \in 0..Len(w)
      BY <1>1, <3>2
    <3> QED
      BY <3>1, <3>2
  <2> QED
    BY <1>1, <1>3, <2>1
<1>5. /\ c[0] = s /\ c[1] = s + g
      /\ \A i \in 2..Len(v) : c[i] = f[i - 1]
  BY <1>1, <1>3
<1> HIDE DEF c
<1>6. c[Len(v)] = e
  <2>1. Len(v) \in 2..Len(v) /\ Len(v) - 1 = Len(w)
    BY <1>1, <1>3
  <2> QED
    BY <1>5, <2>1 DEF Counted
<1>7. ASSUME NEW i \in 1..Len(v)
      PROVE  Between(M, v[i], c[i] - c[i - 1])
  <2>1. CASE i = 1
    <3>1. c[1] - c[0] = g /\ 1 - 1 = 0
      BY <1>1, <1>5
    <3> QED
      BY <1>3, <2>1, <3>1
  <2>2. CASE i = 2
    <3>1. c[2] = f[1] /\ 2 - 1 = 1
      <4>1. 2 \in 2..Len(v) /\ 2 - 1 = 1
        BY <1>1, <1>3
      <4> QED
        BY <1>5, <4>1
    <3>2. c[2] - c[1] = h
      BY <1>2, <1>5, <3>1
    <3> QED
      BY <1>3, <2>2, <3>1, <3>2
  <2>3. CASE i # 1 /\ i # 2
    <3>1. i \in 3..Len(v) /\ i \in 2..Len(v) /\ i - 1 \in 2..Len(v) /\ i - 1 \in 1..Len(w)
      BY <1>1, <1>3, <2>3
    <3>2. v[i] = w[i - 1] /\ c[i] = f[i - 1] /\ c[i - 1] = f[(i - 1) - 1]
      BY <1>3, <1>5, <3>1
    <3>3. Between(M, w[i - 1], f[i - 1] - f[(i - 1) - 1])
      BY <3>1 DEF Counted
    <3> QED
      BY <3>2, <3>3
  <2> QED
    BY <2>1, <2>2, <2>3
<1>8. Counted(M, v, s, c, e)
  BY <1>4, <1>5, <1>6, <1>7 DEF Counted
<1> QED
  BY <1>8 DEF v

\* The lines that a box adds to the script.
Entries == {"del", "add"} \X Int

\* They are as many as the two stretches of lines are long.
LEMMA EditsAre ==
  ASSUME NEW kind \in {"del", "add"}, NEW first \in Int, NEW end \in Int, first <= end
  PROVE  Edits(kind, first, end) \in Seq(Entries) /\ Len(Edits(kind, first, end)) = end - first
<1>1. PICK n \in Nat : n = end - first
  OBVIOUS
<1>2. \A i \in 1..n : <<kind, first + i - 1>> \in Entries
  <2> SUFFICES ASSUME NEW i \in 1..n
               PROVE  <<kind, first + i - 1>> \in Entries
    OBVIOUS
  <2>1. PICK x \in Int : x = first + i - 1
    OBVIOUS
  <2>2. <<kind, x>> \in Entries
    BY DEF Entries
  <2> QED
    BY <2>1, <2>2
<1>3. Edits(kind, first, end) = [i \in 1..n |-> <<kind, first + i - 1>>]
  BY <1>1 DEF Edits
<1> DEFINE q == [i \in 1..n |-> <<kind, first + i - 1>>]
<1>4. q \in [1..n -> Entries]
  BY <1>2
<1>5. q \in Seq(Entries) /\ Len(q) = n
  <2> HIDE DEF q
  <2> QED
    BY <1>4
<1> QED
  BY <1>1, <1>3, <1>5

-----------------------------------------------------------------------------
(* No script is shorter *)

\* The searches have come as far as they can.
FarOK ==
  LET box == Head(work) s == search
      F == Ahd(box, s.fv) B == Bck(box, s.bv) IN
  /\ phase = "search" /\ s.dir = "forward" => ForwardFar(Matches, box, F, B, s.d, s.k)
  /\ phase = "search" /\ s.dir = "backward" => BackwardFar(Matches, box, F, B, s.d, s.k)

\* The lines printed, and those that the boxes that wait are sure to add, are as many
\* as the least that lead from one text to the other.
ScriptOK ==
  /\ script \in Seq(Entries)
  /\ \E f, e : /\ Distance(Matches, 0, 0, Len(a), Len(b), e)
               /\ Counted(Matches, work, Len(script), f, e)

ShortInv == DInv /\ FarOK /\ ScriptOK

\* The points of a search are numbers.
LEMMA PointTypes ==
  ASSUME NEW box \in Boxes, NEW v \in Memory
  PROVE  Ahd(box, v) \in [Int -> Int] /\ Bck(box, v) \in [Int -> Int]
<1>1. box.x1 \in Int /\ box.y2 \in Int /\ \A i \in DOMAIN v : v[i] \in Int
  BY MemoryParts DEF Boxes
<1> QED
  BY <1>1 DEF Ahd, Bck

\* The texts do not change, and so the lines in common do not.
LEMMA SameMatches ==
  ASSUME UNCHANGED <<a, b>>
  PROVE  Matches' = Matches
BY DEF Matches, Same

\* One diagonal forwards.
LEMMA ForwardKeepsFar ==
  ASSUME DInv, FarOK, ForwardOn
  PROVE  FarOK'
<1> DEFINE box == Head(work)
           s == search
           t == search'
           n == Width(box)
           m == Height(box)
           x == FwdTo(box, s.fv, s.d, s.k)
           U == Ahd(box, s.fv)
           V == Ahd(box, t.fv)
           B == Bck(box, s.bv)
<1>1. phase = "search" /\ s.dir = "forward" /\ UNCHANGED <<a, b>>
  BY DEF ForwardOn
<1>2. /\ Trim(box) /\ box \in Boxes
      /\ s.fv \in Memory /\ s.bv \in Memory /\ s.d \in Nat /\ s.k \in Lanes(s.d)
      /\ Searching(U, B, n, m, "forward", s.d, s.k)
  BY <1>1, SearchParts
<1>3. /\ V[s.k] = x - box.x1
      /\ \A j \in Int : j # s.k => V[j] = U[j]
      /\ ~(Odd(n, m) /\ s.k - (n - m) \in (1 - s.d)..(s.d - 1)
           /\ V[s.k] + B[s.k - (n - m)] >= m + s.k)
  BY ForwardTurns
<1>4. /\ UNCHANGED <<work, phase>>
      /\ t \in Searches /\ t.bv = s.bv
      /\ \/ s.k # -s.d /\ t.dir = "forward" /\ t.d = s.d /\ t.k = s.k - 2
         \/ s.k = -s.d /\ t.dir = "backward" /\ t.d = s.d /\ t.k = s.d
  BY ForwardTurns
<1>5. ForwardFar(Matches, box, U, B, s.d, s.k)
  BY <1>1 DEF FarOK
<1>6. Furthest(Matches, box.x1, box.y1, n, m, V[s.k], s.k, s.d)
  <2>1. s.d # 0 => FarAhead(Matches, box, U, s.d - 1, -s.d - 1)
    BY <1>5 DEF ForwardFar
  <2>2. Furthest(Matches, box.x1, box.y1, n, m, x - box.x1, s.k, s.d)
    BY <1>2, <2>1, ForwardFurthest
  <2> QED
    BY <1>3, <2>2
<1>7. V \in [Int -> Int] /\ B \in [Int -> Int]
  <2>1. t.fv \in Memory
    BY <1>4 DEF Searches
  <2> QED
    BY <1>2, <2>1, PointTypes
<1> HIDE DEF U, V, B, x
<1>8. /\ s.k # -s.d => ForwardFar(Matches, box, V, B, s.d, s.k - 2)
      /\ s.k = -s.d => BackwardFar(Matches, box, V, B, s.d, s.d)
  BY <1>2, <1>3, <1>5, <1>6, <1>7, MatchesAre, ForwardFarStep
<1>9. /\ t.dir = "forward" => ForwardFar(Matches, box, V, B, t.d, t.k)
      /\ t.dir = "backward" => BackwardFar(Matches, box, V, B, t.d, t.k)
  BY <1>4, <1>8
<1>10. Head(work') = box /\ Matches' = Matches /\ Bck(box, t.bv) = B
  BY <1>1, <1>4, SameMatches DEF B
<1> QED
  BY <1>9, <1>10 DEF FarOK, V

\* One diagonal backwards.
LEMMA BackwardKeepsFar ==
  ASSUME DInv, FarOK, BackwardOn
  PROVE  FarOK'
<1> DEFINE box == Head(work)
           s == search
           t == search'
           n == Width(box)
           m == Height(box)
           y == BckTo(box, s.bv, s.d, s.k)
           new == Written(s.bv, s.k + Delta(box) + Half(box), y)
           F == Ahd(box, s.fv)
           U == Bck(box, s.bv)
           V == Bck(box, new)
<1>1. phase = "search" /\ s.dir = "backward" /\ UNCHANGED <<a, b>>
  BY DEF BackwardOn
<1>2. /\ Trim(box) /\ box \in Boxes
      /\ s.fv \in Memory /\ s.bv \in Memory /\ s.d \in Nat /\ s.k \in Lanes(s.d)
      /\ Searching(F, U, n, m, "backward", s.d, s.k)
  BY <1>1, SearchParts
<1>3. /\ V[s.k] = box.y2 - y
      /\ \A j \in Int : j # s.k => V[j] = U[j]
      /\ ~(~Odd(n, m) /\ s.k + (n - m) \in (-s.d)..s.d /\ F[s.k + (n - m)] + V[s.k] >= n + s.k)
      /\ new \in Memory
  BY BackwardTurns
<1>4. /\ UNCHANGED <<work, phase>>
      /\ t.fv = s.fv /\ t.bv = new
      /\ \/ s.k # -s.d /\ t.dir = "backward" /\ t.d = s.d /\ t.k = s.k - 2
         \/ s.k = -s.d /\ t.dir = "forward" /\ t.d = s.d + 1 /\ t.k = s.d + 1
  <2>1. phase' = "search"
    BY BackwardGoesOn
  <2> QED
    BY <2>1, BackwardTurns
<1>5. BackwardFar(Matches, box, F, U, s.d, s.k)
  BY <1>1 DEF FarOK
<1>6. Furthest(Mirror(Matches), -box.y2, -box.x2, m, n, V[s.k], s.k, s.d)
  <2>1. s.d # 0 => FarBack(Matches, box, U, s.d - 1, -s.d - 1)
    BY <1>5 DEF BackwardFar
  <2>2. Furthest(Mirror(Matches), -box.y2, -box.x2, m, n, box.y2 - y, s.k, s.d)
    BY <1>2, <2>1, BackwardFurthest
  <2> QED
    BY <1>3, <2>2
<1>7. V \in [Int -> Int] /\ F \in [Int -> Int]
  BY <1>2, <1>3, PointTypes
<1> HIDE DEF F, U, V, y, new
<1>8. /\ s.k # -s.d => BackwardFar(Matches, box, F, V, s.d, s.k - 2)
      /\ s.k = -s.d => ForwardFar(Matches, box, F, V, s.d + 1, s.d + 1)
  BY <1>2, <1>3, <1>5, <1>6, <1>7, MatchesAre, BackwardFarStep
<1>9. /\ t.dir = "forward" => ForwardFar(Matches, box, F, V, t.d, t.k)
      /\ t.dir = "backward" => BackwardFar(Matches, box, F, V, t.d, t.k)
  BY <1>4, <1>8
<1>10. Head(work') = box /\ Matches' = Matches /\ Ahd(box, t.fv) = F /\ Bck(box, t.bv) = V
  BY <1>1, <1>4, SameMatches DEF F, V
<1> QED
  BY <1>9, <1>10 DEF FarOK

\* What a furthest point says of the way to it, or from it.
LEMMA AheadWay ==
  ASSUME NEW M, NEW box, Trim(box), NEW u \in Int, NEW k \in Int, NEW d,
         Furthest(M, box.x1, box.y1, Width(box), Height(box), u, k, d),
         NEW x, x = box.x1 + u, x <= box.x2, NEW y, y = box.y1 + u - k, y <= box.y2
  PROVE  Walk(M, box.x1, box.y1, x, y, d)
<1>1. /\ box.x1 \in Int /\ box.y1 \in Int /\ box.x2 \in Int /\ box.y2 \in Int
      /\ Width(box) = box.x2 - box.x1 /\ Height(box) = box.y2 - box.y1
  BY Sides DEF Trim
<1>2. u <= Width(box) /\ u - k <= Height(box) /\ box.y1 + (u - k) = y
  BY <1>1
<1> QED
  BY <1>2 DEF Furthest

\* The same for the way back.
LEMMA BackWay ==
  ASSUME NEW M, M \subseteq Int \X Int, NEW box, Trim(box), NEW w \in Int, NEW k \in Int, NEW d,
         Furthest(Mirror(M), -box.y2, -box.x2, Height(box), Width(box), w, k, d),
         NEW y, y = box.y2 - w, box.y1 <= y, NEW x, x = box.x2 - (w - k), box.x1 <= x
  PROVE  Walk(M, x, y, box.x2, box.y2, d)
<1>1. /\ box.x1 \in Int /\ box.y1 \in Int /\ box.x2 \in Int /\ box.y2 \in Int
      /\ Width(box) = box.x2 - box.x1 /\ Height(box) = box.y2 - box.y1
  BY Sides DEF Trim
<1>2. /\ w <= Height(box) /\ w - k <= Width(box)
      /\ -box.y2 + w = -y /\ -box.x2 + (w - k) = -x /\ x \in Int /\ y \in Int
  BY <1>1
<1>3. Walk(Mirror(M), -box.y2, -box.x2, -y, -x, d)
  BY <1>2 DEF Furthest
<1> QED
  BY <1>1, <1>2, <1>3, BackAndForth

\* The head of the boxes that wait is split into two, where ways of d lines from its
\* start and of g lines from its end meet.
Met(x1, y1, x2, y2, d, g) ==
  LET box == Head(work) IN
  /\ work # <<>> /\ Trim(box)
  /\ Inside(box, x1, y1, x2, y2) /\ Split(x1, y1, x2, y2)
  /\ d \in Nat /\ g \in Nat /\ g <= d
  /\ Walk(Matches, box.x1, box.y1, x2, y2, d)
  /\ Walk(Matches, x1, y1, box.x2, box.y2, g)
  /\ Unreached(Matches, box, (d + g) - 2)

\* The distances of the parts add up to that of the whole.
LEMMA SplitDistances ==
  ASSUME DInv, NEW x1, NEW y1, NEW x2, NEW y2, NEW d, NEW g, Met(x1, y1, x2, y2, d, g)
  PROVE  LET box == Head(work)
             p == Box(box.x1, box.y1, x1, y1)
             q == Box(x2, y2, box.x2, box.y2) IN
         /\ work \in Seq(Boxes) /\ box \in Boxes /\ p \in Boxes /\ q \in Boxes
         /\ work' = <<p, q>> \o Tail(work)
         /\ Between(Matches, p, d) /\ Between(Matches, q, g)
         /\ Between(Matches, box, d + g)
<1> DEFINE box == Head(work)
           p == Box(box.x1, box.y1, x1, y1)
           q == Box(x2, y2, box.x2, box.y2)
<1>1. work \in Seq(Boxes) /\ box \in Boxes /\ d \in Nat /\ g \in Nat
  BY DEF DInv, TypeOK, Met
<1>2. /\ box.x1 \in Int /\ box.y1 \in Int /\ box.x2 \in Int /\ box.y2 \in Int
      /\ x1 \in Int /\ y1 \in Int /\ x2 \in Int /\ y2 \in Int
      /\ box.x1 <= x1 /\ x1 <= x2 /\ x2 <= box.x2
      /\ box.y1 <= y1 /\ y1 <= y2 /\ y2 <= box.y2
      /\ x2 - x1 = y2 - y1
  BY <1>1 DEF Met, Inside, Boxes
<1>3. /\ p \in Boxes /\ p.x1 = box.x1 /\ p.y1 = box.y1 /\ p.x2 = x1 /\ p.y2 = y1
      /\ q \in Boxes /\ q.x1 = x2 /\ q.y1 = y2 /\ q.x2 = box.x2 /\ q.y2 = box.y2
  BY <1>2 DEF Box, Boxes
<1>4. work' = <<p, q>> \o Tail(work)
  BY DEF Split, Met
<1>5. PICK r \in Nat : r = x2 - x1 /\ x1 + r = x2 /\ y1 + r = y2
  BY <1>2
<1>6. /\ Walk(Matches, box.x1, box.y1, x1 + r, y1 + r, d)
      /\ Walk(Matches, x1, y1, box.x2, box.y2, g)
      /\ ~Walk(Matches, box.x1, box.y1, box.x2, box.y2, (d + g) - 2)
  BY <1>5 DEF Unreached, Met
<1> HIDE DEF p, q, box
<1>7. /\ Distance(Matches, box.x1, box.y1, x1, y1, d)
      /\ Distance(Matches, x1 + r, y1 + r, box.x2, box.y2, g)
      /\ Distance(Matches, box.x1, box.y1, box.x2, box.y2, d + g)
  <2>1. x1 + r <= box.x2 /\ y1 + r <= box.y2
    BY <1>2, <1>5
  <2> QED
    BY <1>1, <1>2, <1>6, <2>1, MatchesAre, DistanceSplits
<1>8. Between(Matches, p, d) /\ Between(Matches, q, g) /\ Between(Matches, box, d + g)
  BY <1>3, <1>5, <1>7 DEF Between
<1> QED
  BY <1>1, <1>3, <1>4, <1>8 DEF p, q, box

\* The box is split where ways from both ends meet.
LEMMA SplitKeepsScript ==
  ASSUME DInv, ScriptOK, UNCHANGED <<a, b, script>>,
         NEW x1, NEW y1, NEW x2, NEW y2, NEW d, NEW g, Met(x1, y1, x2, y2, d, g)
  PROVE  ScriptOK'
<1> DEFINE box == Head(work)
           p == Box(box.x1, box.y1, x1, y1)
           q == Box(x2, y2, box.x2, box.y2)
<1>1. /\ work \in Seq(Boxes) /\ p \in Boxes /\ q \in Boxes
      /\ work' = <<p, q>> \o Tail(work)
      /\ Between(Matches, p, d) /\ Between(Matches, q, g)
      /\ Between(Matches, Head(work), d + g)
  BY SplitDistances
<1>2. work # <<>> /\ d \in Int /\ g \in Int
  BY DEF Met
<1> HIDE DEF p, q
<1>3. PICK f, e : /\ Distance(Matches, 0, 0, Len(a), Len(b), e)
                  /\ Counted(Matches, work, Len(script), f, e)
  BY DEF ScriptOK
<1>4. \E c : Counted(Matches, <<p, q>> \o Tail(work), Len(script), c, e)
  BY <1>1, <1>2, <1>3, CountedSplit
<1>5. \E c : Counted(Matches, work', Len(script), c, e)
  BY <1>1, <1>4
<1> QED
  BY <1>3, <1>5, SameMatches DEF ScriptOK

\* The next box is printed: it has as many lines as its ends are distant.
LEMMA EmitKeepsScript ==
  ASSUME DInv, ScriptOK, Emit
  PROVE  ScriptOK'
<1> DEFINE old == Head(work)
           box == Trimmed(old)
           gone == Edits("del", box.x1, box.x2)
           come == Edits("add", box.y1, box.y2)
<1>1. /\ work # <<>> /\ UNCHANGED <<a, b>> /\ work' = Tail(work)
      /\ box.x1 = box.x2 \/ box.y1 = box.y2
      /\ script' = script \o gone \o come
  BY DEF Emit, NextBox
<1>2. work \in Seq(Boxes) /\ old \in Boxes /\ old = work[1] /\ 1 \in DOMAIN work
  BY <1>1 DEF DInv, TypeOK
<1>3. old.x1 <= old.x2 /\ old.y1 <= old.y2
  BY <1>2, ChainedIs DEF DInv, InOrder
<1>4. PICK f, e : /\ Distance(Matches, 0, 0, Len(a), Len(b), e)
                  /\ Counted(Matches, work, Len(script), f, e)
  BY DEF ScriptOK
<1>5. PICK g : g = f[1] - Len(script)
  OBVIOUS
<1>6. Between(Matches, old, g)
  BY <1>1, <1>2, <1>4, <1>5, CountedFirst
<1>7. Distance(Matches, box.x1, box.y1, box.x2, box.y2, g)
  BY <1>2, <1>3, <1>6, TrimmedDistance DEF Between
<1>8. /\ box.x1 \in Int /\ box.y1 \in Int /\ box.x2 \in Int /\ box.y2 \in Int
      /\ box.x1 <= box.x2 /\ box.y1 <= box.y2
  BY <1>2, <1>3, Trims DEF Boxes
<1> HIDE DEF box
<1>9. g = (box.x2 - box.x1) + (box.y2 - box.y1)
  BY <1>1, <1>7, <1>8, OneSide
<1>10. /\ gone \in Seq(Entries) /\ Len(gone) = box.x2 - box.x1
       /\ come \in Seq(Entries) /\ Len(come) = box.y2 - box.y1
  BY <1>8, EditsAre
<1> HIDE DEF gone, come
<1>11. script' \in Seq(Entries) /\ Len(script') = Len(script) + g
  <2>1. script \in Seq(Entries)
    BY DEF ScriptOK
  <2>2. PICK q : q = script \o gone
    OBVIOUS
  <2>3. q \in Seq(Entries) /\ Len(q) = Len(script) + Len(gone)
    BY <1>10, <2>1, <2>2
  <2>4. q \o come \in Seq(Entries) /\ Len(q \o come) = Len(q) + Len(come)
    BY <1>10, <2>3
  <2>5. Len(script) \in Nat /\ script' = q \o come
    BY <1>1, <2>1, <2>2
  <2> QED
    BY <1>8, <1>9, <1>10, <2>3, <2>4, <2>5
<1>12. \E h : Counted(Matches, Tail(work), Len(script) + g, h, e)
  BY <1>1, <1>2, <1>4, <1>6, CountedTail
<1> QED
  BY <1>1, <1>4, <1>11, <1>12, SameMatches DEF ScriptOK

\* The next box is searched, without the lines in common at its ends.
LEMMA StartSearchKeepsScript ==
  ASSUME DInv, ScriptOK, StartSearch
  PROVE  ScriptOK'
<1> DEFINE old == Head(work)
           box == Trimmed(old)
<1>1. /\ work # <<>> /\ UNCHANGED <<a, b, script>>
      /\ work' = <<box>> \o Tail(work)
  BY DEF StartSearch, NextBox
<1>2. work \in Seq(Boxes) /\ old \in Boxes /\ old = work[1] /\ 1 \in DOMAIN work
  BY <1>1 DEF DInv, TypeOK
<1>3. old.x1 <= old.x2 /\ old.y1 <= old.y2
  BY <1>2, ChainedIs DEF DInv, InOrder
<1>4. PICK f, e : /\ Distance(Matches, 0, 0, Len(a), Len(b), e)
                  /\ Counted(Matches, work, Len(script), f, e)
  BY DEF ScriptOK
<1>5. \A g : Between(Matches, old, g) => Between(Matches, box, g)
  BY <1>2, <1>3, TrimmedDistance DEF Between
<1>6. box \in Boxes
  BY <1>2, <1>3, Trims
<1> HIDE DEF box
<1>7. Counted(Matches, <<box>> \o Tail(work), Len(script), f, e)
  BY <1>1, <1>2, <1>4, <1>5, <1>6, CountedHead
<1>8. Counted(Matches, work', Len(script), f, e)
  BY <1>1, <1>7
<1> QED
  BY <1>1, <1>4, <1>8, SameMatches DEF ScriptOK

\* At the start the script is empty, and one box waits.
LEMMA InitScript ==
  ASSUME Init
  PROVE  ScriptOK
<1>1. /\ a \in Seq(Lines) /\ b \in Seq(Lines)
  BY InitKeeps DEF DInv, TypeOK
<1>2. Len(a) \in Nat /\ Len(b) \in Nat /\ 0 \in Int
  BY <1>1
<1>3. /\ work = <<Box(0, 0, Len(a), Len(b))>> /\ script = <<>>
      /\ Len(work) = 1 /\ Len(script) = 0
  BY DEF Init
<1>4. PICK e \in Nat : Distance(Matches, 0, 0, Len(a), Len(b), e)
  <2>1. PICK n \in Int, m \in Int : n = Len(a) /\ m = Len(b) /\ 0 <= n /\ 0 <= m
    BY <1>2
  <2>2. \E e \in Nat : Distance(Matches, 0, 0, n, m, e)
    BY <1>2, <2>1, DistanceExists
  <2> QED
    BY <2>1, <2>2
<1> DEFINE f == [i \in 0..1 |-> IF i = 0 THEN 0 ELSE e]
<1>5. Counted(Matches, work, Len(script), f, e)
  <2>1. f \in [0..1 -> Int] /\ f[0] = 0 /\ f[1] = e /\ f[1] - f[0] = e /\ 1 - 1 = 0
    OBVIOUS
  <2>2. Between(Matches, work[1], e)
    <3>1. work[1] = Box(0, 0, Len(a), Len(b))
      BY <1>3
    <3> QED
      BY <1>4, <3>1 DEF Between, Box
  <2>3. \A i \in 1..1 : i = 1
    OBVIOUS
  <2> HIDE DEF f
  <2>4. \A i \in 1..1 : Between(Matches, work[i], f[i] - f[i - 1])
    BY <2>1, <2>2, <2>3
  <2> QED
    BY <1>3, <2>1, <2>4 DEF Counted
<1>6. script \in Seq(Entries)
  BY <1>3
<1> QED
  BY <1>4, <1>5, <1>6 DEF ScriptOK

\* Where the way forward meets the other search.
LEMMA ForwardWays ==
  ASSUME NEW M, M \subseteq Int \X Int, NEW box, Trim(box), NEW fv \in Memory, NEW bv \in Memory,
         NEW d, NEW k,
         Searching(Ahd(box, fv), Bck(box, bv), Width(box), Height(box), "forward", d, k),
         Odd(Width(box), Height(box)), k - Delta(box) \in (1 - d)..(d - 1),
         ForwardFar(M, box, Ahd(box, fv), Bck(box, bv), d, k),
         NEW x, NEW y, y = bv[k + Half(box)],
         Furthest(M, box.x1, box.y1, Width(box), Height(box), x - box.x1, k, d),
         Inside(box, Column(box, k, y), y, x, Row(box, k, x))
  PROVE  /\ d \in Nat /\ d - 1 \in Nat
         /\ Walk(M, box.x1, box.y1, x, Row(box, k, x), d)
         /\ Walk(M, Column(box, k, y), y, box.x2, box.y2, d - 1)
         /\ Unreached(M, box, (d + (d - 1)) - 2)
<1> DEFINE n == Width(box)
           m == Height(box)
           B == Bck(box, bv)
           l == k - Delta(box)
           w == B[l]
<1>1. /\ box.x1 \in Int /\ box.y1 \in Int /\ box.x2 \in Int /\ box.y2 \in Int
      /\ n \in Int /\ n = box.x2 - box.x1
      /\ m \in Int /\ m = box.y2 - box.y1
      /\ Half(box) \in Int /\ Delta(box) = n - m
      /\ box \in Boxes
  BY Sides DEF Trim
<1>2. /\ d \in Nat /\ k \in Lanes(d) /\ k \in Int
      /\ ForwardOK(Ahd(box, fv), B, n, m, d, k)
  BY DEF Searching, Lanes
<1>3. d # 0 /\ l \in Lanes(d - 1) /\ l = k - (n - m) /\ l \in Int /\ d - 1 \in Nat
  BY <1>1, <1>2, OddLanes
<1>4. /\ x \in Int /\ y \in Int
      /\ x <= box.x2 /\ Row(box, k, x) <= box.y2
      /\ box.x1 <= Column(box, k, y) /\ box.y1 <= y
  BY <1>1 DEF Inside
<1>5. w \in Int /\ w >= 0
  BY <1>2, <1>3 DEF ForwardOK, Frontier, Fresh
<1> HIDE DEF l, B
<1>6. y = box.y2 - w
  <2>1. l + Delta(box) + Half(box) = k + Half(box)
    BY <1>1, <1>2, <1>3
  <2> QED
    BY <1>1, <1>3, <1>5, <2>1, BckPoint DEF B
<1>7. Furthest(Mirror(M), -box.y2, -box.x2, m, n, w, l, d - 1)
  <2>1. l > -d - 1
    BY <1>2, <1>3 DEF Lanes
  <2> QED
    BY <1>3, <2>1 DEF ForwardFar, FarBack, Far, B
<1>8. Walk(M, box.x1, box.y1, x, Row(box, k, x), d)
  <2>1. PICK u \in Int : u = x - box.x1
    BY <1>1, <1>4
  <2>2. x = box.x1 + u /\ Row(box, k, x) = box.y1 + u - k
    BY <1>1, <1>2, <1>4, <2>1 DEF Row
  <2>3. Furthest(M, box.x1, box.y1, n, m, u, k, d)
    BY <2>1
  <2> QED
    BY <1>2, <1>4, <2>2, <2>3, AheadWay
<1>9. Walk(M, Column(box, k, y), y, box.x2, box.y2, d - 1)
  <2>1. Column(box, k, y) = box.x2 - (w - l)
    <3> HIDE DEF n, m, w
    <3>1. Column(box, k, y) = y - box.y1 + k + box.x1
      BY DEF Column
    <3> QED
      BY <1>1, <1>2, <1>3, <1>5, <1>6, <3>1
  <2> HIDE DEF w
  <2> QED
    BY <1>3, <1>4, <1>5, <1>6, <1>7, <2>1, BackWay
<1>10. Unreached(M, box, (d + (d - 1)) - 2)
  <2>1. (d + (d - 1)) - 2 = 2 * d - 3
    BY <1>2
  <2> QED
    BY <2>1 DEF ForwardFar
<1> QED
  BY <1>2, <1>3, <1>8, <1>9, <1>10

\* The same for the way back.
LEMMA BackwardWays ==
  ASSUME NEW M, M \subseteq Int \X Int, NEW box, Trim(box), NEW fv \in Memory, NEW bv \in Memory,
         NEW d, NEW k,
         Searching(Ahd(box, fv), Bck(box, bv), Width(box), Height(box), "backward", d, k),
         ~Odd(Width(box), Height(box)), k + Delta(box) \in (-d)..d,
         BackwardFar(M, box, Ahd(box, fv), Bck(box, bv), d, k),
         NEW y, NEW x2, x2 = fv[k + Delta(box) + Half(box)],
         Furthest(Mirror(M), -box.y2, -box.x2, Height(box), Width(box), box.y2 - y, k, d),
         Inside(box, Column(box, k + Delta(box), y), y, x2, Row(box, k + Delta(box), x2))
  PROVE  /\ d \in Nat
         /\ Walk(M, box.x1, box.y1, x2, Row(box, k + Delta(box), x2), d)
         /\ Walk(M, Column(box, k + Delta(box), y), y, box.x2, box.y2, d)
         /\ Unreached(M, box, (d + d) - 2)
<1> DEFINE n == Width(box)
           m == Height(box)
           F == Ahd(box, fv)
           l == k + Delta(box)
           u == F[l]
<1>1. /\ box.x1 \in Int /\ box.y1 \in Int /\ box.x2 \in Int /\ box.y2 \in Int
      /\ n \in Int /\ n = box.x2 - box.x1
      /\ m \in Int /\ m = box.y2 - box.y1
      /\ Half(box) \in Int /\ Delta(box) = n - m
      /\ box \in Boxes
  BY Sides DEF Trim
<1>2. /\ d \in Nat /\ k \in Lanes(d) /\ k \in Int
      /\ BackwardOK(F, Bck(box, bv), n, m, d, k)
  BY DEF Searching, Lanes
<1>3. l \in Lanes(d) /\ l = k + (n - m) /\ l \in Int
  BY <1>1, <1>2, EvenLanes
<1>4. /\ x2 \in Int /\ y \in Int
      /\ x2 <= box.x2 /\ Row(box, l, x2) <= box.y2
      /\ box.x1 <= Column(box, l, y) /\ box.y1 <= y
  BY <1>1 DEF Inside
<1>5. u \in Int /\ u >= 0
  BY <1>2, <1>3 DEF BackwardOK, Frontier, Fresh
<1>6. x2 = box.x1 + u
  <2> HIDE DEF l
  <2>1. x2 = fv[l + Half(box)]
    BY DEF l
  <2> QED
    BY <1>1, <1>3, <1>5, <2>1, AhdPoint DEF F
<1>7. Furthest(M, box.x1, box.y1, n, m, u, l, d)
  <2>1. l > -d - 2
    BY <1>2, <1>3 DEF Lanes
  <2> QED
    BY <1>3, <2>1 DEF BackwardFar, FarAhead, Far, F
<1> HIDE DEF l, u
<1>8. Walk(M, box.x1, box.y1, x2, Row(box, l, x2), d)
  <2>1. Row(box, l, x2) = box.y1 + u - l
    BY <1>1, <1>3, <1>4, <1>5, <1>6 DEF Row
  <2> QED
    BY <1>3, <1>4, <1>5, <1>6, <1>7, <2>1, AheadWay
<1>9. Walk(M, Column(box, l, y), y, box.x2, box.y2, d)
  <2>1. PICK w \in Int : w = box.y2 - y
    BY <1>1, <1>4
  <2>2. y = box.y2 - w
    BY <1>1, <1>4, <2>1
  <2>3. Column(box, l, y) = box.x2 - (w - k)
    <3>1. Column(box, l, y) = y - box.y1 + l + box.x1
      BY DEF Column
    <3>2. l - (box.x2 - box.x1) = k - (box.y2 - box.y1)
      BY <1>1, <1>2, <1>3
    <3> HIDE DEF n, m
    <3> QED
      BY <1>1, <1>2, <1>3, <1>4, <2>1, <3>1, <3>2
  <2>4. Furthest(Mirror(M), -box.y2, -box.x2, m, n, w, k, d)
    BY <2>1
  <2> QED
    BY <1>2, <1>4, <2>2, <2>3, <2>4, BackWay
<1>10. Unreached(M, box, (d + d) - 2)
  <2>1. (d + d) - 2 = 2 * d - 2
    BY <1>2
  <2> QED
    BY <2>1 DEF BackwardFar
<1> QED
  BY <1>2, <1>8, <1>9, <1>10 DEF l

\* What a step does not change, and what a search leaves when it is over.
LEMMA ScriptStays ==
  ASSUME ScriptOK, UNCHANGED <<a, b, work, script>>
  PROVE  ScriptOK'
BY SameMatches DEF ScriptOK

\* Where the first loop of search_path splits a box, ways meet; else it goes on.
LEMMA ForwardSplits ==
  ASSUME ShortInv, Forward
  PROVE  /\ phase = "search" /\ UNCHANGED <<a, b, script>>
         /\ \/ ForwardOn
            \/ /\ phase' = "script"
               /\ \E x1, y1, x2, y2, d, g : Met(x1, y1, x2, y2, d, g)
<1> DEFINE box == Head(work)
           s == search
           x == FwdTo(box, s.fv, s.d, s.k)
           y == s.bv[s.k + Half(box)]
           met == /\ Delta(box) % 2 = 1
                  /\ s.k - Delta(box) \in (1 - s.d)..(s.d - 1)
                  /\ x >= Column(box, s.k, y)
<1>1. phase = "search" /\ s.dir = "forward" /\ UNCHANGED <<a, b, script>>
  BY ForwardIs
<1>2. CASE met /\ Split(Column(box, s.k, y), y, x, Row(box, s.k, x))
  <2>1. /\ work # <<>> /\ Trim(box) /\ s.fv \in Memory /\ s.bv \in Memory
        /\ Searching(Ahd(box, s.fv), Bck(box, s.bv), Width(box), Height(box), "forward", s.d, s.k)
    BY <1>1, SearchParts DEF ShortInv
  <2>2. Odd(Width(box), Height(box))
    BY <1>2, <2>1, Sides DEF Odd, Trim
  <2>3. Inside(box, Column(box, s.k, y), y, x, Row(box, s.k, x))
    BY <1>2, <2>1, <2>2, ForwardMet
  <2>4. ForwardFar(Matches, box, Ahd(box, s.fv), Bck(box, s.bv), s.d, s.k)
    BY <1>1 DEF ShortInv, FarOK
  <2>5. Furthest(Matches, box.x1, box.y1, Width(box), Height(box), x - box.x1, s.k, s.d)
    <3>1. s.d # 0 => FarAhead(Matches, box, Ahd(box, s.fv), s.d - 1, -s.d - 1)
      BY <2>4 DEF ForwardFar
    <3> QED
      BY <2>1, <3>1, ForwardFurthest
  <2> HIDE DEF x
  <2>6. /\ s.d \in Nat /\ s.d - 1 \in Nat
        /\ Walk(Matches, box.x1, box.y1, x, Row(box, s.k, x), s.d)
        /\ Walk(Matches, Column(box, s.k, y), y, box.x2, box.y2, s.d - 1)
        /\ Unreached(Matches, box, (s.d + (s.d - 1)) - 2)
    BY <1>2, <2>1, <2>2, <2>3, <2>4, <2>5, MatchesAre, ForwardWays
  <2> HIDE DEF y
  <2>7. s.d - 1 <= s.d
    BY <2>6
  <2>8. Met(Column(box, s.k, y), y, x, Row(box, s.k, x), s.d, s.d - 1)
    BY <1>2, <2>1, <2>3, <2>6, <2>7 DEF Met
  <2>9. phase' = "script"
    BY <1>2 DEF Split
  <2> QED
    BY <1>1, <2>8, <2>9
<1>3. CASE ~met /\ NextDiagonal([s EXCEPT !.fv = Written(@, s.k + Half(box), x)])
  BY <1>1, <1>3 DEF ForwardOn
<1> QED
  BY <1>2, <1>3, ForwardIs

\* The same for the second loop.
LEMMA BackwardSplits ==
  ASSUME ShortInv, Backward
  PROVE  /\ phase = "search" /\ UNCHANGED <<a, b, script>>
         /\ \/ BackwardOn
            \/ /\ phase' = "script"
               /\ \E x1, y1, x2, y2, d, g : Met(x1, y1, x2, y2, d, g)
<1> DEFINE box == Head(work)
           s == search
           k == s.k + Delta(box)
           y == BckTo(box, s.bv, s.d, s.k)
           x == Column(box, k, y)
           x2 == s.fv[k + Half(box)]
           met == /\ Delta(box) % 2 = 0
                  /\ k \in (-s.d)..s.d
                  /\ x <= x2
<1>1. phase = "search" /\ s.dir = "backward" /\ UNCHANGED <<a, b, script>>
  BY BackwardIs
<1>2. CASE met /\ Split(x, y, x2, Row(box, k, x2))
  <2>1. /\ work # <<>> /\ Trim(box) /\ s.fv \in Memory /\ s.bv \in Memory
        /\ Searching(Ahd(box, s.fv), Bck(box, s.bv), Width(box), Height(box), "backward", s.d, s.k)
    BY <1>1, SearchParts DEF ShortInv
  <2>2. ~Odd(Width(box), Height(box))
    BY <1>2, <2>1, Sides DEF Odd, Trim
  <2>3. Inside(box, x, y, x2, Row(box, k, x2))
    BY <1>2, <2>1, <2>2, BackwardMet
  <2>4. BackwardFar(Matches, box, Ahd(box, s.fv), Bck(box, s.bv), s.d, s.k)
    BY <1>1 DEF ShortInv, FarOK
  <2>5. Furthest(Mirror(Matches), -box.y2, -box.x2, Height(box), Width(box), box.y2 - y, s.k, s.d)
    <3>1. s.d # 0 => FarBack(Matches, box, Bck(box, s.bv), s.d - 1, -s.d - 1)
      BY <2>4 DEF BackwardFar
    <3> QED
      BY <2>1, <3>1, BackwardFurthest
  <2> HIDE DEF y
  <2>6. /\ s.d \in Nat
        /\ Walk(Matches, box.x1, box.y1, x2, Row(box, k, x2), s.d)
        /\ Walk(Matches, x, y, box.x2, box.y2, s.d)
        /\ Unreached(Matches, box, (s.d + s.d) - 2)
    BY <1>2, <2>1, <2>2, <2>3, <2>4, <2>5, MatchesAre, BackwardWays
  <2> HIDE DEF x, x2
  <2>7. s.d <= s.d
    BY <2>6
  <2>8. Met(x, y, x2, Row(box, k, x2), s.d, s.d)
    BY <1>2, <2>1, <2>3, <2>6, <2>7 DEF Met
  <2>9. phase' = "script"
    BY <1>2 DEF Split
  <2> QED
    BY <1>1, <2>8, <2>9
<1>3. CASE ~met /\ NextDiagonal([s EXCEPT !.bv = Written(@, k + Half(box), y)])
  BY <1>1, <1>3 DEF BackwardOn
<1> QED
  BY <1>2, <1>3, BackwardIs

\* A search goes on with the same boxes.
LEMMA OnStays ==
  ASSUME DInv, ForwardOn \/ BackwardOn
  PROVE  UNCHANGED work
<1>1. CASE ForwardOn
  BY <1>1, ForwardTurns
<1>2. CASE BackwardOn
  <2>1. phase' = "search"
    BY <1>2, BackwardGoesOn
  <2> QED
    BY <1>2, <2>1, BackwardTurns
<1> QED
  BY <1>1, <1>2

\* The first loop of search_path keeps the invariant, whether it goes on or meets.
LEMMA ForwardKeepsShort ==
  ASSUME ShortInv, Forward
  PROVE  FarOK' /\ ScriptOK'
<1>1. UNCHANGED <<a, b, script>>
  BY ForwardSplits
<1>2. CASE ForwardOn
  BY <1>1, <1>2, OnStays, ForwardKeepsFar, ScriptStays DEF ShortInv
<1>3. ASSUME phase' = "script", \E x1, y1, x2, y2, d, g : Met(x1, y1, x2, y2, d, g)
      PROVE  FarOK' /\ ScriptOK'
  <2>1. ScriptOK'
    BY <1>1, <1>3, SplitKeepsScript DEF ShortInv
  <2> QED
    BY <1>3, <2>1 DEF FarOK
<1> QED
  BY <1>2, <1>3, ForwardSplits

\* The second loop does.
LEMMA BackwardKeepsShort ==
  ASSUME ShortInv, Backward
  PROVE  FarOK' /\ ScriptOK'
<1>1. UNCHANGED <<a, b, script>>
  BY BackwardSplits
<1>2. CASE BackwardOn
  BY <1>1, <1>2, OnStays, BackwardKeepsFar, ScriptStays DEF ShortInv
<1>3. ASSUME phase' = "script", \E x1, y1, x2, y2, d, g : Met(x1, y1, x2, y2, d, g)
      PROVE  FarOK' /\ ScriptOK'
  <2>1. ScriptOK'
    BY <1>1, <1>3, SplitKeepsScript DEF ShortInv
  <2> QED
    BY <1>3, <2>1 DEF FarOK
<1> QED
  BY <1>2, <1>3, BackwardSplits

\* Every step does.
LEMMA ShortStep ==
  ASSUME ShortInv, [Next]_vars
  PROVE  ShortInv'
<1>1. DInv'
  BY Step DEF ShortInv
<1>2. CASE Emit
  <2>1. phase' = "script"
    BY <1>2 DEF Emit
  <2> QED
    BY <1>1, <1>2, <2>1, EmitKeepsScript DEF ShortInv, FarOK
<1>3. CASE StartSearch
  <2>1. search'.dir = "forward" /\ search'.d = 0 /\ search'.k = 0
    BY <1>3 DEF StartSearch
  <2>2. FarOK'
    BY <2>1, FarFirst DEF FarOK
  <2> QED
    BY <1>1, <1>3, <2>2, StartSearchKeepsScript DEF ShortInv
<1>4. CASE Forward
  BY <1>1, <1>4, ForwardKeepsShort DEF ShortInv
<1>5. CASE Backward
  BY <1>1, <1>5, BackwardKeepsShort DEF ShortInv
<1>6. CASE WriteOutside
  <2>1. phase' = "undefined" /\ UNCHANGED <<a, b, work, script>>
    BY <1>6 DEF WriteOutside
  <2> QED
    BY <1>1, <2>1, ScriptStays DEF ShortInv, FarOK
<1>7. CASE UNCHANGED vars
  <2>1. UNCHANGED <<a, b, work, search, script, phase>>
    BY <1>7 DEF vars
  <2>2. FarOK'
    BY <2>1, SameMatches DEF ShortInv, FarOK
  <2> QED
    BY <1>1, <2>1, <2>2, ScriptStays DEF ShortInv
<1> QED
  BY <1>2, <1>3, <1>4, <1>5, <1>6, <1>7 DEF Next

\* When nothing waits the script is what the texts are distant.
LEMMA ShortWhenFinished ==
  ASSUME ShortInv
  PROVE  Shortest
<1> SUFFICES ASSUME Finished
             PROVE  Len(script) = Len(a) + Len(b) - 2 * Common(Box(0, 0, Len(a), Len(b)))
  BY DEF Shortest
<1> DEFINE box == Box(0, 0, Len(a), Len(b))
<1>1. /\ box \in Boxes /\ box.x1 = 0 /\ box.y1 = 0 /\ box.x2 = Len(a) /\ box.y2 = Len(b)
      /\ box.x1 <= box.x2 /\ box.y1 <= box.y2
      /\ Width(box) = Len(a) /\ Height(box) = Len(b)
  BY DEF ShortInv, DInv, TypeOK, Box, Boxes, Width, Height
<1>2. PICK f, e : /\ Distance(Matches, 0, 0, Len(a), Len(b), e)
                  /\ Counted(Matches, work, Len(script), f, e)
  BY DEF ShortInv, ScriptOK
<1>3. Len(work) = 0
  BY DEF Finished
<1>4. Len(script) = e
  BY <1>2, <1>3 DEF Counted
<1> HIDE DEF box
<1>5. e = Width(box) + Height(box) - 2 * Common(box)
  BY <1>1, <1>2, CommonCounts
<1> QED
  BY <1>1, <1>4, <1>5 DEF box

\* The script that shortest_edit_script prints (diff.c) is a shortest one, whatever
\* the texts: no other names fewer lines.
THEOREM ShortestScript == Spec => []Shortest
<1>1. Init => ShortInv
  BY InitKeeps, InitScript DEF ShortInv, FarOK, Init
<1>2. ShortInv /\ [Next]_vars => ShortInv'
  BY ShortStep
<1>3. ShortInv => Shortest
  BY ShortWhenFinished
<1> QED
  BY <1>1, <1>2, <1>3, PTL DEF Spec

-----------------------------------------------------------------------------
(* What a script leaves of the texts *)

\* The lines that a script names.
Names(s) == {s[n] : n \in DOMAIN s}

\* Of the first n lines of a text, those that a script does not name, and their number.
Left(s, kind, n) == {i \in 1..n : <<kind, i - 1>> \notin Names(s)}
Place(s, kind, n) == Cardinality(Left(s, kind, n))

\* The next line is left, or it is named.
LEMMA LeftNext ==
  ASSUME NEW s, NEW kind, NEW n \in Nat
  PROVE  /\ Left(s, kind, 0) = {} /\ Place(s, kind, 0) = 0
         /\ Place(s, kind, n) \in Nat
         /\ <<kind, n>> \in Names(s) =>
              /\ Left(s, kind, n + 1) = Left(s, kind, n)
              /\ Place(s, kind, n + 1) = Place(s, kind, n)
         /\ <<kind, n>> \notin Names(s) =>
              /\ Left(s, kind, n + 1) = Left(s, kind, n) \cup {n + 1}
              /\ Place(s, kind, n + 1) = Place(s, kind, n) + 1
<1>1. Left(s, kind, 0) = {} /\ Place(s, kind, 0) = 0
  BY FS_EmptySet DEF Left, Place
<1>2. IsFiniteSet(Left(s, kind, n)) /\ Place(s, kind, n) \in Nat
  <2>1. IsFiniteSet(1..n) /\ Left(s, kind, n) \in SUBSET (1..n)
    BY FS_Interval DEF Left
  <2>2. IsFiniteSet(Left(s, kind, n))
    BY <2>1, FS_Subset
  <2> QED
    BY <2>2, FS_CardinalityType DEF Place
<1>3. /\ (n + 1) - 1 = n /\ n + 1 \in 1..(n + 1) /\ n + 1 \notin 1..n
      /\ \A i \in 1..(n + 1) : i \in 1..n \/ i = n + 1
      /\ \A i \in 1..n : i \in 1..(n + 1)
  OBVIOUS
<1>4. <<kind, n>> \in Names(s) => Left(s, kind, n + 1) = Left(s, kind, n)
  BY <1>3 DEF Left
<1>5. <<kind, n>> \notin Names(s) => Left(s, kind, n + 1) = Left(s, kind, n) \cup {n + 1}
  BY <1>3 DEF Left
<1>6. n + 1 \notin Left(s, kind, n)
  BY <1>3 DEF Left
<1> QED
  BY <1>1, <1>2, <1>4, <1>5, <1>6, FS_AddElement DEF Place

\* The number of lines left does not fall from line to line.
LEMMA PlaceRises ==
  ASSUME NEW s, NEW kind, NEW n \in Nat
  PROVE  \A i \in 0..n : Place(s, kind, i) \in Nat /\ Place(s, kind, i) <= Place(s, kind, n)
<1> DEFINE T == {m \in 0..n : \A i \in 0..m : Place(s, kind, i) <= Place(s, kind, m)}
<1>1. \A i \in 0..n : Place(s, kind, i) \in Nat
  <2>1. ASSUME NEW i \in 0..n
        PROVE  Place(s, kind, i) \in Nat
    <3>1. i \in Nat
      OBVIOUS
    <3> QED
      BY <3>1, LeftNext, Zenon
  <2> QED
    BY <2>1
<1>2. 0 \in T
  BY <1>1
<1>3. ASSUME NEW m \in 1..n, m - 1 \in T
      PROVE  m \in T
  <2>1. m - 1 \in Nat /\ (m - 1) + 1 = m
    OBVIOUS
  <2>2. Place(s, kind, m - 1) <= Place(s, kind, m)
    <3> HIDE DEF T
    <3>1. PICK j \in Nat : j = m - 1 /\ j + 1 = m
      BY <2>1
    <3>2. /\ Place(s, kind, j) \in Nat
          /\ \/ Place(s, kind, j + 1) = Place(s, kind, j)
             \/ Place(s, kind, j + 1) = Place(s, kind, j) + 1
      <4>1. /\ Place(s, kind, j) \in Nat
            /\ <<kind, j>> \in Names(s) => Place(s, kind, j + 1) = Place(s, kind, j)
            /\ <<kind, j>> \notin Names(s) => Place(s, kind, j + 1) = Place(s, kind, j) + 1
        BY LeftNext
      <4> QED
        BY <4>1
    <3> QED
      BY <3>1, <3>2
  <2>3. ASSUME NEW i \in 0..m
        PROVE  Place(s, kind, i) <= Place(s, kind, m)
    <3>1. CASE i = m
      BY <1>1, <3>1
    <3>2. CASE i # m
      <4>1. i \in 0..(m - 1) /\ i \in 0..n /\ m \in 0..n /\ m - 1 \in 0..n
        BY <3>2
      <4>2. Place(s, kind, i) <= Place(s, kind, m - 1)
        BY <1>3, <4>1
      <4> QED
        BY <1>1, <2>2, <4>1, <4>2
    <3> QED
      BY <3>1, <3>2
  <2> QED
    BY <2>3
<1> HIDE DEF T
<1>4. \A i \in 0..n : i \in T
  BY <1>2, <1>3, Climb
<1> QED
  BY <1>1, <1>4 DEF T

\* There is a line for every number.
LEMMA PlaceTaken ==
  ASSUME NEW s, NEW kind, NEW n \in Nat
  PROVE  \A c \in 1..Place(s, kind, n) : \E i \in Left(s, kind, n) : Place(s, kind, i) = c
<1> DEFINE T == {m \in 0..n : \A c \in 1..Place(s, kind, m) :
                                \E i \in Left(s, kind, m) : Place(s, kind, i) = c}
<1>1. 0 \in T
  <2>1. Place(s, kind, 0) = 0
    BY LeftNext, Zenon
  <2> QED
    BY <2>1
<1>2. ASSUME NEW m \in 1..n, m - 1 \in T
      PROVE  m \in T
  <2>1. m - 1 \in Nat /\ (m - 1) + 1 = m
    OBVIOUS
  <2>2. ASSUME NEW c \in 1..Place(s, kind, m)
        PROVE  \E i \in Left(s, kind, m) : Place(s, kind, i) = c
    <3>1. CASE <<kind, m - 1>> \in Names(s)
      <4>1. Left(s, kind, m) = Left(s, kind, m - 1) /\ Place(s, kind, m) = Place(s, kind, m - 1)
        BY <2>1, <3>1, LeftNext
      <4> QED
        BY <1>2, <4>1
    <3>2. CASE <<kind, m - 1>> \notin Names(s)
      <4>1. /\ Left(s, kind, m) = Left(s, kind, m - 1) \cup {m}
            /\ Place(s, kind, m) = Place(s, kind, m - 1) + 1
            /\ Place(s, kind, m - 1) \in Nat
        BY <2>1, <3>2, LeftNext
      <4>2. CASE c = Place(s, kind, m)
        BY <4>1, <4>2
      <4>3. CASE c # Place(s, kind, m)
        <5>1. c \in 1..Place(s, kind, m - 1)
          BY <4>1, <4>3
        <5>2. \E i \in Left(s, kind, m - 1) : Place(s, kind, i) = c
          BY <1>2, <5>1
        <5> QED
          BY <4>1, <5>2
      <4> QED
        BY <4>2, <4>3
    <3> QED
      BY <3>1, <3>2
  <2> QED
    BY <2>2
<1> HIDE DEF T
<1>3. \A i \in 0..n : i \in T
  BY <1>1, <1>2, Climb
<1> QED
  BY <1>3 DEF T

\* Before line x of the text p and line y of the text q a script has named what
\* goes and what comes, and no line after them: as many lines are left of both,
\* and they are the same ones.
Paired(p, q, s, x, y) ==
  /\ x \in Nat /\ y \in Nat
  /\ \A i \in Int : <<"del", i>> \in Names(s) => i < x
  /\ \A i \in Int : <<"add", i>> \in Names(s) => i < y
  /\ Place(s, "del", x) = Place(s, "add", y)
  /\ \A i \in Left(s, "del", x), j \in Left(s, "add", y) :
       Place(s, "del", i) = Place(s, "add", j) => p[i] = q[j]

\* Lines in common stay.
LEMMA PairedNext ==
  ASSUME NEW p, NEW q, NEW s, NEW x, NEW y, Paired(p, q, s, x, y), p[x + 1] = q[y + 1]
  PROVE  Paired(p, q, s, x + 1, y + 1)
<1>1. x \in Nat /\ y \in Nat /\ Place(s, "del", x) = Place(s, "add", y)
  BY DEF Paired
<1>2. <<"del", x>> \notin Names(s) /\ <<"add", y>> \notin Names(s)
  BY <1>1 DEF Paired
<1>3. /\ Left(s, "del", x + 1) = Left(s, "del", x) \cup {x + 1}
      /\ Place(s, "del", x + 1) = Place(s, "del", x) + 1
      /\ Left(s, "add", y + 1) = Left(s, "add", y) \cup {y + 1}
      /\ Place(s, "add", y + 1) = Place(s, "add", y) + 1
      /\ Place(s, "del", x) \in Nat
  BY <1>1, <1>2, LeftNext
<1>4. /\ \A i \in Left(s, "del", x) :
           Place(s, "del", i) <= Place(s, "del", x) /\ Place(s, "del", i) \in Nat
      /\ \A j \in Left(s, "add", y) :
           Place(s, "add", j) <= Place(s, "add", y) /\ Place(s, "add", j) \in Nat
  <2>1. Left(s, "del", x) \subseteq 0..x /\ Left(s, "add", y) \subseteq 0..y
    BY <1>1 DEF Left
  <2> QED
    BY <1>1, <2>1, PlaceRises
<1>5. ASSUME NEW i \in Left(s, "del", x + 1), NEW j \in Left(s, "add", y + 1),
             Place(s, "del", i) = Place(s, "add", j)
      PROVE  p[i] = q[j]
  <2>1. CASE i \in Left(s, "del", x) /\ j \in Left(s, "add", y)
    BY <1>5, <2>1 DEF Paired
  <2>2. CASE i = x + 1 /\ j = y + 1
    BY <2>2
  <2>3. CASE i \in Left(s, "del", x) /\ j = y + 1
    <3>1. /\ Place(s, "del", i) <= Place(s, "del", x) /\ Place(s, "del", i) \in Nat
          /\ Place(s, "del", i) = Place(s, "add", y + 1)
      BY <1>4, <1>5, <2>3
    <3> QED
      BY <1>1, <1>3, <3>1
  <2>4. CASE i = x + 1 /\ j \in Left(s, "add", y)
    <3>1. /\ Place(s, "add", j) <= Place(s, "add", y) /\ Place(s, "add", j) \in Nat
          /\ Place(s, "del", x + 1) = Place(s, "add", j)
      BY <1>4, <1>5, <2>4
    <3> QED
      BY <1>1, <1>3, <3>1
  <2> QED
    BY <1>3, <2>1, <2>2, <2>3, <2>4
<1>6. /\ \A i \in Int : <<"del", i>> \in Names(s) => i < x + 1
      /\ \A i \in Int : <<"add", i>> \in Names(s) => i < y + 1
  BY <1>1 DEF Paired
<1> QED
  BY <1>1, <1>3, <1>5, <1>6 DEF Paired

\* The lines from (x, y) on are in common, up to column x2.
Stretch(M, x, y, x2) == \A i \in Nat : x + i < x2 => <<x + i, y + i>> \in M

\* They are passed over together.
LEMMA PairedOver ==
  ASSUME NEW s, NEW x, NEW y, Paired(a, b, s, x, y), NEW x2 \in Int, NEW y2 \in Int,
         x <= x2, x2 - x = y2 - y, Stretch(Matches, x, y, x2)
  PROVE  Paired(a, b, s, x2, y2)
<1>1. x \in Nat /\ y \in Nat
  BY DEF Paired
<1>2. PICK r \in Nat : r = x2 - x /\ x + r = x2 /\ y + r = y2
  BY <1>1
<1> DEFINE T == {i \in 0..r : Paired(a, b, s, x + i, y + i)}
<1>3. 0 \in T
  <2>1. x + 0 = x /\ y + 0 = y
    BY <1>1
  <2> QED
    BY <2>1
<1>4. ASSUME NEW i \in 1..r, i - 1 \in T
      PROVE  i \in T
  <2>1. PICK j \in Nat : j = i - 1 /\ j + 1 = i /\ x + j < x2
    BY <1>1, <1>2
  <2>2. <<x + j, y + j>> \in Matches
    BY <2>1 DEF Stretch
  <2>3. Same(x + j, y + j)
    BY <1>1, <2>1, <2>2, MatchesAre
  <2>4. Paired(a, b, s, (x + j) + 1, (y + j) + 1)
    BY <1>4, <2>1, <2>3, PairedNext DEF Same
  <2>5. (x + j) + 1 = x + i /\ (y + j) + 1 = y + i
    BY <1>1, <2>1
  <2> QED
    BY <2>4, <2>5
<1> HIDE DEF T
<1>5. \A i \in 0..r : i \in T
  BY <1>3, <1>4, Climb
<1>6. r \in T
  BY <1>5
<1> QED
  BY <1>2, <1>6 DEF T

\* The lines that go and come are named when the script is past them.
LEMMA PairedEdits ==
  ASSUME NEW p, NEW q, NEW s, NEW x, NEW y, Paired(p, q, s, x, y),
         NEW x2 \in Int, NEW y2 \in Int, x <= x2, y <= y2, NEW t,
         \A i \in Int : <<"del", i>> \in Names(t) <=>
                          <<"del", i>> \in Names(s) \/ (x <= i /\ i < x2),
         \A i \in Int : <<"add", i>> \in Names(t) <=>
                          <<"add", i>> \in Names(s) \/ (y <= i /\ i < y2)
  PROVE  Paired(p, q, t, x2, y2)
<1>1. x \in Nat /\ y \in Nat /\ x2 \in Nat /\ y2 \in Nat
  BY DEF Paired
<1>2. \A n \in 0..x : Left(t, "del", n) = Left(s, "del", n)
  <2>1. \A i \in 1..x : i - 1 \in Int /\ ~(x <= i - 1)
    BY <1>1
  <2>2. \A n \in 0..x : \A i \in 1..n : i \in 1..x
    BY <1>1
  <2> QED
    BY <2>1, <2>2 DEF Left
<1>3. \A n \in 0..y : Left(t, "add", n) = Left(s, "add", n)
  <2>1. \A i \in 1..y : i - 1 \in Int /\ ~(y <= i - 1)
    BY <1>1
  <2>2. \A n \in 0..y : \A i \in 1..n : i \in 1..y
    BY <1>1
  <2> QED
    BY <2>1, <2>2 DEF Left
<1>4. Left(t, "del", x2) = Left(t, "del", x)
  <2>1. \A i \in 1..x2 : i - 1 \in Int /\ (i \in 1..x \/ (x <= i - 1 /\ i - 1 < x2))
    BY <1>1
  <2>2. \A i \in 1..x : i \in 1..x2
    BY <1>1
  <2> QED
    BY <2>1, <2>2 DEF Left
<1>5. Left(t, "add", y2) = Left(t, "add", y)
  <2>1. \A i \in 1..y2 : i - 1 \in Int /\ (i \in 1..y \/ (y <= i - 1 /\ i - 1 < y2))
    BY <1>1
  <2>2. \A i \in 1..y : i \in 1..y2
    BY <1>1
  <2> QED
    BY <2>1, <2>2 DEF Left
<1>6. x \in 0..x /\ y \in 0..y
  BY <1>1
<1>7. /\ Left(t, "del", x2) = Left(s, "del", x) /\ Place(t, "del", x2) = Place(s, "del", x)
      /\ Left(t, "add", y2) = Left(s, "add", y) /\ Place(t, "add", y2) = Place(s, "add", y)
  BY <1>2, <1>3, <1>4, <1>5, <1>6 DEF Place
<1>8. /\ \A i \in Left(s, "del", x) : Place(t, "del", i) = Place(s, "del", i)
      /\ \A i \in Left(s, "add", y) : Place(t, "add", i) = Place(s, "add", i)
  <2>1. Left(s, "del", x) \subseteq 0..x /\ Left(s, "add", y) \subseteq 0..y
    BY <1>1 DEF Left
  <2> QED
    BY <1>2, <1>3, <2>1 DEF Place
<1>9. /\ \A i \in Int : <<"del", i>> \in Names(t) => i < x2
      /\ \A i \in Int : <<"add", i>> \in Names(t) => i < y2
  BY <1>1 DEF Paired
<1> QED
  BY <1>1, <1>7, <1>8, <1>9 DEF Paired

\* What the script names when a box is printed.
LEMMA EditNames ==
  ASSUME NEW kind, NEW first \in Int, NEW end \in Int, first <= end
  PROVE  \A k, i : <<k, i>> \in Names(Edits(kind, first, end)) <=>
                     k = kind /\ i \in Int /\ first <= i /\ i < end
<1> DEFINE v == Edits(kind, first, end)
<1>1. DOMAIN v = 1..(end - first) /\ \A n \in DOMAIN v : v[n] = <<kind, first + n - 1>>
  BY DEF Edits
<1> HIDE DEF v
<1>2. ASSUME NEW k, NEW i, <<k, i>> \in Names(v)
      PROVE  k = kind /\ i \in Int /\ first <= i /\ i < end
  <2>1. PICK n \in DOMAIN v : v[n] = <<k, i>>
    BY <1>2 DEF Names
  <2>2. n \in 1..(end - first) /\ <<k, i>> = <<kind, first + n - 1>>
    BY <1>1, <2>1
  <2>3. k = kind /\ i = first + n - 1
    BY <2>2
  <2> QED
    BY <2>2, <2>3
<1>3. ASSUME NEW i \in Int, first <= i, i < end
      PROVE  <<kind, i>> \in Names(v)
  <2>1. PICK n \in 1..(end - first) : n = i - first + 1 /\ first + n - 1 = i
    BY <1>3
  <2>2. v[n] = <<kind, i>>
    BY <1>1, <2>1
  <2> QED
    BY <1>1, <2>2 DEF Names
<1> QED
  BY <1>2, <1>3 DEF v

\* A script that is continued names what both parts do.
LEMMA NamesTogether ==
  ASSUME NEW S, NEW s \in Seq(S), NEW t \in Seq(S)
  PROVE  Names(s \o t) = Names(s) \cup Names(t)
<1> DEFINE v == s \o t
<1>1. /\ Len(s) \in Nat /\ Len(t) \in Nat
      /\ DOMAIN s = 1..Len(s) /\ DOMAIN t = 1..Len(t)
      /\ DOMAIN v = 1..(Len(s) + Len(t))
      /\ \A n \in 1..Len(s) : v[n] = s[n]
      /\ \A n \in (Len(s) + 1)..(Len(s) + Len(t)) : v[n] = t[n - Len(s)]
  BY ConcatProperties
<1> HIDE DEF v
<1>2. ASSUME NEW e \in Names(v)
      PROVE  e \in Names(s) \cup Names(t)
  <2>1. PICK n \in 1..(Len(s) + Len(t)) : v[n] = e
    BY <1>1 DEF Names
  <2>2. CASE n \in 1..Len(s)
    BY <1>1, <2>1, <2>2 DEF Names
  <2>3. CASE n \notin 1..Len(s)
    <3>1. n \in (Len(s) + 1)..(Len(s) + Len(t)) /\ n - Len(s) \in 1..Len(t)
      BY <1>1, <2>3
    <3> QED
      BY <1>1, <2>1, <3>1 DEF Names
  <2> QED
    BY <2>2, <2>3
<1>3. ASSUME NEW e \in Names(s)
      PROVE  e \in Names(v)
  <2>1. PICK n \in 1..Len(s) : s[n] = e
    BY <1>1 DEF Names
  <2>2. n \in 1..(Len(s) + Len(t))
    BY <1>1
  <2> QED
    BY <1>1, <2>1, <2>2 DEF Names
<1>4. ASSUME NEW e \in Names(t)
      PROVE  e \in Names(v)
  <2>1. PICK n \in 1..Len(t) : t[n] = e
    BY <1>1 DEF Names
  <2>2. PICK m \in (Len(s) + 1)..(Len(s) + Len(t)) : m = n + Len(s) /\ m - Len(s) = n
    BY <1>1
  <2>3. m \in 1..(Len(s) + Len(t))
    BY <1>1
  <2> QED
    BY <1>1, <2>1, <2>2, <2>3 DEF Names
<1> QED
  BY <1>2, <1>3, <1>4 DEF v

\* A whole text with its script is paired: the script leads from the one to the other.
LEMMA PairedTransforms ==
  ASSUME Paired(a, b, script, Len(a), Len(b))
  PROVE  Transforms
<1>1. Len(a) \in Nat /\ Len(b) \in Nat
  BY DEF Paired
<1>2. ASSUME NEW kind, NEW text, Len(text) \in Nat
      PROVE  LET u == Unnamed(kind, text) n == Place(script, kind, Len(text)) IN
             /\ u = [c \in 1..n |-> u[c]]
             /\ \A c \in 1..n : \E i \in Left(script, kind, Len(text)) :
                  Place(script, kind, i) = c /\ u[c] = text[i]
  <2> DEFINE named == {script[n] : n \in DOMAIN script}
             kept == {i \in 1..Len(text) : <<kind, i - 1>> \notin named}
             place(i) == Cardinality({j \in kept : j <= i})
             pick(c) == CHOOSE i \in kept : place(i) = c
             u == [c \in 1..Cardinality(kept) |-> text[pick(c)]]
  <2>1. Unnamed(kind, text) = u
    BY DEF Unnamed
  <2>2. kept = Left(script, kind, Len(text))
    BY DEF Left, Names
  <2>3. ASSUME NEW i \in kept
        PROVE  place(i) = Place(script, kind, i)
    <3>1. {j \in kept : j <= i} = Left(script, kind, i)
      BY <1>2 DEF Left, Names
    <3> QED
      BY <3>1 DEF Place
  <2> HIDE DEF kept, place
  <2>4. Cardinality(kept) = Place(script, kind, Len(text))
    BY <2>2 DEF Place
  <2>5. ASSUME NEW c \in 1..Cardinality(kept)
        PROVE  pick(c) \in kept /\ place(pick(c)) = c
    <3>1. \E i \in kept : Place(script, kind, i) = c
      BY <1>2, <2>2, <2>4, PlaceTaken
    <3>2. \E i \in kept : place(i) = c
      BY <2>3, <3>1
    <3> QED
      BY <3>2
  <2> HIDE DEF pick
  <2>6. \A c \in 1..Cardinality(kept) : \E i \in kept :
           Place(script, kind, i) = c /\ u[c] = text[i]
    BY <2>3, <2>5
  <2>7. u = [c \in 1..Cardinality(kept) |-> u[c]]
    OBVIOUS
  <2> HIDE DEF u
  <2> QED
    BY <2>1, <2>2, <2>4, <2>6, <2>7
<1> DEFINE n == Place(script, "del", Len(a))
           u == Unnamed("del", a)
           v == Unnamed("add", b)
<1>3. /\ u = [c \in 1..n |-> u[c]]
      /\ \A c \in 1..n : \E i \in Left(script, "del", Len(a)) :
           Place(script, "del", i) = c /\ u[c] = a[i]
  BY <1>1, <1>2
<1>4. /\ v = [c \in 1..n |-> v[c]]
      /\ \A c \in 1..n : \E i \in Left(script, "add", Len(b)) :
           Place(script, "add", i) = c /\ v[c] = b[i]
  <2>1. n = Place(script, "add", Len(b))
    BY DEF Paired
  <2> QED
    BY <1>1, <1>2, <2>1
<1> HIDE DEF u, v, n
<1>5. ASSUME NEW c \in 1..n
      PROVE  u[c] = v[c]
  <2>1. PICK i \in Left(script, "del", Len(a)) : Place(script, "del", i) = c /\ u[c] = a[i]
    BY <1>3
  <2>2. PICK j \in Left(script, "add", Len(b)) : Place(script, "add", j) = c /\ v[c] = b[j]
    BY <1>4
  <2> QED
    BY <2>1, <2>2 DEF Paired
<1>6. u = v
  BY <1>3, <1>4, <1>5
<1> QED
  BY <1>6 DEF Transforms, u, v

\* What trimming takes off a box is in common.
LEMMA TrimsCommon ==
  ASSUME NEW box \in Boxes, box.x1 <= box.x2, box.y1 <= box.y2
  PROVE  LET t == Trimmed(box) IN
         /\ Stretch(Matches, box.x1, box.y1, t.x1)
         /\ Stretch(Matches, t.x2, t.y2, box.x2)
<1> DEFINE p == Ahead(box.x1, box.y1, box)
           rest == Box(box.x1 + p, box.y1 + p, box.x2, box.y2)
           q == Behind(rest.x2, rest.y2, rest)
           t == Box(rest.x1, rest.y1, rest.x2 - q, rest.y2 - q)
<1>1. t = Trimmed(box)
  BY DEF Trimmed
<1>2. box.x1 \in Int /\ box.y1 \in Int /\ box.x2 \in Int /\ box.y2 \in Int
  BY DEF Boxes
<1>3. p \in Nat /\ \A i \in 0..(p - 1) : Same(box.x1 + i, box.y1 + i)
  BY <1>2, AheadSlides
<1> HIDE DEF p
<1>4. /\ rest.x1 = box.x1 + p /\ rest.y1 = box.y1 + p
      /\ rest.x2 = box.x2 /\ rest.y2 = box.y2
      /\ rest.x1 \in Int /\ rest.y1 \in Int
  BY <1>2, <1>3 DEF Box
<1> HIDE DEF rest
<1>5. q \in Nat /\ \A i \in 1..q : Same(rest.x2 - i, rest.y2 - i)
  BY <1>2, <1>4, BehindSlides
<1> HIDE DEF q
<1>6. t.x1 = rest.x1 /\ t.y1 = rest.y1 /\ t.x2 = rest.x2 - q /\ t.y2 = rest.y2 - q
  BY DEF Box
<1> HIDE DEF t
<1>7. Stretch(Matches, box.x1, box.y1, t.x1)
  <2> SUFFICES ASSUME NEW i \in Nat, box.x1 + i < t.x1
               PROVE  <<box.x1 + i, box.y1 + i>> \in Matches
    BY DEF Stretch
  <2>1. i \in 0..(p - 1) /\ box.x1 + i \in Int /\ box.y1 + i \in Int
    BY <1>2, <1>3, <1>4, <1>6
  <2> QED
    BY <1>3, <2>1, MatchesAre
<1>8. Stretch(Matches, t.x2, t.y2, box.x2)
  <2> SUFFICES ASSUME NEW i \in Nat, t.x2 + i < box.x2
               PROVE  <<t.x2 + i, t.y2 + i>> \in Matches
    BY DEF Stretch
  <2>1. PICK j \in 1..q : j = q - i /\ rest.x2 - j = t.x2 + i /\ rest.y2 - j = t.y2 + i
    BY <1>2, <1>4, <1>5, <1>6
  <2>2. t.x2 + i \in Int /\ t.y2 + i \in Int /\ Same(t.x2 + i, t.y2 + i)
    BY <1>2, <1>4, <1>5, <1>6, <2>1
  <2> QED
    BY <2>2, MatchesAre
<1> QED
  BY <1>1, <1>7, <1>8

\* A way on which nothing goes or comes follows lines in common.
LEMMA FreeWay ==
  ASSUME NEW M, NEW x0 \in Int, NEW y0 \in Int
  PROVE  \A x, y, e : Walk(M, x0, y0, x, y, e) /\ e = 0 =>
           x \in Int /\ y \in Int /\ x - x0 = y - y0 /\ Stretch(M, x0, y0, x)
<1> DEFINE L(x, y, e) == e = 0 => x0 <= x /\ x - x0 = y - y0 /\ Stretch(M, x0, y0, x)
           S == {p \in Points : L(p[1], p[2], p[3])}
<1>1. \A x \in Int, y \in Int, e \in Nat : <<x, y, e>> \in S <=> L(x, y, e)
  BY DEF Points
<1>2. L(x0, y0, 0)
  <2>1. x0 - x0 = y0 - y0 /\ x0 <= x0 /\ \A i \in Nat : ~(x0 + i < x0)
    OBVIOUS
  <2> QED
    BY <2>1 DEF Stretch
<1>3. ASSUME NEW x \in Int, NEW y \in Int, NEW e \in Nat, L(x, y, e)
      PROVE  L(x + 1, y, e + 1) /\ L(x, y + 1, e + 1) /\ L(x, y, e + 2)
             /\ (<<x, y>> \in M => L(x + 1, y + 1, e))
  <2>1. e + 1 # 0 /\ e + 2 # 0
    OBVIOUS
  <2>2. ASSUME <<x, y>> \in M, e = 0
        PROVE  x0 <= x + 1 /\ (x + 1) - x0 = (y + 1) - y0 /\ Stretch(M, x0, y0, x + 1)
    <3>1. x0 <= x /\ x - x0 = y - y0 /\ Stretch(M, x0, y0, x)
      BY <1>3, <2>2
    <3>2. ASSUME NEW i \in Nat, x0 + i < x + 1
          PROVE  <<x0 + i, y0 + i>> \in M
      <4>1. CASE x0 + i < x
        BY <3>1, <4>1 DEF Stretch
      <4>2. CASE ~(x0 + i < x)
        <5>1. x0 + i = x /\ y0 + i = y
          BY <3>1, <3>2, <4>2
        <5> QED
          BY <2>2, <5>1
      <4> QED
        BY <4>1, <4>2
    <3>3. x0 <= x + 1 /\ (x + 1) - x0 = (y + 1) - y0
      BY <3>1
    <3> QED
      BY <3>2, <3>3 DEF Stretch
  <2> QED
    BY <2>1, <2>2
<1> HIDE DEF L
<1>4. \A x \in Int, y \in Int, e \in Nat :
         x + 1 \in Int /\ y + 1 \in Int /\ e + 1 \in Nat /\ e + 2 \in Nat
  OBVIOUS
<1> HIDE DEF S
<1>5. ASSUME NEW x \in Int, NEW y \in Int, NEW e \in Nat, <<x, y, e>> \in S
      PROVE  /\ <<x + 1, y, e + 1>> \in S
             /\ <<x, y + 1, e + 1>> \in S
             /\ <<x, y, e + 2>> \in S
             /\ <<x, y>> \in M => <<x + 1, y + 1, e>> \in S
  BY <1>1, <1>3, <1>4, <1>5
<1>6. <<x0, y0, 0>> \in S
  BY <1>1, <1>2
<1>7. \A x, y, e : Walk(M, x0, y0, x, y, e) => <<x, y, e>> \in S
  BY <1>5, <1>6, WalkInduction
<1>8. \A x, y, e : Walk(M, x0, y0, x, y, e) => x \in Int /\ y \in Int /\ e \in Nat
  BY WalkType
<1>9. \A x, y, e : Walk(M, x0, y0, x, y, e) => L(x, y, e)
  BY <1>1, <1>7, <1>8, Zenon
<1> QED
  BY <1>8, <1>9 DEF L

\* Where one line goes or comes on the way to a corner before which the lines differ,
\* it does at the edge: all the lines before it are in common.
LEMMA LateEdit ==
  ASSUME NEW M, NEW x0 \in Int, NEW y0 \in Int, NEW x3 \in Int, NEW y3 \in Int,
         NEW g \in {0, 1}, Walk(M, x0, y0, x3, y3, g), <<x3 - 1, y3 - 1>> \notin M,
         NEW x2 \in Int, NEW y2 \in Int, x2 <= x3, y2 <= y3, x2 - x0 = y2 - y0
  PROVE  Stretch(M, x0, y0, x2)
<1>1. ASSUME NEW x \in Int, Stretch(M, x0, y0, x), x2 <= x
      PROVE  Stretch(M, x0, y0, x2)
  BY <1>1 DEF Stretch
<1>2. CASE g = 0
  BY <1>1, <1>2, FreeWay
<1>3. CASE g = 1
  <2>1. \/ Walk(M, x0, y0, x3 - 1, y3, 1 - 1)
        \/ Walk(M, x0, y0, x3, y3 - 1, 1 - 1)
        \/ Walk(M, x0, y0, x3, y3, 1 - 2)
    <3>1. 1 # 0 /\ Walk(M, x0, y0, x3, y3, 1)
      BY <1>3
    <3> QED
      BY <3>1, LastMove, Zenon
  <2>2. CASE Walk(M, x0, y0, x3 - 1, y3, 1 - 1)
    <3>1. (x3 - 1) - x0 = y3 - y0 /\ Stretch(M, x0, y0, x3 - 1)
      BY <2>2, FreeWay
    <3>2. x2 <= x3 - 1 /\ x3 - 1 \in Int
      BY <3>1
    <3> QED
      BY <1>1, <3>1, <3>2
  <2>3. CASE Walk(M, x0, y0, x3, y3 - 1, 1 - 1)
    <3>1. Stretch(M, x0, y0, x3)
      BY <2>3, FreeWay
    <3> QED
      BY <1>1, <3>1
  <2>4. CASE Walk(M, x0, y0, x3, y3, 1 - 2)
    <3>1. 1 - 2 \in Nat
      BY <2>4, WalkType, Zenon
    <3> QED
      BY <3>1
  <2> QED
    BY <2>1, <2>2, <2>3, <2>4
<1> QED
  BY <1>2, <1>3

\* The first box that waits adds no more lines than there will be.
LEMMA CountedWithin ==
  ASSUME NEW M, NEW S, NEW w \in Seq(S), w # <<>>, NEW s \in Nat, NEW f, NEW e,
         Counted(M, w, s, f, e), NEW g, Between(M, Head(w), g)
  PROVE  g \in Nat /\ e \in Int /\ g <= e
<1>1. /\ Between(M, Head(w), f[1] - s)
      /\ f[1] \in Int /\ Len(w) \in Nat /\ 1 <= Len(w)
  BY CountedFirst
<1>2. g = f[1] - s /\ g \in Nat
  BY <1>1, OneDistance
<1>3. \A i \in 0..Len(w) : f[i] \in Int
  BY DEF Counted
<1> DEFINE T == {i \in 0..Len(w) : i # 0 => f[1] <= f[i]}
<1>4. 0 \in T
  BY <1>1
<1>5. ASSUME NEW i \in 1..Len(w), i - 1 \in T
      PROVE  i \in T
  <2>1. CASE i = 1
    BY <1>1, <2>1
  <2>2. CASE i # 1
    <3>1. i - 1 # 0 /\ i - 1 \in 0..Len(w) /\ i \in 0..Len(w)
      BY <2>2
    <3>2. f[i] - f[i - 1] \in Nat
      <4>1. PICK h : h = f[i] - f[i - 1] /\ Between(M, w[i], h)
        BY DEF Counted
      <4> QED
        BY <4>1, OneDistance
    <3>3. f[1] <= f[i - 1]
      BY <1>5, <3>1
    <3>4. f[1] <= f[i]
      BY <1>1, <1>3, <3>1, <3>2, <3>3
    <3> QED
      BY <3>1, <3>4
  <2> QED
    BY <2>1, <2>2
<1> HIDE DEF T
<1>6. \A i \in 0..Len(w) : i \in T
  BY <1>1, <1>4, <1>5, Climb
<1>7. Len(w) \in T
  BY <1>1, <1>6
<1>8. f[1] <= f[Len(w)] /\ f[Len(w)] = e
  BY <1>1, <1>7 DEF T, Counted
<1>9. e \in Int
  BY <1>1, <1>3, <1>8
<1> QED
  BY <1>1, <1>2, <1>8, <1>9

-----------------------------------------------------------------------------
(* Small changes *)

\* The texts differ in at most three lines.
Few == \E e \in 0..3 : Distance(Matches, 0, 0, Len(a), Len(b), e)

\* Between a box and the next all lines are in common.
Joined(M, box, next) == Stretch(M, box.x2, box.y2, next.x1)

\* Nothing is lost of a change of few lines: what comes before the next box is paired
\* by the script as it is.
SmallOK ==
  Few => /\ \A i \in DOMAIN work : Joined(Matches, work[i], After(work, i))
         /\ Paired(a, b, script, After(work, 0).x1, After(work, 0).y1)

SmallInv == ShortInv /\ SmallOK

\* What can be said of another sequence of boxes w is said of it when it is what waits.
LEMMA SmallNext ==
  ASSUME UNCHANGED <<a, b>>, NEW w, NEW s, work' = w, script' = s,
         Few => /\ \A i \in DOMAIN w : Joined(Matches, w[i], After(w, i))
                /\ Paired(a, b, s, After(w, 0).x1, After(w, 0).y1)
  PROVE  SmallOK'
<1>1. Matches' = Matches /\ a' = a /\ b' = b
  BY SameMatches
<1>2. Few' <=> Few
  BY <1>1 DEF Few
<1>3. \A i : After(work, i)' = After(w, i)
  BY <1>1 DEF After
<1>4. ASSUME Few
      PROVE  /\ (\A i \in DOMAIN work : Joined(Matches, work[i], After(work, i)))'
             /\ (Paired(a, b, script, After(work, 0).x1, After(work, 0).y1))'
  <2>1. \A i \in DOMAIN w : Joined(Matches, w[i], After(w, i))
    BY <1>4
  <2>2. Paired(a, b, s, After(w, 0).x1, After(w, 0).y1)
    BY <1>4
  <2> QED
    BY <1>1, <1>3, <2>1, <2>2
<1> QED
  BY <1>2, <1>4 DEF SmallOK

\* Nothing changes while a search goes on.
LEMMA SmallStays ==
  ASSUME SmallOK, UNCHANGED <<a, b, work, script>>
  PROVE  SmallOK'
BY SmallNext DEF SmallOK

\* At the start nothing is printed, and nothing needs to be.
LEMMA InitSmall ==
  ASSUME Init
  PROVE  SmallOK
<1>1. /\ a \in Seq(Lines) /\ b \in Seq(Lines)
  BY InitKeeps DEF DInv, TypeOK
<1>2. Len(a) \in Nat /\ Len(b) \in Nat
  BY <1>1
<1>3. /\ work = <<Box(0, 0, Len(a), Len(b))>> /\ script = <<>>
      /\ Len(work) = 1 /\ DOMAIN work = {1} /\ Names(script) = {}
  BY DEF Init, Names
<1>4. /\ After(work, 1) = Box(Len(a), Len(b), Len(a), Len(b))
      /\ After(work, 0) = Box(0, 0, Len(a), Len(b))
      /\ work[1] = Box(0, 0, Len(a), Len(b))
  BY <1>3 DEF After
<1>5. Joined(Matches, work[1], After(work, 1))
  <2>1. work[1].x2 = Len(a) /\ After(work, 1).x1 = Len(a)
    BY <1>4 DEF Box
  <2> QED
    BY <1>2, <2>1 DEF Joined, Stretch
<1>6. Paired(a, b, script, 0, 0)
  <2>1. /\ Place(script, "del", 0) = 0 /\ Place(script, "add", 0) = 0
        /\ Left(script, "del", 0) = {}
    BY LeftNext, Zenon
  <2> QED
    BY <1>3, <2>1 DEF Paired
<1>7. After(work, 0).x1 = 0 /\ After(work, 0).y1 = 0
  BY <1>4 DEF Box
<1> QED
  BY <1>3, <1>5, <1>6, <1>7 DEF SmallOK

\* The next box is printed, and what is in common after it passed over.
LEMMA EmitKeepsSmall ==
  ASSUME DInv, ScriptOK, SmallOK, Emit
  PROVE  SmallOK'
<1> DEFINE old == Head(work)
           box == Trimmed(old)
           gone == Edits("del", box.x1, box.x2)
           come == Edits("add", box.y1, box.y2)
           w == Tail(work)
           s == script \o gone \o come
<1>1. /\ work # <<>> /\ UNCHANGED <<a, b>> /\ work' = w /\ script' = s
  BY DEF Emit, NextBox
<1>2. /\ work \in Seq(Boxes) /\ old \in Boxes /\ old = work[1] /\ 1 \in DOMAIN work
      /\ Len(work) \in Nat /\ Len(w) = Len(work) - 1
      /\ \A i \in 1..Len(w) : w[i] = work[i + 1]
  BY <1>1 DEF DInv, TypeOK
<1>3. InOrder(old, After(work, 1))
  BY <1>2, ChainedIs DEF DInv
<1>4. old.x1 <= old.x2 /\ old.y1 <= old.y2
  BY <1>3 DEF InOrder
<1>5. \A i \in 0..Len(w) : After(w, i) = After(work, i + 1)
  <2> SUFFICES ASSUME NEW i \in 0..Len(w)
               PROVE  After(w, i) = After(work, i + 1)
    OBVIOUS
  <2>1. /\ i < Len(w) <=> i + 1 < Len(work)
        /\ i < Len(w) => w[i + 1] = work[(i + 1) + 1]
    BY <1>2
  <2> QED
    BY <2>1 DEF After
<1>6. After(work, 0) = old /\ After(w, 0) = After(work, 1)
  <2>1. 0 < Len(work) /\ 0 + 1 = 1 /\ 0 \in 0..Len(w)
    BY <1>2
  <2>2. After(work, 0) = work[1]
    BY <2>1 DEF After
  <2> QED
    BY <1>2, <1>5, <2>1, <2>2
<1>7. /\ box \in Boxes
      /\ old.x1 <= box.x1 /\ box.x1 <= box.x2 /\ box.x2 <= old.x2
      /\ old.y1 <= box.y1 /\ box.y1 <= box.y2 /\ box.y2 <= old.y2
      /\ box.x1 - old.x1 = box.y1 - old.y1 /\ old.x2 - box.x2 = old.y2 - box.y2
      /\ Stretch(Matches, old.x1, old.y1, box.x1)
      /\ Stretch(Matches, box.x2, box.y2, old.x2)
  BY <1>2, <1>4, Trims, TrimsCommon
<1> HIDE DEF box
<1>8. /\ box.x1 \in Int /\ box.y1 \in Int /\ box.x2 \in Int /\ box.y2 \in Int
      /\ old.x2 \in Int /\ old.y2 \in Int
  BY <1>2, <1>7 DEF Boxes
<1>9. /\ \A i \in Int : <<"del", i>> \in Names(s) <=>
                          <<"del", i>> \in Names(script) \/ (box.x1 <= i /\ i < box.x2)
      /\ \A i \in Int : <<"add", i>> \in Names(s) <=>
                          <<"add", i>> \in Names(script) \/ (box.y1 <= i /\ i < box.y2)
  <2>1. script \in Seq(Entries) /\ gone \in Seq(Entries) /\ come \in Seq(Entries)
    BY <1>7, <1>8, EditsAre DEF ScriptOK
  <2>2. /\ \A k, i : <<k, i>> \in Names(gone) <=>
                       k = "del" /\ i \in Int /\ box.x1 <= i /\ i < box.x2
        /\ \A k, i : <<k, i>> \in Names(come) <=>
                       k = "add" /\ i \in Int /\ box.y1 <= i /\ i < box.y2
    BY <1>7, <1>8, EditNames
  <2> HIDE DEF gone, come
  <2>3. Names(s) = Names(script) \cup Names(gone) \cup Names(come)
    <3>1. script \o gone \in Seq(Entries)
      BY <2>1
    <3>2. Names(s) = Names(script \o gone) \cup Names(come)
      BY <2>1, <3>1, NamesTogether, ZenonT(60)
    <3> QED
      BY <2>1, <3>2, NamesTogether
  <2> HIDE DEF s
  <2>4. "del" # "add"
    OBVIOUS
  <2> QED
    BY <2>2, <2>3, <2>4
<1> HIDE DEF s, w, gone, come
<1>10. ASSUME Few
       PROVE  /\ \A i \in DOMAIN w : Joined(Matches, w[i], After(w, i))
              /\ Paired(a, b, s, After(w, 0).x1, After(w, 0).y1)
  <2>1. \A i \in DOMAIN work : Joined(Matches, work[i], After(work, i))
    BY <1>10 DEF SmallOK
  <2>2. Paired(a, b, script, old.x1, old.y1)
    BY <1>6, <1>10 DEF SmallOK
  <2>3. Paired(a, b, script, box.x1, box.y1)
    BY <1>7, <1>8, <2>2, PairedOver
  <2>4. Paired(a, b, s, box.x2, box.y2)
    BY <1>7, <1>8, <1>9, <2>3, PairedEdits
  <2>5. Paired(a, b, s, old.x2, old.y2)
    BY <1>7, <1>8, <2>4, PairedOver
  <2>6. Paired(a, b, s, After(work, 1).x1, After(work, 1).y1)
    <3>1. Stretch(Matches, old.x2, old.y2, After(work, 1).x1)
      BY <1>2, <2>1 DEF Joined
    <3>2. After(work, 1).x1 \in Int /\ After(work, 1).y1 \in Int
      <4>1. a \in Seq(Lines) /\ b \in Seq(Lines)
        BY DEF DInv, TypeOK
      <4>2. Box(Len(a), Len(b), Len(a), Len(b)) \in Boxes
        BY <4>1 DEF Box, Boxes
      <4>3. 1 < Len(work) => work[1 + 1] \in Boxes
        BY <1>2
      <4>4. After(work, 1) \in Boxes
        BY <4>2, <4>3 DEF After
      <4> QED
        BY <4>4 DEF Boxes
    <3> QED
      BY <1>3, <1>8, <2>5, <3>1, <3>2, PairedOver DEF InOrder
  <2>7. ASSUME NEW i \in DOMAIN w
        PROVE  Joined(Matches, w[i], After(w, i))
    <3>1. /\ i \in 0..Len(w) /\ w[i] = work[i + 1] /\ i + 1 \in DOMAIN work
      BY <1>2 DEF w
    <3> QED
      BY <1>5, <2>1, <3>1
  <2> QED
    BY <1>6, <2>6, <2>7
<1> QED
  BY <1>1, <1>10, SmallNext

\* The next box is searched: what is in common at its start is passed over.
LEMMA StartSearchKeepsSmall ==
  ASSUME DInv, SmallOK, StartSearch
  PROVE  SmallOK'
<1> DEFINE old == Head(work)
           box == Trimmed(old)
           w == <<box>> \o Tail(work)
<1>1. /\ work # <<>> /\ UNCHANGED <<a, b, script>> /\ work' = w
  BY DEF StartSearch, NextBox
<1>2. /\ work \in Seq(Boxes) /\ old \in Boxes /\ old = work[1] /\ 1 \in DOMAIN work
      /\ Len(work) \in Nat
  BY <1>1 DEF DInv, TypeOK
<1>3. InOrder(old, After(work, 1))
  BY <1>2, ChainedIs DEF DInv
<1>4. old.x1 <= old.x2 /\ old.y1 <= old.y2
  BY <1>3 DEF InOrder
<1>5. /\ box \in Boxes
      /\ old.x1 <= box.x1 /\ box.x2 <= old.x2 /\ box.y2 <= old.y2
      /\ box.x1 - old.x1 = box.y1 - old.y1 /\ old.x2 - box.x2 = old.y2 - box.y2
      /\ Stretch(Matches, old.x1, old.y1, box.x1)
      /\ Stretch(Matches, box.x2, box.y2, old.x2)
  BY <1>2, <1>4, Trims, TrimsCommon
<1> HIDE DEF box
<1>6. /\ box.x1 \in Int /\ box.y1 \in Int /\ box.x2 \in Int /\ box.y2 \in Int
      /\ old.x2 \in Int /\ old.y2 \in Int
  BY <1>2, <1>5 DEF Boxes
<1>7. /\ Len(w) = Len(work) /\ w[1] = box
      /\ \A i \in 2..Len(w) : w[i] = work[i]
      /\ DOMAIN w = 1..Len(w)
  <2>1. /\ Tail(work) \in Seq(Boxes) /\ Len(Tail(work)) = Len(work) - 1
        /\ \A i \in 1..Len(Tail(work)) : Tail(work)[i] = work[i + 1]
    BY <1>1, <1>2
  <2>2. <<box>> \in Seq(Boxes) /\ Len(<<box>>) = 1 /\ <<box>>[1] = box
    BY <1>5
  <2> QED
    BY <1>2, <2>1, <2>2
<1> HIDE DEF w
<1>8. \A i \in 1..Len(w) : After(w, i) = After(work, i)
  <2> SUFFICES ASSUME NEW i \in 1..Len(w)
               PROVE  After(w, i) = After(work, i)
    OBVIOUS
  <2>1. i < Len(w) => w[i + 1] = work[i + 1]
    BY <1>2, <1>7
  <2> QED
    BY <1>7, <2>1 DEF After
<1>9. After(work, 0) = old /\ After(w, 0) = box
  <2>1. 0 < Len(work) /\ 0 < Len(w) /\ 0 + 1 = 1
    BY <1>2, <1>7
  <2> QED
    BY <1>2, <1>7, <2>1 DEF After
<1>10. ASSUME Few
       PROVE  /\ \A i \in DOMAIN w : Joined(Matches, w[i], After(w, i))
              /\ Paired(a, b, script, After(w, 0).x1, After(w, 0).y1)
  <2>1. \A i \in DOMAIN work : Joined(Matches, work[i], After(work, i))
    BY <1>10 DEF SmallOK
  <2>2. Paired(a, b, script, old.x1, old.y1)
    BY <1>9, <1>10 DEF SmallOK
  <2>3. Paired(a, b, script, box.x1, box.y1)
    BY <1>5, <1>6, <2>2, PairedOver
  <2>4. Joined(Matches, box, After(work, 1))
    <3>1. Stretch(Matches, old.x2, old.y2, After(work, 1).x1)
      BY <1>2, <2>1 DEF Joined
    <3>2. ASSUME NEW i \in Nat, box.x2 + i < After(work, 1).x1
          PROVE  <<box.x2 + i, box.y2 + i>> \in Matches
      <4>1. CASE box.x2 + i < old.x2
        BY <1>5, <4>1 DEF Stretch
      <4>2. CASE ~(box.x2 + i < old.x2)
        <5>1. PICK j \in Nat : j = box.x2 + i - old.x2
          BY <1>6, <4>2
        <5>2. old.x2 + j = box.x2 + i /\ old.y2 + j = box.y2 + i
          BY <1>5, <1>6, <5>1
        <5> QED
          BY <3>1, <3>2, <5>2 DEF Stretch
      <4> QED
        BY <4>1, <4>2
    <3> QED
      BY <3>2 DEF Joined, Stretch
  <2>5. ASSUME NEW i \in DOMAIN w
        PROVE  Joined(Matches, w[i], After(w, i))
    <3>1. CASE i = 1
      BY <1>7, <1>8, <2>4, <3>1
    <3>2. CASE i # 1
      <4>1. i \in 2..Len(w) /\ i \in 1..Len(w) /\ i \in DOMAIN work
        BY <1>2, <1>7, <3>2
      <4> QED
        BY <1>7, <1>8, <2>1, <4>1
    <3> QED
      BY <3>1, <3>2
  <2> QED
    BY <1>9, <2>3, <2>5
<1> QED
  BY <1>1, <1>10, SmallNext

\* A box is split in the middle of a way of at most three lines: one at most is in
\* the second part, and the lines between the parts are in common.
LEMMA SplitKeepsSmall ==
  ASSUME DInv, ScriptOK, SmallOK, UNCHANGED <<a, b, script>>,
         NEW x1, NEW y1, NEW x2, NEW y2, NEW d, NEW g, Met(x1, y1, x2, y2, d, g)
  PROVE  SmallOK'
<1> DEFINE box == Head(work)
           p == Box(box.x1, box.y1, x1, y1)
           q == Box(x2, y2, box.x2, box.y2)
           w == <<p, q>> \o Tail(work)
<1>1. /\ work # <<>> /\ Trim(box) /\ d \in Nat /\ g \in Nat /\ g <= d
      /\ Walk(Matches, x1, y1, box.x2, box.y2, g)
  BY DEF Met
<1>2. /\ work \in Seq(Boxes) /\ box \in Boxes /\ p \in Boxes /\ q \in Boxes
      /\ work' = w
      /\ Between(Matches, box, d + g)
  BY SplitDistances
<1>3. /\ Len(work) \in Nat /\ Len(work) >= 1 /\ box = work[1] /\ 1 \in DOMAIN work
      /\ DOMAIN work = 1..Len(work)
  BY <1>1, <1>2
<1>4. /\ box.x1 \in Int /\ box.y1 \in Int /\ box.x2 \in Int /\ box.y2 \in Int
      /\ x1 \in Int /\ y1 \in Int /\ x2 \in Int /\ y2 \in Int
      /\ x2 <= box.x2 /\ y2 <= box.y2 /\ x2 - x1 = y2 - y1
  BY <1>2 DEF Met, Inside, Boxes
<1>5. /\ p.x1 = box.x1 /\ p.y1 = box.y1 /\ p.x2 = x1 /\ p.y2 = y1
      /\ q.x1 = x2 /\ q.y1 = y2 /\ q.x2 = box.x2 /\ q.y2 = box.y2
  BY DEF Box
<1> HIDE DEF p, q
<1>6. /\ w \in Seq(Boxes) /\ Len(w) = Len(work) + 1
      /\ w[1] = p /\ w[2] = q
      /\ \A i \in 3..Len(w) : w[i] = work[i - 1]
      /\ DOMAIN w = 1..Len(w)
  BY <1>1, <1>2, SplitSequence
<1> HIDE DEF w
<1>7. After(work, 0) = box /\ After(w, 0) = p /\ After(w, 1) = q /\ After(w, 2) = After(work, 1)
  <2>1. /\ 0 < Len(work) /\ 0 < Len(w) /\ 1 < Len(w) /\ 0 + 1 = 1 /\ 1 + 1 = 2
        /\ (2 < Len(w) <=> 1 < Len(work)) /\ (2 < Len(w) => w[2 + 1] = work[1 + 1])
    BY <1>3, <1>6
  <2> QED
    BY <1>3, <1>6, <2>1 DEF After
<1>8. \A i \in 3..Len(w) : After(w, i) = After(work, i - 1)
  <2> SUFFICES ASSUME NEW i \in 3..Len(w)
               PROVE  After(w, i) = After(work, i - 1)
    OBVIOUS
  <2>1. /\ i < Len(w) <=> i - 1 < Len(work)
        /\ i < Len(w) => w[i + 1] = work[(i - 1) + 1]
    BY <1>3, <1>6
  <2> QED
    BY <2>1 DEF After
<1>9. ASSUME Few
      PROVE  /\ \A i \in DOMAIN w : Joined(Matches, w[i], After(w, i))
             /\ Paired(a, b, script, After(w, 0).x1, After(w, 0).y1)
  <2>1. \A i \in DOMAIN work : Joined(Matches, work[i], After(work, i))
    BY <1>9 DEF SmallOK
  <2>2. Paired(a, b, script, box.x1, box.y1)
    BY <1>7, <1>9 DEF SmallOK
  <2>3. g \in {0, 1}
    <3>1. PICK f, e : /\ Distance(Matches, 0, 0, Len(a), Len(b), e)
                      /\ Counted(Matches, work, Len(script), f, e)
      BY DEF ScriptOK
    <3>2. PICK c \in 0..3 : Distance(Matches, 0, 0, Len(a), Len(b), c)
      BY <1>9 DEF Few
    <3>3. e <= c
      BY <3>1, <3>2 DEF Distance
    <3>4. e \in Int /\ d + g <= e
      <4>1. Len(script) \in Nat
        BY DEF ScriptOK
      <4> QED
        BY <1>1, <1>2, <3>1, <4>1, CountedWithin
    <3> QED
      BY <1>1, <3>2, <3>3, <3>4
  <2>4. Joined(Matches, p, q)
    <3>1. <<box.x2 - 1, box.y2 - 1>> \notin Matches
      <4>1. box.x2 - 1 \in Int /\ box.y2 - 1 \in Int /\ ~Same(box.x2 - 1, box.y2 - 1)
        BY <1>1, <1>4 DEF Trim
      <4> QED
        BY <4>1, MatchesAre
    <3>2. Stretch(Matches, x1, y1, x2)
      BY <1>1, <1>4, <2>3, <3>1, LateEdit
    <3> QED
      BY <1>5, <3>2 DEF Joined
  <2>5. Joined(Matches, q, After(work, 1))
    <3>1. Joined(Matches, box, After(work, 1))
      BY <1>3, <2>1
    <3> QED
      BY <1>5, <3>1 DEF Joined
  <2>6. ASSUME NEW i \in DOMAIN w
        PROVE  Joined(Matches, w[i], After(w, i))
    <3>1. CASE i = 1
      BY <1>6, <1>7, <2>4, <3>1
    <3>2. CASE i = 2
      BY <1>6, <1>7, <2>5, <3>2
    <3>3. CASE i # 1 /\ i # 2
      <4>1. i \in 3..Len(w) /\ i - 1 \in DOMAIN work
        BY <1>3, <1>6, <3>3
      <4> QED
        BY <1>6, <1>8, <2>1, <4>1
    <3> QED
      BY <3>1, <3>2, <3>3
  <2> QED
    BY <1>5, <1>7, <2>2, <2>6
<1>10. script' = script
  OBVIOUS
<1> QED
  BY <1>2, <1>9, <1>10, SmallNext

\* The loops of search_path keep the invariant.
LEMMA SearchKeepsSmall ==
  ASSUME ShortInv, SmallOK, Forward \/ Backward
  PROVE  SmallOK'
<1>1. /\ UNCHANGED <<a, b, script>>
      /\ \/ ForwardOn \/ BackwardOn
         \/ \E x1, y1, x2, y2, d, g : Met(x1, y1, x2, y2, d, g)
  BY ForwardSplits, BackwardSplits
<1>2. CASE ForwardOn \/ BackwardOn
  BY <1>1, <1>2, OnStays, SmallStays DEF ShortInv
<1>3. CASE \E x1, y1, x2, y2, d, g : Met(x1, y1, x2, y2, d, g)
  BY <1>1, <1>3, SplitKeepsSmall DEF ShortInv
<1> QED
  BY <1>1, <1>2, <1>3

\* Every step keeps it.
LEMMA SmallStep ==
  ASSUME SmallInv, [Next]_vars
  PROVE  SmallInv'
<1>1. ShortInv' /\ ShortInv /\ SmallOK /\ DInv /\ ScriptOK
  BY ShortStep DEF SmallInv, ShortInv
<1>2. CASE Emit
  BY <1>1, <1>2, EmitKeepsSmall DEF SmallInv
<1>3. CASE StartSearch
  BY <1>1, <1>3, StartSearchKeepsSmall DEF SmallInv
<1>4. CASE Forward \/ Backward
  BY <1>1, <1>4, SearchKeepsSmall DEF SmallInv
<1>5. CASE WriteOutside \/ UNCHANGED vars
  <2>1. UNCHANGED <<a, b, work, script>>
    BY <1>5 DEF WriteOutside, vars
  <2> QED
    BY <1>1, <2>1, SmallStays DEF SmallInv
<1> QED
  BY <1>2, <1>3, <1>4, <1>5 DEF Next

\* A script of at most three lines, which is a shortest one, tells that the texts
\* differ in as few.
LEMMA SmallWhenFinished ==
  ASSUME SmallInv
  PROVE  SmallChangeRight
<1> SUFFICES ASSUME Finished, Len(script) <= 3
             PROVE  Transforms
  BY DEF SmallChangeRight
<1>1. a \in Seq(Lines) /\ b \in Seq(Lines) /\ script \in Seq(Entries)
  BY DEF SmallInv, ShortInv, DInv, TypeOK, ScriptOK
<1>2. PICK f, e : /\ Distance(Matches, 0, 0, Len(a), Len(b), e)
                  /\ Counted(Matches, work, Len(script), f, e)
  BY DEF SmallInv, ShortInv, ScriptOK
<1>3. work = <<>> /\ Len(work) = 0
  BY DEF Finished
<1>4. Len(script) = e
  BY <1>2, <1>3 DEF Counted
<1>5. Len(script) \in 0..3
  <2>1. PICK n \in Nat : n = Len(script)
    BY <1>1
  <2>2. n <= 3
    BY <2>1
  <2>3. n \in 0..3
    BY <2>2
  <2> QED
    BY <2>1, <2>3
<1>6. Few
  BY <1>2, <1>4, <1>5 DEF Few
<1>7. After(work, 0).x1 = Len(a) /\ After(work, 0).y1 = Len(b)
  BY <1>3 DEF After, Box
<1> QED
  BY <1>6, <1>7, PairedTransforms DEF SmallInv, SmallOK

\* A change of at most three lines is printed right (diff.c), whatever the texts and
\* wherever in them the lines are.
THEOREM SmallChangesRight == Spec => []SmallChangeRight
<1>1. Init => SmallInv
  BY InitKeeps, InitScript, InitSmall DEF SmallInv, ShortInv, FarOK, Init
<1>2. SmallInv /\ [Next]_vars => SmallInv'
  BY SmallStep
<1>3. SmallInv => SmallChangeRight
  BY SmallWhenFinished
<1> QED
  BY <1>1, <1>2, <1>3, PTL DEF Spec

-----------------------------------------------------------------------------
(* Where the arrays do not suffice *)

\* The elements of bv that were written: the first one, and those on diagonals
\* that are not further away than the search has come.
WrittenOK ==
  LET box == Head(work) s == search
      d == IF s.dir = "forward" THEN s.d - 1 ELSE s.d
      corner == Half(box) + Delta(box) IN
  phase = "search" =>
    \A i \in DOMAIN s.bv : i = corner + 1 \/ i - corner \in (-d)..d

\* A box is split no further, or is too small to lead outside.
Tame(box) ==
  \/ box.x1 = box.x2 \/ box.y1 = box.y2
  \/ box.x2 - box.x1 <= 2 /\ box.y2 - box.y1 <= 2

NearTexts ==
  Near(Len(a), Len(b), {p \in (1..Len(a)) \X (1..Len(b)) : a[p[1]] = b[p[2]]})

TameOK ==
  NearTexts =>
    \/ \A i \in DOMAIN work : Tame(work[i])
    \/ phase = "script" /\ work = <<Box(0, 0, Len(a), Len(b))>>

OutInv == ShortInv /\ WrittenOK /\ TameOK /\ ArraysSuffice /\ NearStaysInside

\* A distance that was not reached with u lines takes two more at least.
LEMMA TwoMore ==
  ASSUME NEW M, NEW box \in Boxes, NEW e \in Nat,
         Walk(M, box.x1, box.y1, box.x2, box.y2, e),
         NEW u \in Int, Unreached(M, box, u), (u - e) % 2 = 0
  PROVE  e >= u + 2
<1>1. ASSUME e <= u PROVE FALSE
  <2>1. u \in Nat
    BY <1>1
  <2>2. box.x1 \in Int /\ box.y1 \in Int
    BY DEF Boxes
  <2>3. Walk(M, box.x1, box.y1, box.x2, box.y2, u)
    BY <1>1, <2>1, <2>2, Wasted
  <2> QED
    BY <2>3 DEF Unreached
<1>2. ASSUME NEW f \in Int, f <= 1, f > 0, (-f) % 2 = 0 PROVE FALSE
  BY <1>2
<1> QED
  BY <1>1, <1>2

\* What a box has in common, if u lines do not lead through it.
LEMMA FewCommon ==
  ASSUME NEW box, Trim(box), NEW d \in Int, NEW u \in Int, Unreached(Matches, box, u),
         (u - Delta(box)) % 2 = 0, u + 2 >= 2 * d + Slack(Width(box), Height(box))
  PROVE  /\ Common(box) \in Nat /\ Common(box) <= Width(box) /\ Common(box) <= Height(box)
         /\ Width(box) + Height(box) - 2 * Common(box)
              >= 2 * d + Slack(Width(box), Height(box))
<1> DEFINE n == Width(box) m == Height(box) l == Common(box)
<1>1. /\ box \in Boxes /\ box.x1 \in Int /\ box.y1 \in Int /\ box.x2 \in Int /\ box.y2 \in Int
      /\ box.x1 <= box.x2 /\ box.y1 <= box.y2
      /\ n \in Nat /\ m \in Nat /\ n = box.x2 - box.x1 /\ m = box.y2 - box.y1
      /\ Delta(box) = n - m /\ Slack(n, m) \in {0, 1}
  BY Sides DEF Trim
<1>2. PICK e \in Nat : Distance(Matches, box.x1, box.y1, box.x2, box.y2, e)
  BY <1>1, DistanceExists
<1>3. l \in Nat /\ e = n + m - 2 * l
  BY <1>1, <1>2, CommonCounts
<1>4. Walk(Matches, box.x1, box.y1, box.x2, box.y2, e)
  BY <1>2 DEF Distance
<1>5. n - m <= e /\ m - n <= e /\ (e - (n - m)) % 2 = 0
  BY <1>1, <1>4, WalkBounds
<1> HIDE DEF n, m, l
<1>6. l <= n /\ l <= m
  BY <1>1, <1>3, <1>5
<1>7. (u - e) % 2 = 0
  BY <1>1, <1>5
<1>8. e >= u + 2
  BY <1>1, <1>4, <1>7, TwoMore
<1>9. u + 2 >= 2 * d + Slack(n, m)
  BY DEF n, m
<1>10. n + m - 2 * l >= 2 * d + Slack(n, m)
  BY <1>1, <1>3, <1>8, <1>9
<1> QED
  BY <1>3, <1>6, <1>10 DEF n, m, l

\* An index outside of the arrays of a box with so few lines in common.
LEMMA OutsideApart ==
  ASSUME NEW n \in Int, NEW m \in Int, n >= 1, m >= 1, NEW h \in Nat,
         NEW slack \in {0, 1}, 2 * h = n + m + slack,
         NEW l \in Nat, l <= n, l <= m, NEW d \in Int, n + m - 2 * l >= 2 * d + slack,
         NEW i \in Int, i = h + (n - m) + 1 \/ i - (h + (n - m)) \in (-d)..d,
         i \notin 0..(2 * h)
  PROVE  l + slack < Abs(n - m)
<1>1. CASE i = h + (n - m) + 1
  BY <1>1 DEF Abs
<1>2. CASE i - (h + (n - m)) \in (-d)..d
  BY <1>2 DEF Abs
<1> QED
  BY <1>1, <1>2

\* Where an element outside is written the sides of the box differ by more lines
\* than it has in common.
LEMMA OutsideFewCommon ==
  ASSUME ShortInv, WrittenOK, WriteOutside
  PROVE  LET box == Head(work) apart == Abs(Delta(box)) IN
         Common(box) + (apart % 2) < apart
<1> DEFINE box == Head(work)
           s == search
           n == Width(box)
           m == Height(box)
           corner == Half(box) + Delta(box)
           back == IF s.dir = "forward" THEN s.d - 1 ELSE s.d
<1>1. phase = "search"
  BY DEF WriteOutside
<1>2. /\ Trim(box) /\ s.bv \in Memory /\ s.d \in Nat /\ s.k \in Lanes(s.d)
      /\ s \in Searches
  BY <1>1, SearchParts DEF ShortInv
<1>3. /\ n \in Int /\ n >= 1 /\ m \in Int /\ m >= 1
      /\ Half(box) \in Nat /\ Delta(box) = n - m
      /\ 2 * Half(box) = n + m + Slack(n, m) /\ Slack(n, m) \in {0, 1}
  BY <1>2, Sides DEF Trim
<1>4. s.dir \in {"forward", "backward"}
  BY <1>2 DEF Searches
<1>5. PICK i \in Int : /\ i \notin Allocated(box)
                       /\ i = corner + 1 \/ i - corner \in (-back)..back
  <2>1. CASE ~(DOMAIN s.bv \subseteq Allocated(box))
    <3>1. PICK i \in DOMAIN s.bv : i \notin Allocated(box)
      BY <2>1
    <3>2. i \in Int
      BY <1>2, <3>1, MemoryParts
    <3>3. i = corner + 1 \/ i - corner \in (-back)..back
      BY <1>1, <3>1 DEF WrittenOK
    <3> QED
      BY <3>1, <3>2, <3>3
  <2>2. CASE s.dir = "backward" /\ BackIndex \notin Allocated(box)
    <3>1. BackIndex = s.k + Delta(box) + Half(box) /\ s.k \in (-s.d)..s.d /\ s.k \in Int
      BY <1>2 DEF BackIndex, Lanes
    <3>2. BackIndex \in Int /\ BackIndex - corner \in (-s.d)..s.d
      BY <1>2, <1>3, <3>1
    <3>3. back = s.d
      BY <2>2
    <3> QED
      BY <2>2, <3>2, <3>3
  <2> QED
    BY <1>1, <2>1, <2>2 DEF WriteOutside
<1>6. back \in Int
  BY <1>2
<1>7. PICK u \in Int : /\ Unreached(Matches, box, u)
                       /\ (u - Delta(box)) % 2 = 0
                       /\ u + 2 >= 2 * back + Slack(n, m)
  <2>1. CASE s.dir = "backward"
    <3>1. BackwardFar(Matches, box, Ahd(box, s.fv), Bck(box, s.bv), s.d, s.k)
      BY <1>1, <2>1 DEF ShortInv, FarOK
    <3>2. Unreached(Matches, box, IF Odd(n, m) THEN 2 * s.d - 1 ELSE 2 * s.d - 2)
      BY <3>1 DEF BackwardFar
    <3>3. back = s.d
      BY <2>1
    <3> HIDE DEF back, n, m
    <3> QED
      BY <1>2, <1>3, <3>2, <3>3 DEF Odd, Slack
  <2>2. CASE s.dir = "forward"
    <3>1. ForwardFar(Matches, box, Ahd(box, s.fv), Bck(box, s.bv), s.d, s.k)
      BY <1>1, <2>2 DEF ShortInv, FarOK
    <3>2. Unreached(Matches, box, IF Odd(n, m) THEN 2 * s.d - 3 ELSE 2 * s.d - 2)
      BY <3>1 DEF ForwardFar
    <3>3. back = s.d - 1
      BY <2>2
    <3> HIDE DEF back, n, m
    <3> QED
      BY <1>2, <1>3, <3>2, <3>3 DEF Odd, Slack
  <2> QED
    BY <1>4, <2>1, <2>2
<1>8. /\ Common(box) \in Nat /\ Common(box) <= n /\ Common(box) <= m
      /\ n + m - 2 * Common(box) >= 2 * back + Slack(n, m)
  <2> HIDE DEF back
  <2> QED
    BY <1>2, <1>6, <1>7, FewCommon
<1> HIDE DEF n, m, box, back, corner
<1>9. Common(box) + Slack(n, m) < Abs(n - m)
  <2>1. i \notin 0..(2 * Half(box))
    BY <1>5 DEF Allocated
  <2>2. \/ i = Half(box) + (n - m) + 1
        \/ i - (Half(box) + (n - m)) \in (-back)..back
    BY <1>3, <1>5 DEF corner
  <2> QED
    BY <1>3, <1>6, <1>8, <2>1, <2>2, OutsideApart
<1>10. Abs(Delta(box)) = Abs(n - m) /\ Abs(n - m) % 2 = Slack(n, m)
  BY <1>3 DEF Abs, Slack, Odd
<1> QED
  BY <1>9, <1>10 DEF box

\* The next box lies in the one that waits.
LEMMA NextBoxIs ==
  ASSUME DInv, work # <<>>
  PROVE  LET old == Head(work) IN
         /\ old \in Boxes /\ old.x1 <= old.x2 /\ old.y1 <= old.y2
         /\ NextBox \in Boxes
         /\ old.x1 <= NextBox.x1 /\ NextBox.x1 <= NextBox.x2 /\ NextBox.x2 <= old.x2
         /\ old.y1 <= NextBox.y1 /\ NextBox.y1 <= NextBox.y2 /\ NextBox.y2 <= old.y2
         /\ Half(NextBox) \in Int /\ Delta(NextBox) \in Int
<1> DEFINE old == Head(work)
<1>1. old \in Boxes /\ old = work[1] /\ 1 \in DOMAIN work
  BY DEF DInv, TypeOK
<1>2. old.x1 <= old.x2 /\ old.y1 <= old.y2
  BY <1>1, ChainedIs DEF DInv, InOrder
<1>3. /\ NextBox \in Boxes
      /\ old.x1 <= NextBox.x1 /\ NextBox.x1 <= NextBox.x2 /\ NextBox.x2 <= old.x2
      /\ old.y1 <= NextBox.y1 /\ NextBox.y1 <= NextBox.y2 /\ NextBox.y2 <= old.y2
  BY <1>1, <1>2, Trims DEF NextBox
<1>4. Half(NextBox) \in Int /\ Delta(NextBox) \in Int
  BY <1>3 DEF Boxes, Half, Delta
<1> QED
  BY <1>1, <1>2, <1>3, <1>4

\* The way back writes on its diagonals, and the next search starts at the corner.
LEMMA KeepsWritten ==
  ASSUME ShortInv, WrittenOK, [Next]_vars
  PROVE  WrittenOK'
<1>1. CASE phase' # "search"
  BY <1>1 DEF WrittenOK
<1>2. CASE StartSearch
  <2>1. work # <<>> /\ work' = <<NextBox>> \o Tail(work)
    BY <1>2 DEF StartSearch
  <2>2. Head(work') = NextBox
    BY <2>1
  <2>3. search'.bv = Element(1 + Half(NextBox) + Delta(NextBox), NextBox.y2)
    BY <1>2 DEF StartSearch
  <2>4. Half(NextBox) \in Int /\ Delta(NextBox) \in Int
    BY <2>1, NextBoxIs DEF ShortInv
  <2>5. \A i \in DOMAIN search'.bv : i = Half(NextBox) + Delta(NextBox) + 1
    BY <2>3, <2>4 DEF Element
  <2> QED
    BY <2>2, <2>5 DEF WrittenOK
<1>3. CASE ForwardOn
  <2> DEFINE box == Head(work) s == search t == search'
             corner == Half(box) + Delta(box)
  <2>1. /\ phase = "search" /\ s.d \in Nat /\ s.dir = "forward"
        /\ Half(box) \in Int /\ Delta(box) \in Int
        /\ s.bv \in Memory /\ DOMAIN s.bv \subseteq Int
    BY <1>3, SearchParts, MemoryParts DEF ShortInv, ForwardOn
  <2>2. /\ UNCHANGED work /\ t.bv = s.bv /\ t.d = s.d
        /\ t.dir = "forward" \/ t.dir = "backward"
    BY <1>3, ForwardTurns DEF ShortInv
  <2>3. \A i \in DOMAIN s.bv : i = corner + 1 \/ i - corner \in (-(s.d - 1))..(s.d - 1)
    BY <2>1 DEF WrittenOK
  <2> HIDE DEF corner
  <2>4. \A i \in DOMAIN s.bv : i = corner + 1 \/ i - corner \in (-s.d)..s.d
    BY <2>1, <2>3
  <2> QED
    BY <2>2, <2>3, <2>4 DEF WrittenOK, corner
<1>4. CASE BackwardOn /\ phase' = "search"
  <2> DEFINE box == Head(work) s == search t == search'
             corner == Half(box) + Delta(box)
  <2>1. /\ phase = "search" /\ s.d \in Nat /\ s.dir = "backward"
        /\ s.k \in Lanes(s.d) /\ Half(box) \in Int /\ Delta(box) \in Int
    BY <1>4, SearchParts DEF ShortInv, BackwardOn
  <2>2. s.k \in Int /\ s.k \in (-s.d)..s.d
    BY <2>1 DEF Lanes
  <2>3. /\ UNCHANGED work
        /\ DOMAIN t.bv = DOMAIN s.bv \cup {s.k + Delta(box) + Half(box)}
        /\ \/ t.dir = "backward" /\ t.d = s.d
           \/ t.dir = "forward" /\ t.d = s.d + 1
    BY <1>4, BackwardTurns DEF ShortInv
  <2>4. \A i \in DOMAIN s.bv : i = corner + 1 \/ i - corner \in (-s.d)..s.d
    BY <2>1 DEF WrittenOK
  <2>5. (s.k + Delta(box) + Half(box)) - corner = s.k
    BY <2>1, <2>2
  <2>6. (IF t.dir = "forward" THEN t.d - 1 ELSE t.d) = s.d
    BY <2>1, <2>3
  <2> HIDE DEF corner
  <2>7. \A i \in DOMAIN t.bv : i = corner + 1 \/ i - corner \in (-s.d)..s.d
    BY <2>2, <2>3, <2>4, <2>5
  <2> QED
    BY <2>3, <2>6, <2>7 DEF WrittenOK, corner
<1>5. CASE UNCHANGED vars
  BY <1>5 DEF vars, WrittenOK
<1>6. CASE Emit \/ WriteOutside
  BY <1>1, <1>6 DEF Emit, WriteOutside
<1>7. CASE Forward
  BY <1>1, <1>3, <1>7, ForwardSplits
<1>8. CASE Backward
  BY <1>1, <1>4, <1>8, BackwardSplits
<1> QED
  BY <1>2, <1>5, <1>6, <1>7, <1>8 DEF Next

\* What the trimming leaves of texts that are near.
LEMMA NearTrimmed ==
  ASSUME DInv, NearTexts
  PROVE  Tame(Trimmed(Box(0, 0, Len(a), Len(b))))
<1> DEFINE n == Len(a)
           m == Len(b)
           box == Box(0, 0, n, m)
           p == Ahead(0, 0, box)
           rest == Box(p, p, n, m)
           q == Behind(n, m, rest)
           t == Trimmed(box)
<1>1. n \in Nat /\ m \in Nat
  BY DEF DInv, TypeOK
<1>2. PICK i \in 0..n, j \in 0..n :
        /\ n - i - j >= 0 /\ m - i - j >= 0
        /\ \A k \in 1..i : a[k] = b[k]
        /\ \A k \in 1..j : a[n + 1 - k] = b[m + 1 - k]
        /\ n - i - j = 0 \/ m - i - j = 0 \/ (n - i - j <= 2 /\ m - i - j <= 2)
  BY Zenon DEF NearTexts, Near
<1>3. /\ box.x1 = 0 /\ box.y1 = 0 /\ box.x2 = n /\ box.y2 = m
      /\ rest.x1 = p /\ rest.y1 = p /\ rest.x2 = n /\ rest.y2 = m
  BY DEF Box
<1>4. /\ p \in Nat /\ p <= n /\ p <= m
      /\ p < n /\ p < m => a[p + 1] # b[p + 1]
  <2>1. /\ p \in Nat
        /\ p = 0 \/ (0 + p <= n /\ 0 + p <= m)
        /\ 0 + p < n /\ 0 + p < m => ~Same(0 + p, 0 + p)
    <3> HIDE DEF box
    <3> QED
      BY <1>1, <1>3, AheadSlides
  <2> HIDE DEF p, n, m
  <2>2. p <= n /\ p <= m
    BY <1>1, <2>1
  <2>3. p < n /\ p < m => ~Same(p, p)
    BY <2>1
  <2> QED
    BY <2>1, <2>2, <2>3 DEF Same
<1>5. /\ t.x1 = p /\ t.y1 = p /\ t.x2 = n - q /\ t.y2 = m - q
  <2>1. t = Box(0 + p, 0 + p, n - q, m - q)
    BY <1>3, <1>4 DEF Trimmed
  <2> HIDE DEF t, p, q
  <2> QED
    BY <1>4, <2>1 DEF Box
<1> HIDE DEF box, t, p
<1>6. /\ q \in Nat
      /\ q = 0 \/ (n - q >= p /\ m - q >= p)
      /\ n - q > p /\ m - q > p => a[n - q] # b[m - q]
  <2>1. /\ q \in Nat
        /\ q = 0 \/ (n - q >= p /\ m - q >= p)
        /\ n - q > p /\ m - q > p => ~Same(n - q - 1, m - q - 1)
    <3> HIDE DEF rest
    <3> QED
      BY <1>1, <1>3, <1>4, BehindSlides
  <2> HIDE DEF q, n, m
  <2>2. n - q - 1 + 1 = n - q /\ m - q - 1 + 1 = m - q
    BY <1>1, <2>1
  <2> QED
    BY <2>1, <2>2 DEF Same
<1> HIDE DEF q, n, m
<1>0. i \in Nat /\ j \in Nat
  BY <1>1, <1>2
<1>7. p >= i \/ p = n \/ p = m
  <2> SUFFICES ASSUME p < i PROVE FALSE
    BY <1>2, <1>4
  <2>1. p + 1 \in 1..i /\ p < n /\ p < m
    BY <1>1, <1>2, <1>4
  <2> QED
    BY <1>2, <1>4, <2>1
<1>8. n - q > p /\ m - q > p => q >= j
  <2> SUFFICES ASSUME n - q > p, m - q > p, q < j PROVE FALSE
    BY <1>0, <1>6
  <2>1. q + 1 \in 1..j /\ n + 1 - (q + 1) = n - q /\ m + 1 - (q + 1) = m - q
    BY <1>1, <1>0, <1>6
  <2>2. a[n - q] = b[m - q]
    BY <1>2, <2>1
  <2> QED
    BY <1>6, <2>2
<1>9. n - q >= p /\ m - q >= p
  BY <1>1, <1>4, <1>6
<1>10. CASE n - q = p \/ m - q = p
  BY <1>5, <1>10 DEF Tame, t, box, n, m
<1>11. CASE n - q > p /\ m - q > p
  <2>1. p >= i /\ q >= j
    BY <1>1, <1>0, <1>4, <1>6, <1>7, <1>8, <1>11
  <2>2. (n - q) - p <= 2 /\ (m - q) - p <= 2
    BY <1>1, <1>0, <1>2, <1>4, <1>6, <1>11, <2>1
  <2> QED
    BY <1>5, <2>2 DEF Tame, t, box, n, m
<1> QED
  BY <1>1, <1>4, <1>6, <1>9, <1>10, <1>11

\* The boxes that a box is split into, or trimmed to, are no worse than it.
LEMMA TameWithin ==
  ASSUME NEW old \in Boxes, NEW t \in Boxes, Tame(old),
         old.x1 <= t.x1, t.x1 <= t.x2, t.x2 <= old.x2,
         old.y1 <= t.y1, t.y1 <= t.y2, t.y2 <= old.y2
  PROVE  Tame(t)
<1>1. /\ old.x1 \in Int /\ old.y1 \in Int /\ old.x2 \in Int /\ old.y2 \in Int
      /\ t.x1 \in Int /\ t.y1 \in Int /\ t.x2 \in Int /\ t.y2 \in Int
  BY DEF Boxes
<1> QED
  BY <1>1 DEF Tame

\* The search starts with a box that is small enough, if the texts are near.
LEMMA StartSearchKeepsTame ==
  ASSUME DInv, TameOK, StartSearch
  PROVE  TameOK'
<1> SUFFICES ASSUME NearTexts, NEW i \in DOMAIN work'
             PROVE  Tame(work'[i])
  <2>1. UNCHANGED <<a, b>>
    BY DEF StartSearch
  <2>2. NearTexts' = NearTexts
    BY <2>1 DEF NearTexts
  <2> QED
    BY <2>2 DEF TameOK
<1>1. /\ work \in Seq(Boxes) /\ work # <<>>
      /\ work' = <<NextBox>> \o Tail(work)
  BY DEF DInv, TypeOK, StartSearch
<1>2. work'[1] = NextBox /\ (i = 1 \/ (i \in DOMAIN work /\ work'[i] = work[i]))
  BY <1>1
<1>3. CASE \A k \in DOMAIN work : Tame(work[k])
  <2>1. Tame(NextBox)
    <3>1. Head(work) = work[1] /\ 1 \in DOMAIN work
      BY <1>1
    <3> QED
      BY <1>1, <1>3, <3>1, NextBoxIs, TameWithin
  <2> QED
    BY <1>3, <1>2, <2>1
<1>4. CASE work = <<Box(0, 0, Len(a), Len(b))>>
  <2>1. Head(work) = Box(0, 0, Len(a), Len(b)) /\ Tail(work) = <<>>
    BY <1>4
  <2>2. Tame(NextBox)
    BY <2>1, NearTrimmed DEF NextBox
  <2>3. i = 1
    BY <1>4, <1>2
  <2> QED
    BY <1>2, <2>2, <2>3
<1> QED
  BY <1>3, <1>4 DEF TameOK

\* A split leaves boxes that are.
LEMMA SplitKeepsTame ==
  ASSUME DInv, TameOK, phase = "search", UNCHANGED <<a, b>>,
         NEW x1, NEW y1, NEW x2, NEW y2, NEW d, NEW g, Met(x1, y1, x2, y2, d, g)
  PROVE  TameOK'
<1> SUFFICES ASSUME NearTexts, NEW i \in DOMAIN work'
             PROVE  Tame(work'[i])
  <2>1. NearTexts' = NearTexts
    BY DEF NearTexts
  <2> QED
    BY <2>1 DEF TameOK
<1> DEFINE box == Head(work)
           p == Box(box.x1, box.y1, x1, y1)
           q == Box(x2, y2, box.x2, box.y2)
<1>1. /\ work # <<>> /\ work \in Seq(Boxes) /\ box \in Boxes /\ p \in Boxes /\ q \in Boxes
      /\ work' = <<p, q>> \o Tail(work)
  BY SplitDistances DEF Met
<1>2. \A k \in DOMAIN work : Tame(work[k])
  BY DEF TameOK
<1>3. Tame(box)
  <2>1. box = work[1] /\ 1 \in DOMAIN work
    BY <1>1
  <2> QED
    BY <1>2, <2>1
<1>4. /\ box.x1 \in Int /\ box.y1 \in Int /\ box.x2 \in Int /\ box.y2 \in Int
      /\ x1 \in Int /\ y1 \in Int /\ x2 \in Int /\ y2 \in Int
      /\ box.x1 <= x1 /\ x1 <= x2 /\ x2 <= box.x2
      /\ box.y1 <= y1 /\ y1 <= y2 /\ y2 <= box.y2
  BY <1>1 DEF Met, Inside, Boxes
<1>5. /\ p.x1 = box.x1 /\ p.y1 = box.y1 /\ p.x2 = x1 /\ p.y2 = y1
      /\ q.x1 = x2 /\ q.y1 = y2 /\ q.x2 = box.x2 /\ q.y2 = box.y2
  BY DEF Box
<1> HIDE DEF p, q, box
<1>6. Tame(p)
  <2>1. /\ box.x1 <= p.x1 /\ p.x1 <= p.x2 /\ p.x2 <= box.x2
        /\ box.y1 <= p.y1 /\ p.y1 <= p.y2 /\ p.y2 <= box.y2
    BY <1>4, <1>5
  <2> QED
    BY <1>1, <1>3, <2>1, TameWithin
<1>7. Tame(q)
  <2>1. /\ box.x1 <= q.x1 /\ q.x1 <= q.x2 /\ q.x2 <= box.x2
        /\ box.y1 <= q.y1 /\ q.y1 <= q.y2 /\ q.y2 <= box.y2
    BY <1>4, <1>5
  <2> QED
    BY <1>1, <1>3, <2>1, TameWithin
<1>8. /\ work'[1] = p /\ work'[2] = q
      /\ \A k \in 3..Len(work') : work'[k] = work[k - 1]
      /\ DOMAIN work' = 1..Len(work') /\ Len(work') = Len(work) + 1
  BY <1>1, SplitSequence
<1>9. ASSUME i # 1, i # 2
      PROVE  Tame(work'[i])
  <2>1. i \in 3..Len(work') /\ i - 1 \in DOMAIN work
    BY <1>1, <1>8, <1>9
  <2> QED
    BY <1>2, <1>8, <2>1
<1> QED
  BY <1>6, <1>7, <1>8, <1>9

\* Every step keeps the invariant of TameOK.
LEMMA TameStep ==
  ASSUME ShortInv, TameOK, [Next]_vars
  PROVE  TameOK'
<1>1. DInv
  BY DEF ShortInv
<1>2. ASSUME UNCHANGED <<a, b, work>>, phase = "search" \/ UNCHANGED phase
      PROVE  TameOK'
  <2>1. NearTexts' = NearTexts
    BY <1>2 DEF NearTexts
  <2>2. NearTexts /\ phase = "search" => \A i \in DOMAIN work : Tame(work[i])
    BY DEF TameOK
  <2> QED
    BY <1>2, <2>1, <2>2 DEF TameOK
<1>3. CASE Emit
  <2>1. UNCHANGED <<a, b>> /\ work' = Tail(work) /\ work \in Seq(Boxes) /\ work # <<>>
    BY <1>1, <1>3 DEF Emit, DInv, TypeOK
  <2>2. NearTexts' = NearTexts
    BY <2>1 DEF NearTexts
  <2>3. \A i \in DOMAIN Tail(work) : i + 1 \in DOMAIN work /\ Tail(work)[i] = work[i + 1]
    BY <2>1
  <2>4. Len(work) = 1 => DOMAIN Tail(work) = {}
    BY <2>1
  <2>5. work = <<Box(0, 0, Len(a), Len(b))>> => Len(work) = 1
    OBVIOUS
  <2> QED
    BY <2>1, <2>2, <2>3, <2>4, <2>5 DEF TameOK
<1>4. CASE StartSearch
  BY <1>1, <1>4, StartSearchKeepsTame
<1>5. CASE Forward \/ Backward
  <2>1. /\ phase = "search" /\ UNCHANGED <<a, b>>
        /\ \/ ForwardOn \/ BackwardOn
           \/ \E x1, y1, x2, y2, d, g : Met(x1, y1, x2, y2, d, g)
    BY <1>5, ForwardSplits, BackwardSplits
  <2>2. CASE ForwardOn \/ BackwardOn
    BY <1>1, <1>2, <2>1, <2>2, OnStays
  <2>3. CASE \E x1, y1, x2, y2, d, g : Met(x1, y1, x2, y2, d, g)
    BY <1>1, <2>1, <2>3, SplitKeepsTame
  <2> QED
    BY <2>1, <2>2, <2>3
<1>6. CASE WriteOutside
  BY <1>2, <1>6 DEF WriteOutside
<1>7. CASE UNCHANGED vars
  BY <1>2, <1>7 DEF vars
<1> QED
  BY <1>3, <1>4, <1>5, <1>6, <1>7 DEF Next

\* A box of near texts does not lead outside.
LEMMA OutsideApartTexts ==
  ASSUME ShortInv, TameOK, WriteOutside
  PROVE  ~NearTexts
<1> SUFFICES ASSUME NearTexts PROVE FALSE
  OBVIOUS
<1> DEFINE box == Head(work)
<1>1. phase = "search" /\ phase' = "undefined" /\ UNCHANGED work
  BY DEF WriteOutside
<1>2. work # <<>> /\ Trim(box) /\ box \in Boxes /\ work \in Seq(Boxes)
  BY <1>1, SearchParts DEF ShortInv, DInv, TypeOK
<1>3. Tame(box)
  <2>1. box = work[1] /\ 1 \in DOMAIN work
    BY <1>2
  <2> QED
    BY <1>1, <2>1 DEF TameOK
<1>4. DInv'
  BY Step DEF ShortInv, Next
<1>5. Abs(Delta(box)) >= 2
  BY <1>1, <1>4 DEF DInv, Uneven
<1>6. /\ box.x1 \in Int /\ box.y1 \in Int /\ box.x2 \in Int /\ box.y2 \in Int
      /\ box.x1 < box.x2 /\ box.y1 < box.y2
  BY <1>2 DEF Trim, Boxes
<1> HIDE DEF box
<1> QED
  BY <1>3, <1>5, <1>6 DEF Tame, Abs, Delta

LEMMA OutStep ==
  ASSUME OutInv, [Next]_vars
  PROVE  OutInv'
<1>1. ShortInv' /\ ShortInv
  BY ShortStep DEF OutInv
<1>2. WrittenOK' /\ TameOK'
  BY KeepsWritten, TameStep DEF OutInv
<1>3. CASE WriteOutside
  <2>1. UNCHANGED <<a, b, work>>
    BY <1>3 DEF WriteOutside
  <2>2. LET box == Head(work) apart == Abs(Delta(box)) IN
        Common(box) + (apart % 2) < apart
    BY <1>1, <1>3, OutsideFewCommon DEF OutInv
  <2>3. ArraysSuffice'
    BY <2>1, <2>2 DEF ArraysSuffice, Common, Same
  <2>4. NearStaysInside'
    BY <1>1, <1>3, <2>1, OutsideApartTexts DEF NearStaysInside, NearTexts, OutInv
  <2> QED
    BY <1>1, <1>2, <2>3, <2>4 DEF OutInv
<1>4. CASE UNCHANGED vars
  <2>1. UNCHANGED <<a, b, work, phase>>
    BY <1>4 DEF vars
  <2>2. ArraysSuffice'
    BY <2>1 DEF OutInv, ArraysSuffice, Common, Same
  <2>3. NearStaysInside'
    BY <2>1 DEF OutInv, NearStaysInside
  <2> QED
    BY <1>1, <1>2, <2>2, <2>3 DEF OutInv
<1>5. ASSUME Emit \/ StartSearch \/ Forward \/ Backward
      PROVE  OutInv'
  <2>1. phase' # "undefined"
    <3>1. CASE Emit \/ StartSearch
      BY <3>1 DEF Emit, StartSearch
    <3>2. CASE Forward \/ Backward
      <4>1. phase' = "script" \/ ForwardOn \/ BackwardOn
        BY <1>1, <3>2, ForwardSplits, BackwardSplits
      <4>2. CASE ForwardOn
        BY <1>1, <4>2, ForwardTurns DEF ShortInv, ForwardOn
      <4>3. CASE BackwardOn
        BY <1>1, <4>3, BackwardGoesOn DEF ShortInv
      <4> QED
        BY <4>1, <4>2, <4>3
    <3> QED
      BY <1>5, <3>1, <3>2
  <2> QED
    BY <1>1, <1>2, <2>1 DEF OutInv, ArraysSuffice, NearStaysInside
<1> QED
  BY <1>3, <1>4, <1>5 DEF Next

LEMMA InitOut == Init => OutInv
<1> SUFFICES ASSUME Init PROVE OutInv
  OBVIOUS
<1>1. ShortInv
  BY InitKeeps, InitScript DEF ShortInv, FarOK, Init
<1>2. phase = "script" /\ work = <<Box(0, 0, Len(a), Len(b))>>
  BY DEF Init
<1> QED
  BY <1>1, <1>2 DEF OutInv, WrittenOK, TameOK, ArraysSuffice, NearStaysInside

\* The arrays fv and bv (diff.c:84-88) are left only in a box whose sides differ by
\* more lines than it has in common, by two more at least when they differ by an odd
\* number: that covers the element before the loops (diff.c:87) and those in them.
THEOREM ArraysLongEnough == Spec => []ArraysSuffice
<1>1. Init => OutInv
  BY InitOut
<1>2. OutInv /\ [Next]_vars => OutInv'
  BY OutStep
<1>3. OutInv => ArraysSuffice
  BY DEF OutInv
<1> QED
  BY <1>1, <1>2, <1>3, PTL DEF Spec

\* Two texts that differ in one place only, by two lines of each at most or by lines
\* that only one of them has there, never lead outside, whatever their length.
THEOREM NearTextsInside == Spec => []NearStaysInside
<1>1. Init => OutInv
  BY InitOut
<1>2. OutInv /\ [Next]_vars => OutInv'
  BY OutStep
<1>3. OutInv => NearStaysInside
  BY DEF OutInv
<1> QED
  BY <1>1, <1>2, <1>3, PTL DEF Spec
=============================================================================
