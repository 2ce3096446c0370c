----------------------- MODULE ProjectListingProofs -----------------------
(***************************************************************************)
(* Proofs about ProjectListing, for any number of projects, any finite set *)
(* of writes and any page sizes: PATCH requests merge, a listing is off by *)
(* no more than the writes committed meanwhile, and what it misses is      *)
(* explained by one of them. The second needs an invariant that counts,    *)
(* while the pages are read, what the listing has gone past without        *)
(* reading (Missed) and what it has read or will read once more (Again). A *)
(* write adds at most one element to each, since it moves the other rows   *)
(* by one place at most and no two rows have the same position; reading a  *)
(* page adds none.                                                         *)
(***************************************************************************)
EXTENDS ProjectListing, FiniteSetTheorems, TLAPS

-----------------------------------------------------------------------------
(* Positions as a function of the times alone, so that the positions before *)
(* and after a write can be compared.                                       *)

Stamps == [Projects -> Nat]

Row(u) == {p \in Projects : u[p] # 0}

InFront(u, p) == {q \in Row(u) : u[q] > u[p] \/ (u[q] = u[p] /\ q > p)}

Pos(u, p) == Cardinality(InFront(u, p))

Sel(u, offset, limit) == {p \in Row(u) : Pos(u, p) \in offset..offset + limit - 1}

(* There are finitely many rows, before a row as everywhere. *)
LEMMA RowsFinite ==
  ASSUME NEW u \in Stamps
  PROVE  /\ IsFiniteSet(Projects) /\ Projects \subseteq Nat
         /\ IsFiniteSet(Row(u)) /\ Row(u) \subseteq Projects
         /\ \A p \in Projects : /\ IsFiniteSet(InFront(u, p)) /\ InFront(u, p) \subseteq Row(u)
                                /\ Pos(u, p) \in Nat
<1>1. /\ IsFiniteSet(Projects) /\ Projects \subseteq Nat
  BY FS_Interval, ListingAssumption DEF Projects
<1>2. Row(u) \in SUBSET Projects
  BY DEF Row
<1>3. IsFiniteSet(Row(u))
  BY <1>1, <1>2, FS_Subset
<1>4. ASSUME NEW p \in Projects
      PROVE  /\ IsFiniteSet(InFront(u, p)) /\ InFront(u, p) \subseteq Row(u)
             /\ Pos(u, p) \in Nat
  <2>1. InFront(u, p) \in SUBSET Row(u)
    BY DEF InFront
  <2>2. IsFiniteSet(InFront(u, p))
    BY <1>3, <2>1, FS_Subset
  <2> QED
    BY <2>1, <2>2, FS_CardinalityType DEF Pos
<1> QED
  BY <1>1, <1>2, <1>3, <1>4

(* A row before another has a smaller position. *)
LEMMA FrontIsSmaller ==
  ASSUME NEW u \in Stamps, NEW p \in Row(u), NEW q \in InFront(u, p)
  PROVE  Pos(u, q) < Pos(u, p)
<1>1. /\ p \in Projects /\ q \in Projects /\ q \in Row(u)
  BY DEF Row, InFront
<1>2. /\ IsFiniteSet(InFront(u, p)) /\ Pos(u, p) \in Nat /\ Pos(u, q) \in Nat
  BY <1>1, RowsFinite
<1>3. \A r \in Projects : u[r] \in Nat /\ r \in Nat
  BY RowsFinite DEF Stamps
<1>4. InFront(u, q) \in SUBSET InFront(u, p)
  BY <1>1, <1>3 DEF InFront, Row
<1>5. q \notin InFront(u, q)
  BY <1>1, <1>3 DEF InFront
<1>6. /\ Cardinality(InFront(u, q)) <= Cardinality(InFront(u, p))
      /\ Cardinality(InFront(u, p)) = Cardinality(InFront(u, q)) => InFront(u, p) = InFront(u, q)
  BY <1>2, <1>4, FS_Subset
<1> QED
  BY <1>2, <1>5, <1>6 DEF Pos

(* No two rows have the same position. *)
LEMMA PositionsDiffer ==
  ASSUME NEW u \in Stamps, NEW p \in Row(u), NEW q \in Row(u), Pos(u, p) = Pos(u, q)
  PROVE  p = q
<1>1. /\ p \in Projects /\ q \in Projects
  BY DEF Row
<1>2. \A r \in Projects : u[r] \in Nat /\ r \in Nat
  BY RowsFinite DEF Stamps
<1>3. p = q \/ p \in InFront(u, q) \/ q \in InFront(u, p)
  BY <1>1, <1>2 DEF InFront
<1>4. Pos(u, p) \in Nat
  BY <1>1, RowsFinite
<1> QED
  BY <1>3, <1>4, FrontIsSmaller

(* There are k numbers below k. *)
LEMMA NumbersBelow ==
  ASSUME NEW k \in Nat
  PROVE  IsFiniteSet(0..k - 1) /\ Cardinality(0..k - 1) = k
<1>1. k - 1 \in Int /\ (0 > k - 1 <=> k = 0)
  OBVIOUS
<1>2. IsFiniteSet(0..k - 1) /\ Cardinality(0..k - 1) = IF 0 > k - 1 THEN 0 ELSE (k - 1) - 0 + 1
  BY <1>1, FS_Interval
<1> QED
  BY <1>1, <1>2

(* There is a row at every position before that of a row. *)
LEMMA PositionsAreFull ==
  ASSUME NEW u \in Stamps, NEW p \in Row(u), NEW n \in 0..Pos(u, p)
  PROVE  \E q \in Row(u) : Pos(u, q) = n
<1> DEFINE k == Pos(u, p)
<1> DEFINE f == [q \in InFront(u, p) |-> Pos(u, q)]
<1>1. /\ p \in Projects /\ k \in Nat
      /\ IsFiniteSet(InFront(u, p)) /\ InFront(u, p) \subseteq Row(u)
      /\ \A q \in InFront(u, p) : q \in Row(u) /\ Pos(u, q) \in Nat
  BY RowsFinite DEF Row
<1>2. \A q \in InFront(u, p) : Pos(u, q) < k
  BY FrontIsSmaller
<1>3. \A q \in InFront(u, p) : Pos(u, q) \in 0..k - 1
  BY <1>1, <1>2
<1>4. \A q, r \in InFront(u, p) : Pos(u, q) = Pos(u, r) => q = r
  BY <1>1, PositionsDiffer
<1>5. f \in Injection(InFront(u, p), 0..k - 1)
  BY <1>3, <1>4 DEF Injection, IsInjective
<1>6. IsFiniteSet(0..k - 1) /\ Cardinality(0..k - 1) = k
  BY <1>1, NumbersBelow
<1>7. Cardinality(InFront(u, p)) = k
  BY DEF Pos
<1>8. f \in Surjection(InFront(u, p), 0..k - 1)
  BY <1>5, <1>6, <1>7, FS_Injection
<1>9. \A m \in 0..k - 1 : \E q \in InFront(u, p) : Pos(u, q) = m
  BY <1>8 DEF Surjection
<1>10. n = k \/ n \in 0..k - 1
  BY <1>1
<1> QED
  BY <1>1, <1>9, <1>10

(* If there is a row behind a page, the row more that is selected with the page is found. *)
LEMMA MoreIsSeen ==
  ASSUME NEW u \in Stamps, NEW c \in Nat, NEW limit \in Nat,
         NEW p \in Row(u), Pos(u, p) >= c + limit
  PROVE  Cardinality(Sel(u, c, limit + 1)) > limit
<1> DEFINE S == Sel(u, c, limit + 1)
<1> DEFINE T == c..c + limit
<1> DEFINE f == [q \in S |-> Pos(u, q)]
<1>1. S \in SUBSET Row(u) /\ IsFiniteSet(Row(u)) /\ Pos(u, p) \in Nat
  BY RowsFinite DEF Sel, Row
<1>2. IsFiniteSet(S)
  BY <1>1, FS_Subset
<1>3. \A q \in Row(u) : q \in S <=> Pos(u, q) \in T
  BY DEF Sel
<1>4. ASSUME NEW n \in T
      PROVE  \E q \in S : Pos(u, q) = n
  <2>1. n \in 0..Pos(u, p)
    BY <1>1
  <2>2. PICK q \in Row(u) : Pos(u, q) = n
    BY <2>1, PositionsAreFull
  <2> QED
    BY <2>2, <1>3
<1> HIDE DEF S, T
<1>5. f \in Surjection(S, T)
  BY <1>1, <1>3, <1>4 DEF Surjection
<1>6. Cardinality(T) <= Cardinality(S)
  BY <1>2, <1>5, FS_Surjection
<1>7. Cardinality(T) = limit + 1
  BY FS_Interval DEF T
<1>8. Cardinality(S) \in Nat
  BY <1>2, FS_CardinalityType
<1>9. Cardinality(S) > limit
  BY <1>6, <1>7, <1>8
<1> QED
  BY <1>9 DEF S

-----------------------------------------------------------------------------
(* What one write does to the positions. *)

(* A write to w0 moves another row by one place or not at all: up if w0 was before it *)
(* and no longer is, down if w0 comes before it and was not.                          *)
LEMMA OthersShift ==
  ASSUME NEW u \in Stamps, NEW v \in Stamps, NEW w0 \in Projects, v[w0] # 0,
         \A q \in Projects \ {w0} : v[q] = u[q],
         NEW p \in Projects \ {w0}
  PROVE  \/ /\ w0 \in InFront(u, p) <=> w0 \in InFront(v, p)
            /\ Pos(v, p) = Pos(u, p)
         \/ /\ w0 \in InFront(u, p) /\ w0 \notin InFront(v, p)
            /\ Pos(v, p) = Pos(u, p) - 1
         \/ /\ w0 \notin InFront(u, p) /\ w0 \in InFront(v, p)
            /\ Pos(v, p) = Pos(u, p) + 1
<1>1. /\ IsFiniteSet(InFront(u, p)) /\ IsFiniteSet(InFront(v, p))
      /\ Pos(u, p) \in Nat /\ Pos(v, p) \in Nat
  BY RowsFinite
<1>2. \A q \in Projects : q # w0 => (q \in InFront(u, p) <=> q \in InFront(v, p))
  BY DEF InFront, Row
<1>3. InFront(u, p) \subseteq Projects /\ InFront(v, p) \subseteq Projects
  BY DEF InFront, Row
<1>4. CASE w0 \in InFront(u, p) <=> w0 \in InFront(v, p)
  <2>1. InFront(u, p) = InFront(v, p)
    BY <1>2, <1>3, <1>4
  <2> QED
    BY <2>1, <1>4 DEF Pos
<1>5. CASE w0 \in InFront(u, p) /\ w0 \notin InFront(v, p)
  <2>1. InFront(v, p) = InFront(u, p) \ {w0}
    BY <1>2, <1>3, <1>5
  <2>2. Cardinality(InFront(v, p)) = Cardinality(InFront(u, p)) - 1
    BY <2>1, <1>1, <1>5, FS_RemoveElement
  <2> QED
    BY <2>2, <1>5 DEF Pos
<1>6. CASE w0 \notin InFront(u, p) /\ w0 \in InFront(v, p)
  <2>1. InFront(v, p) = InFront(u, p) \cup {w0}
    BY <1>2, <1>3, <1>6
  <2>2. Cardinality(InFront(v, p)) = Cardinality(InFront(u, p)) + 1
    BY <2>1, <1>1, <1>6, FS_AddElement
  <2> QED
    BY <2>2, <1>6 DEF Pos
<1> QED
  BY <1>4, <1>5, <1>6

(* A write moves at most one row from behind the cursor to before it. *)
LEMMA OneMovesUp ==
  ASSUME NEW u \in Stamps, NEW v \in Stamps, NEW w0 \in Projects, v[w0] # 0,
         \A q \in Projects \ {w0} : v[q] = u[q],
         NEW c \in Nat,
         NEW p \in Row(u), Pos(u, p) >= c, Pos(v, p) < c,
         NEW q \in Row(u), Pos(u, q) >= c, Pos(v, q) < c
  PROVE  p = q
<1>1. p \in Projects /\ q \in Projects
  BY DEF Row
<1>2. \A r \in Projects : Pos(u, r) \in Nat /\ Pos(v, r) \in Nat
  BY RowsFinite
<1>3. ASSUME NEW r \in Row(u), r # w0, Pos(u, r) >= c, Pos(v, r) < c
      PROVE  Pos(u, r) = c /\ w0 \in Row(u) /\ Pos(u, w0) < c
  <2>1. r \in Projects \ {w0}
    BY <1>3 DEF Row
  <2>2. w0 \in InFront(u, r) /\ Pos(v, r) = Pos(u, r) - 1
    BY <2>1, <1>2, <1>3, OthersShift
  <2>3. Pos(u, w0) < Pos(u, r)
    BY <2>2, FrontIsSmaller
  <2>4. w0 \in Row(u)
    BY <2>2 DEF InFront
  <2> QED
    BY <2>1, <2>2, <2>3, <2>4, <1>2, <1>3
<1>4. CASE p # w0 /\ q # w0
  <2>1. Pos(u, p) = c /\ Pos(u, q) = c
    BY <1>3, <1>4
  <2> QED
    BY <2>1, PositionsDiffer
<1>5. CASE p # w0 /\ q = w0
  <2>1. Pos(u, w0) < c
    BY <1>3, <1>5
  <2> QED
    BY <2>1, <1>2, <1>5
<1>6. CASE p = w0 /\ q # w0
  <2>1. Pos(u, w0) < c
    BY <1>3, <1>6
  <2> QED
    BY <2>1, <1>2, <1>6
<1> QED
  BY <1>4, <1>5, <1>6

(* A write moves at most one row to behind the cursor, from before it or from nowhere. *)
LEMMA OneMovesDown ==
  ASSUME NEW u \in Stamps, NEW v \in Stamps, NEW w0 \in Projects, v[w0] # 0,
         \A q \in Projects \ {w0} : v[q] = u[q],
         NEW c \in Nat,
         NEW p \in Row(v), Pos(v, p) >= c, p \in Row(u) => Pos(u, p) < c,
         NEW q \in Row(v), Pos(v, q) >= c, q \in Row(u) => Pos(u, q) < c
  PROVE  p = q
<1>1. p \in Projects /\ q \in Projects
  BY DEF Row
<1>2. \A r \in Projects : Pos(u, r) \in Nat /\ Pos(v, r) \in Nat
  BY RowsFinite
<1>3. ASSUME NEW r \in Row(v), r # w0, Pos(v, r) >= c, r \in Row(u) => Pos(u, r) < c
      PROVE  Pos(v, r) = c /\ w0 \in Row(v) /\ Pos(v, w0) < c
  <2>1. r \in Projects \ {w0} /\ r \in Row(u)
    BY <1>3 DEF Row
  <2>2. w0 \in InFront(v, r) /\ Pos(v, r) = Pos(u, r) + 1
    BY <2>1, <1>2, <1>3, OthersShift
  <2>3. Pos(v, w0) < Pos(v, r)
    BY <2>2, FrontIsSmaller
  <2>4. w0 \in Row(v)
    BY <2>2 DEF InFront
  <2> QED
    BY <2>1, <2>2, <2>3, <2>4, <1>2, <1>3
<1>4. CASE p # w0 /\ q # w0
  <2>1. Pos(v, p) = c /\ Pos(v, q) = c
    BY <1>3, <1>4
  <2> QED
    BY <2>1, PositionsDiffer
<1>5. CASE p # w0 /\ q = w0
  <2>1. Pos(v, w0) < c
    BY <1>3, <1>5
  <2> QED
    BY <2>1, <1>2, <1>5
<1>6. CASE p = w0 /\ q # w0
  <2>1. Pos(v, w0) < c
    BY <1>3, <1>6
  <2> QED
    BY <2>1, <1>2, <1>6
<1> QED
  BY <1>4, <1>5, <1>6

(* A set that has at most one element that another has not is at most one larger. *)
LEMMA OneMore ==
  ASSUME NEW S, IsFiniteSet(S), NEW T,
         \A x, y \in T \ S : x = y
  PROVE  IsFiniteSet(T) /\ Cardinality(T) <= Cardinality(S) + 1
<1>1. CASE T \ S = {}
  <2>1. T \in SUBSET S
    BY <1>1
  <2>2. IsFiniteSet(T) /\ Cardinality(T) <= Cardinality(S)
    BY <2>1, FS_Subset
  <2>3. Cardinality(T) \in Nat /\ Cardinality(S) \in Nat
    BY <2>2, FS_CardinalityType
  <2> QED
    BY <2>2, <2>3
<1>2. CASE T \ S # {}
  <2>1. PICK x \in T : x \notin S
    BY <1>2
  <2>2. T \in SUBSET (S \cup {x})
    BY <2>1
  <2>3. IsFiniteSet(S \cup {x}) /\ Cardinality(S \cup {x}) = Cardinality(S) + 1
    BY <2>1, FS_AddElement
  <2>4. IsFiniteSet(T) /\ Cardinality(T) <= Cardinality(S \cup {x})
    BY <2>2, <2>3, FS_Subset
  <2> QED
    BY <2>3, <2>4
<1> QED
  BY <1>1, <1>2

-----------------------------------------------------------------------------
(* The two sets that the errors of a listing are counted by. *)

(* Projects that a listing has gone past without having read them. *)
Missed(u, cnt, kn, c) == {p \in kn : cnt[p] = 0 /\ Pos(u, p) < c}

(* The repetitions that have happened, and those that are sure to: a project that was *)
(* read and is behind the cursor is read again.                                       *)
Pairs == Projects \X (1..N + Cardinality(Writes))

Again(u, cnt, c) ==
  {r \in Pairs : \/ r[2] < cnt[r[1]]
                 \/ r[2] = cnt[r[1]] /\ r[1] \in Row(u) /\ Pos(u, r[1]) >= c}

(* What a page makes of the counts. *)
Counted(u, cnt, c, limit) ==
  [p \in Projects |-> IF p \in Sel(u, c, limit) THEN cnt[p] + 1 ELSE cnt[p]]

Counts == [Projects -> Nat]

(* Both sets are finite. *)
LEMMA ErrorsFinite ==
  ASSUME NEW u \in Stamps, NEW cnt \in Counts, NEW kn \in SUBSET Projects, NEW c \in Nat
  PROVE  /\ IsFiniteSet(Pairs)
         /\ IsFiniteSet(Missed(u, cnt, kn, c)) /\ Cardinality(Missed(u, cnt, kn, c)) \in Nat
         /\ IsFiniteSet(Again(u, cnt, c)) /\ Cardinality(Again(u, cnt, c)) \in Nat
<1>1. IsFiniteSet(Projects)
  BY RowsFinite
<1>2. Cardinality(Writes) \in Nat
  BY ListingAssumption, FS_CardinalityType
<1>3. IsFiniteSet(1..N + Cardinality(Writes))
  BY <1>2, FS_Interval, ListingAssumption
<1>4. IsFiniteSet(Pairs)
  BY <1>1, <1>3, FS_Product DEF Pairs
<1>5. Missed(u, cnt, kn, c) \in SUBSET Projects
  BY DEF Missed
<1>6. Again(u, cnt, c) \in SUBSET Pairs
  BY DEF Again
<1>7. IsFiniteSet(Missed(u, cnt, kn, c)) /\ IsFiniteSet(Again(u, cnt, c))
  BY <1>1, <1>4, <1>5, <1>6, FS_Subset
<1> QED
  BY <1>4, <1>7, FS_CardinalityType

(* A write makes a listing miss at most one project more. *)
LEMMA WriteHidesOne ==
  ASSUME NEW u \in Stamps, NEW v \in Stamps, NEW w0 \in Projects, v[w0] # 0,
         \A q \in Projects \ {w0} : v[q] = u[q],
         NEW cnt \in Counts, NEW kn \in SUBSET Row(u), NEW c \in Nat
  PROVE  Cardinality(Missed(v, cnt, kn, c)) <= Cardinality(Missed(u, cnt, kn, c)) + 1
<1>1. kn \in SUBSET Projects
  BY DEF Row
<1>2. IsFiniteSet(Missed(u, cnt, kn, c))
  BY <1>1, ErrorsFinite
<1>3. \A p \in Projects : Pos(u, p) \in Nat /\ Pos(v, p) \in Nat
  BY RowsFinite
<1>4. ASSUME NEW p \in Missed(v, cnt, kn, c) \ Missed(u, cnt, kn, c)
      PROVE  p \in Row(u) /\ Pos(u, p) >= c /\ Pos(v, p) < c
  BY <1>1, <1>3 DEF Missed
<1>5. \A p, q \in Missed(v, cnt, kn, c) \ Missed(u, cnt, kn, c) : p = q
  BY <1>4, OneMovesUp
<1> QED
  BY <1>2, <1>5, OneMore

(* A write makes a listing repeat at most one project once more. *)
LEMMA WriteRepeatsOne ==
  ASSUME NEW u \in Stamps, NEW v \in Stamps, NEW w0 \in Projects, v[w0] # 0,
         \A q \in Projects \ {w0} : v[q] = u[q],
         NEW cnt \in Counts, NEW c \in Nat
  PROVE  Cardinality(Again(v, cnt, c)) <= Cardinality(Again(u, cnt, c)) + 1
<1>1. IsFiniteSet(Again(u, cnt, c))
  BY ErrorsFinite
<1>2. \A p \in Projects : Pos(u, p) \in Nat /\ Pos(v, p) \in Nat
  BY RowsFinite
<1>3. ASSUME NEW r \in Again(v, cnt, c) \ Again(u, cnt, c)
      PROVE  /\ r \in Pairs /\ r[2] = cnt[r[1]] /\ r[1] \in Row(v) /\ Pos(v, r[1]) >= c
             /\ r[1] \in Row(u) => Pos(u, r[1]) < c
  <2>1. r \in Pairs /\ r[1] \in Projects
    BY DEF Again, Pairs
  <2> QED
    BY <1>2, <2>1 DEF Again
<1>4. ASSUME NEW r \in Again(v, cnt, c) \ Again(u, cnt, c),
             NEW s \in Again(v, cnt, c) \ Again(u, cnt, c)
      PROVE  r = s
  <2>1. r[1] = s[1]
    BY <1>3, OneMovesDown
  <2>2. r[2] = s[2]
    BY <1>3, <2>1
  <2>3. r = <<r[1], r[2]>> /\ s = <<s[1], s[2]>>
    BY <1>3 DEF Pairs
  <2> QED
    BY <2>1, <2>2, <2>3
<1> QED
  BY <1>1, <1>4, OneMore

(* Reading a page misses no project: what is before the next cursor was before this one *)
(* or is in the page; and if there is no more, nothing is behind the page.              *)
LEMMA PageHidesNone ==
  ASSUME NEW u \in Stamps, NEW cnt \in Counts, NEW kn \in SUBSET Row(u), NEW c \in Nat,
         NEW limit \in Nat
  PROVE  /\ Missed(u, Counted(u, cnt, c, limit), kn, c + limit) \subseteq Missed(u, cnt, kn, c)
         /\ Cardinality(Sel(u, c, limit + 1)) <= limit =>
              {p \in kn : Counted(u, cnt, c, limit)[p] = 0} \subseteq Missed(u, cnt, kn, c)
<1>1. \A p \in Projects : Pos(u, p) \in Nat /\ cnt[p] \in Nat
  BY RowsFinite DEF Counts
<1>2. \A p \in kn : p \in Projects /\ p \in Row(u)
  BY DEF Row
<1>3. ASSUME NEW p \in kn, Counted(u, cnt, c, limit)[p] = 0
      PROVE  cnt[p] = 0 /\ (Pos(u, p) < c \/ Pos(u, p) >= c + limit)
  <2>1. p \notin Sel(u, c, limit) /\ cnt[p] = 0
    BY <1>1, <1>2, <1>3 DEF Counted
  <2>2. Pos(u, p) \notin c..c + limit - 1
    BY <1>2, <2>1 DEF Sel
  <2> QED
    BY <1>1, <1>2, <2>1, <2>2
<1>4. ASSUME NEW p \in Missed(u, Counted(u, cnt, c, limit), kn, c + limit)
      PROVE  p \in Missed(u, cnt, kn, c)
  <2>1. p \in kn /\ Counted(u, cnt, c, limit)[p] = 0 /\ Pos(u, p) < c + limit
    BY DEF Missed
  <2>2. cnt[p] = 0 /\ Pos(u, p) < c
    BY <1>1, <1>2, <1>3, <2>1
  <2> QED
    BY <2>1, <2>2 DEF Missed
<1>5. ASSUME Cardinality(Sel(u, c, limit + 1)) <= limit,
             NEW p \in kn, Counted(u, cnt, c, limit)[p] = 0
      PROVE  p \in Missed(u, cnt, kn, c)
  <2>1. Sel(u, c, limit + 1) \in SUBSET Row(u)
    BY DEF Sel
  <2>2. Cardinality(Sel(u, c, limit + 1)) \in Nat
    BY <2>1, RowsFinite, FS_Subset, FS_CardinalityType
  <2>3. ~ Pos(u, p) >= c + limit
    BY <1>2, <1>5, <2>2, MoreIsSeen
  <2> QED
    BY <1>3, <1>5, <2>3 DEF Missed
<1> QED
  BY <1>4, <1>5

(* Reading a page repeats nothing that was not behind the cursor already. *)
LEMMA PageRepeatsNone ==
  ASSUME NEW u \in Stamps, NEW cnt \in Counts, NEW c \in Nat, NEW limit \in Nat
  PROVE  /\ Again(u, Counted(u, cnt, c, limit), c + limit) \subseteq Again(u, cnt, c)
         /\ {r \in Pairs : r[2] < Counted(u, cnt, c, limit)[r[1]]} \subseteq Again(u, cnt, c)
<1>1. \A p \in Projects : Pos(u, p) \in Nat /\ cnt[p] \in Nat
  BY RowsFinite DEF Counts
<1>2. \A r \in Pairs : r[1] \in Projects /\ r[2] \in Nat
  BY ListingAssumption, FS_CardinalityType DEF Pairs
<1>3. ASSUME NEW r \in Pairs, r[2] < Counted(u, cnt, c, limit)[r[1]]
      PROVE  r \in Again(u, cnt, c)
  <2>1. CASE r[1] \in Sel(u, c, limit)
    <3>1. r[1] \in Row(u) /\ Pos(u, r[1]) >= c
      BY <1>1, <1>2, <2>1 DEF Sel
    <3>2. r[2] < cnt[r[1]] + 1
      BY <1>2, <1>3, <2>1 DEF Counted
    <3>3. r[2] < cnt[r[1]] \/ r[2] = cnt[r[1]]
      BY <1>1, <1>2, <3>2
    <3> QED
      BY <3>1, <3>3 DEF Again
  <2>2. CASE r[1] \notin Sel(u, c, limit)
    <3>1. r[2] < cnt[r[1]]
      BY <1>2, <1>3, <2>2 DEF Counted
    <3> QED
      BY <3>1 DEF Again
  <2> QED
    BY <2>1, <2>2
<1>4. ASSUME NEW r \in Pairs, r[2] = Counted(u, cnt, c, limit)[r[1]],
             r[1] \in Row(u), Pos(u, r[1]) >= c + limit
      PROVE  r \in Again(u, cnt, c)
  <2>1. r[1] \notin Sel(u, c, limit)
    BY <1>1, <1>2, <1>4 DEF Sel
  <2>2. r[2] = cnt[r[1]]
    BY <1>2, <1>4, <2>1 DEF Counted
  <2>3. Pos(u, r[1]) >= c
    BY <1>1, <1>2, <1>4
  <2> QED
    BY <1>4, <2>2, <2>3 DEF Again
<1>5. ASSUME NEW r \in Again(u, Counted(u, cnt, c, limit), c + limit)
      PROVE  r \in Again(u, cnt, c)
  <2>1. r \in Pairs
    BY DEF Again
  <2>2. \/ r[2] < Counted(u, cnt, c, limit)[r[1]]
        \/ /\ r[2] = Counted(u, cnt, c, limit)[r[1]]
           /\ r[1] \in Row(u) /\ Pos(u, r[1]) >= c + limit
    BY DEF Again
  <2> QED
    BY <1>3, <1>4, <2>1, <2>2
<1> QED
  BY <1>3, <1>5

-----------------------------------------------------------------------------
(* The inductive invariant. *)

RowType == [Fields -> Writes \cup {Original}]

WriteType == [phase   : {"none", "open", "done", "failed"},
              project : 0..N,
              time    : Nat,
              sets    : SUBSET Fields,
              found   : RowType]

TypeInv ==
  /\ updated \in Stamps
  /\ fields \in [Projects -> RowType]
  /\ now \in Nat \ {0}
  /\ write \in [Writes -> WriteType]
  /\ log \in Seq(Writes)
  /\ cursor \in Nat \cup {End}
  /\ count \in Counts
  /\ known \in SUBSET Row(updated)
  /\ during \in SUBSET Writes

(* A write that began is of a project and has a time. *)
BegunInv == \A w \in Writes : write[w].phase # "none" =>
                                /\ write[w].project \in Projects
                                /\ write[w].time # 0

(* Only writes that are done are in the log, and counted as committed meanwhile. *)
DoneInv ==
  /\ \A i \in DOMAIN log : write[log[i]].phase = "done"
  /\ \A w \in during : write[w].phase = "done"

(* Before the first page nothing has been read, and no write counts. *)
StartInv == cursor = Start => /\ \A p \in Projects : count[p] = 0
                              /\ known = {} /\ during = {}

(* While pages are read, a project that the listing has gone past is explained. *)
SkipInv ==
  cursor # End => \A p \in known : count[p] = 0 => Explained(p) \/ Pos(updated, p) >= cursor

(* While pages are read, each write has made the listing miss at most one project and *)
(* repeat at most one.                                                                *)
BoundInv ==
  cursor # End =>
    /\ Cardinality(Missed(updated, count, known, cursor)) <= Cardinality(during)
    /\ Cardinality(Again(updated, count, cursor)) <= Cardinality(during)

ListingInv == /\ TypeInv /\ BegunInv /\ DoneInv /\ StartInv
              /\ SkipInv /\ BoundInv /\ ErrorsAreBounded /\ PatchesMerge

(* The operators of the specification are those of the lemmas. *)
LEMMA SameOperators ==
  /\ Rows = Row(updated)
  /\ \A p : Position(p) = Pos(updated, p)
  /\ \A offset, limit : Select(offset, limit) = Sel(updated, offset, limit)
<1>1. Rows = Row(updated)
  BY DEF Rows, Row
<1>2. \A p : Position(p) = Pos(updated, p)
  BY <1>1 DEF Position, Pos, InFront, Ahead
<1> QED
  BY <1>1, <1>2 DEF Select, Sel

(* The first state satisfies the invariant. *)
LEMMA InitHolds ==
  ASSUME Init
  PROVE  ListingInv
<1>1. /\ updated \in Stamps /\ count \in Counts
  BY DEF Init, Stamps, Counts
<1>2. OriginalRow \in RowType
  BY DEF OriginalRow, RowType
<1>3. NoWrite \in WriteType
  BY <1>2, ListingAssumption DEF NoWrite, WriteType
<1>4. TypeInv
  <2>1. known \in SUBSET Row(updated) /\ during \in SUBSET Writes
    BY DEF Init
  <2>2. fields \in [Projects -> RowType] /\ write \in [Writes -> WriteType]
    BY <1>2, <1>3 DEF Init
  <2>3. log \in Seq(Writes) /\ cursor \in Nat /\ now \in Nat \ {0}
    BY DEF Init, Start
  <2> QED
    BY <1>1, <2>1, <2>2, <2>3 DEF TypeInv
<1>5. BegunInv
  BY DEF Init, BegunInv, NoWrite
<1>6. DoneInv
  BY DEF Init, DoneInv
<1>7. StartInv
  BY DEF Init, StartInv
<1>8. SkipInv
  BY DEF Init, SkipInv
<1>9. cursor = 0 /\ cursor # End /\ known = {} /\ during = {}
  BY DEF Init, Start, End
<1>10. BoundInv
  <2>1. Missed(updated, count, known, cursor) = {}
    BY <1>9 DEF Missed
  <2>2. \A r \in Pairs : r[1] \in Projects /\ r[2] \in Nat \ {0}
    BY ListingAssumption, FS_CardinalityType DEF Pairs
  <2>3. Again(updated, count, cursor) = {}
    BY <2>2 DEF Again, Init
  <2> QED
    BY <1>9, <2>1, <2>3, FS_EmptySet DEF BoundInv
<1>11. ErrorsAreBounded
  BY <1>9 DEF ErrorsAreBounded
<1>12. PatchesMerge
  BY DEF Init, PatchesMerge, OriginalRow
<1> QED
  BY <1>4, <1>5, <1>6, <1>7, <1>8, <1>10, <1>11, <1>12 DEF ListingInv

(* A step that leaves the table, the pages and the writes that are done alone disturbs *)
(* nothing but, perhaps, the types.                                                    *)
LEMMA FrameStep ==
  ASSUME ListingInv, TypeInv', BegunInv',
         UNCHANGED <<updated, fields, log, cursor, count, known, during>>,
         \A w \in Writes : write[w].phase = "done" => write'[w] = write[w]
  PROVE  ListingInv'
<1>1. \A i \in DOMAIN log : log[i] \in Writes /\ write'[log[i]] = write[log[i]]
  BY DEF ListingInv, TypeInv, DoneInv
<1>2. \A w \in during : w \in Writes /\ write'[w] = write[w]
  BY DEF ListingInv, TypeInv, DoneInv
<1>3. DoneInv'
  BY <1>1, <1>2 DEF ListingInv, DoneInv
<1>4. StartInv'
  BY DEF ListingInv, StartInv
<1>5. SkipInv'
  BY <1>2 DEF ListingInv, SkipInv, Explained, Ahead
<1>6. BoundInv'
  BY DEF ListingInv, BoundInv
<1>7. ErrorsAreBounded'
  BY DEF ListingInv, ErrorsAreBounded, Repeated
<1>8. PatchesMerge'
  <2>1. \A p, f : \A i \in DOMAIN log : SetsField(i, p, f)' <=> SetsField(i, p, f)
    BY <1>1 DEF SetsField
  <2>2. PatchesMerge
    BY DEF ListingInv
  <2>3. fields' = fields /\ log' = log
    OBVIOUS
  <2> QED
    BY <2>1, <2>2, <2>3 DEF PatchesMerge
<1> QED
  BY <1>3, <1>4, <1>5, <1>6, <1>7, <1>8 DEF ListingInv

(* Time passes. *)
LEMMA TickHolds ==
  ASSUME ListingInv, Tick
  PROVE  ListingInv'
<1>1. TypeInv'
  BY DEF ListingInv, TypeInv, Tick
<1>2. BegunInv'
  BY DEF ListingInv, BegunInv, Tick
<1> QED
  BY <1>1, <1>2, FrameStep DEF Tick

(* A write begins. *)
LEMMA BeginHolds ==
  ASSUME ListingInv, NEW w \in Writes, NEW p \in Projects, NEW sets \in SUBSET Fields,
         Begin(w, p, sets)
  PROVE  ListingInv'
<1> DEFINE begun == [phase |-> "open", project |-> p, time |-> now,
                     sets |-> sets, found |-> fields[p]]
<1>1. /\ write[w].phase = "none" /\ write' = [write EXCEPT ![w] = begun]
      /\ UNCHANGED <<updated, fields, now, log, cursor, count, known, during>>
  BY DEF Begin, NoWrite
<1>2. begun \in WriteType
  <2>1. TypeInv
    BY DEF ListingInv
  <2>2. p \in 0..N
    BY ListingAssumption DEF Projects
  <2>3. now \in Nat /\ fields[p] \in RowType
    BY <2>1 DEF TypeInv
  <2> QED
    BY <2>2, <2>3 DEF WriteType
<1>3. /\ begun.project = p /\ begun.time = now
  OBVIOUS
<1> HIDE DEF begun
<1>4. TypeInv'
  BY <1>1, <1>2 DEF ListingInv, TypeInv
<1>5. BegunInv'
  BY <1>1, <1>3 DEF ListingInv, TypeInv, BegunInv
<1>6. \A other \in Writes : write[other].phase = "done" => write'[other] = write[other]
  BY <1>1 DEF ListingInv, TypeInv
<1> QED
  BY <1>1, <1>4, <1>5, <1>6, FrameStep

(* What the new phase of a write changes. *)
LEMMA PhaseChanges ==
  ASSUME TypeInv, NEW w \in Writes, NEW phase \in {"done", "failed"},
         write' = [write EXCEPT ![w].phase = phase]
  PROVE  /\ write' \in [Writes -> WriteType]
         /\ \A other \in Writes \ {w} : write'[other] = write[other]
         /\ write'[w].phase = phase /\ write'[w].project = write[w].project
         /\ write'[w].time = write[w].time /\ write'[w].sets = write[w].sets
  BY DEF TypeInv, WriteType

(* A write fails. *)
LEMMA RollbackHolds ==
  ASSUME ListingInv, NEW w \in Writes, Rollback(w)
  PROVE  ListingInv'
<1>1. /\ write[w].phase = "open" /\ write' = [write EXCEPT ![w].phase = "failed"]
      /\ UNCHANGED <<updated, fields, now, log, cursor, count, known, during>>
      /\ TypeInv
  BY DEF Rollback, ListingInv
<1>2. /\ write' \in [Writes -> WriteType]
      /\ \A other \in Writes \ {w} : write'[other] = write[other]
      /\ write'[w].project = write[w].project /\ write'[w].time = write[w].time
  BY <1>1, PhaseChanges
<1>3. TypeInv'
  BY <1>1, <1>2 DEF TypeInv
<1>4. BegunInv'
  BY <1>1, <1>2 DEF ListingInv, BegunInv
<1>5. \A other \in Writes : write[other].phase = "done" => write'[other] = write[other]
  BY <1>1, <1>2
<1> QED
  BY <1>1, <1>3, <1>4, <1>5, FrameStep

(* Before the first page there is nothing to count. *)
LEMMA NothingRead ==
  ASSUME NEW u \in Stamps, NEW cnt \in Counts, \A p \in Projects : cnt[p] = 0
  PROVE  /\ Cardinality(Missed(u, cnt, {}, 0)) = 0
         /\ Cardinality(Again(u, cnt, 0)) = 0
<1>1. Missed(u, cnt, {}, 0) = {}
  BY DEF Missed
<1>2. \A r \in Pairs : r[1] \in Projects /\ r[2] \in Nat \ {0}
  BY ListingAssumption, FS_CardinalityType DEF Pairs
<1>3. Again(u, cnt, 0) = {}
  BY <1>2 DEF Again
<1> QED
  BY <1>1, <1>3, FS_EmptySet

(* A write commits: it is added to the log, and what it hides or repeats to the errors. *)
LEMMA CommitHolds ==
  ASSUME ListingInv, NEW w \in Writes, Commit(w)
  PROVE  ListingInv'
<1> DEFINE w0 == write[w].project
<1>1. /\ TypeInv /\ BegunInv /\ DoneInv /\ StartInv /\ SkipInv /\ BoundInv
      /\ ErrorsAreBounded /\ PatchesMerge
  BY DEF ListingInv
<1>2. /\ write[w].phase = "open" /\ write' = [write EXCEPT ![w].phase = "done"]
      /\ updated' = [updated EXCEPT ![w0] = write[w].time]
      /\ fields' = [fields EXCEPT ![w0] = UpdatedRow(w)]
      /\ log' = Append(log, w)
      /\ during' = IF cursor \in {Start, End} THEN during ELSE during \cup {w}
      /\ UNCHANGED <<now, cursor, count, known>>
  BY DEF Commit
<1>3. /\ write' \in [Writes -> WriteType]
      /\ \A other \in Writes \ {w} : write'[other] = write[other]
      /\ write'[w].phase = "done" /\ write'[w].project = w0
      /\ write'[w].time = write[w].time /\ write'[w].sets = write[w].sets
  BY <1>1, <1>2, PhaseChanges
<1>4. w0 \in Projects /\ write[w].time # 0 /\ write[w].time \in Nat /\ write[w].sets \in SUBSET Fields
  BY <1>1, <1>2 DEF BegunInv, TypeInv, WriteType
<1>5. /\ updated \in Stamps /\ updated' \in Stamps /\ updated'[w0] = write[w].time
      /\ \A q \in Projects \ {w0} : updated'[q] = updated[q]
  BY <1>1, <1>2, <1>4 DEF TypeInv, Stamps
<1>6. Row(updated) \subseteq Row(updated')
  BY <1>4, <1>5 DEF Row
<1>7. /\ log \in Seq(Writes) /\ count \in Counts /\ known \in SUBSET Row(updated)
      /\ during \in SUBSET Writes /\ cursor \in Nat \cup {End}
      /\ fields \in [Projects -> RowType]
  BY <1>1 DEF TypeInv
<1>8. UpdatedRow(w) = [f \in Fields |-> IF f \in write[w].sets THEN w ELSE fields[w0][f]]
  BY DEF UpdatedRow, Coalesce
<1>9. UpdatedRow(w) \in RowType
  BY <1>4, <1>7, <1>8 DEF RowType
<1> HIDE DEF w0
<1>10. TypeInv'
  <2>1. fields' \in [Projects -> RowType] /\ log' \in Seq(Writes)
    BY <1>2, <1>4, <1>7, <1>9
  <2>2. known' \in SUBSET Row(updated') /\ during' \in SUBSET Writes
    BY <1>2, <1>6, <1>7
  <2> QED
    BY <1>1, <1>2, <1>3, <1>5, <2>1, <2>2 DEF TypeInv
<1>11. BegunInv'
  BY <1>1, <1>3, <1>4 DEF BegunInv
<1>12. /\ DOMAIN log' = 1..Len(log) + 1 /\ DOMAIN log = 1..Len(log)
       /\ Len(log) \in Nat /\ log'[Len(log) + 1] = w
       /\ \A i \in 1..Len(log) : log[i] \in Writes \ {w} /\ log'[i] = log[i]
  BY <1>1, <1>2, <1>7 DEF DoneInv
<1>13. \A other \in during : other \in Writes \ {w}
  BY <1>1, <1>2, <1>7 DEF DoneInv
<1>14. DoneInv'
  <2>1. \A i \in DOMAIN log' : write'[log'[i]].phase = "done"
    <3>1. SUFFICES ASSUME NEW i \in 1..Len(log) + 1
                   PROVE  write'[log'[i]].phase = "done"
      BY <1>12
    <3>2. CASE i = Len(log) + 1
      BY <1>3, <1>12, <3>2
    <3>3. CASE i \in 1..Len(log)
      BY <1>1, <1>3, <1>12, <3>3 DEF DoneInv
    <3> QED
      BY <1>12, <3>2, <3>3
  <2>2. \A other \in during' : write'[other].phase = "done"
    BY <1>1, <1>2, <1>3, <1>13 DEF DoneInv
  <2> QED
    BY <2>1, <2>2 DEF DoneInv
<1>15. StartInv'
  BY <1>1, <1>2 DEF StartInv
<1>16. SkipInv'
  <2>1. SUFFICES ASSUME cursor # End, NEW p \in known, count[p] = 0,
                        ~ Explained(p)', Pos(updated', p) < cursor
                 PROVE  FALSE
    <3>1. SUFFICES ASSUME cursor # End
                   PROVE  \A p \in known : count[p] = 0 =>
                            Explained(p)' \/ Pos(updated', p) >= cursor
      BY <1>2 DEF SkipInv
    <3>2. \A p \in known : Pos(updated', p) \in Nat
      BY <1>5, <1>7, RowsFinite DEF Row
    <3>3. cursor \in Nat
      BY <1>7, <3>1
    <3> QED
      BY <3>1, <3>2, <3>3
  <2>2. p \in Row(updated) /\ p \in Projects
    BY <1>7 DEF Row
  <2>3. Pos(updated, p) \in Nat /\ Pos(updated', p) \in Nat
    BY <1>5, <2>2, RowsFinite
  <2>4. cursor # Start /\ during' = during \cup {w}
    BY <1>1, <1>2, <2>1 DEF StartInv
  <2>5. \A other \in during' : /\ write'[other].project # p
                               /\ Ahead(write[other].time, write[other].project, p)'
    BY <2>1 DEF Explained
  <2>6. p # w0 /\ (write[w].time > updated'[p] \/ (write[w].time = updated'[p] /\ w0 > p))
    BY <1>3, <2>4, <2>5 DEF Ahead
  <2>7. w0 \in InFront(updated', p)
    BY <1>4, <1>5, <2>2, <2>6 DEF InFront, Row
  <2>8. Pos(updated, p) <= Pos(updated', p)
    BY <1>4, <1>5, <2>2, <2>3, <2>6, <2>7, OthersShift
  <2>9. Explained(p)
    BY <1>1, <1>7, <2>1, <2>3, <2>8 DEF SkipInv
  <2>10. PICK other \in during : \/ write[other].project = p
                                 \/ ~ Ahead(write[other].time, write[other].project, p)
    BY <2>9 DEF Explained
  <2>11. write'[other] = write[other] /\ updated'[p] = updated[p]
    BY <1>3, <1>5, <1>13, <2>2, <2>6
  <2> QED
    BY <2>4, <2>5, <2>10, <2>11 DEF Ahead
<1>17. BoundInv'
  <2>1. CASE cursor = Start
    <3>1. /\ cursor = 0 /\ known = {} /\ during' = {}
          /\ \A p \in Projects : count[p] = 0
      BY <1>1, <1>2, <2>1 DEF StartInv, Start
    <3>2. /\ Cardinality(Missed(updated', count, {}, 0)) = 0
          /\ Cardinality(Again(updated', count, 0)) = 0
      BY <1>5, <1>7, <3>1, NothingRead
    <3>3. Cardinality(during') = 0
      BY <3>1, FS_EmptySet
    <3> QED
      BY <1>2, <3>1, <3>2, <3>3 DEF BoundInv
  <2>2. CASE cursor = End
    BY <1>2, <2>2 DEF BoundInv
  <2>3. CASE cursor # Start /\ cursor # End
    <3>1. cursor \in Nat /\ during' = during \cup {w} /\ w \notin during
      BY <1>2, <1>7, <1>13, <2>3
    <3>2. IsFiniteSet(during)
      BY <1>7, ListingAssumption, FS_Subset
    <3>3. Cardinality(during') = Cardinality(during) + 1 /\ Cardinality(during) \in Nat
      BY <3>1, <3>2, FS_AddElement, FS_CardinalityType
    <3>4. /\ Cardinality(Missed(updated', count, known, cursor))
               <= Cardinality(Missed(updated, count, known, cursor)) + 1
          /\ Cardinality(Again(updated', count, cursor))
               <= Cardinality(Again(updated, count, cursor)) + 1
      BY <1>4, <1>5, <1>7, <3>1, WriteHidesOne, WriteRepeatsOne
    <3>5. known \in SUBSET Projects
      BY <1>7 DEF Row
    <3>6. /\ Cardinality(Missed(updated, count, known, cursor)) \in Nat
          /\ Cardinality(Again(updated, count, cursor)) \in Nat
          /\ Cardinality(Missed(updated', count, known, cursor)) \in Nat
          /\ Cardinality(Again(updated', count, cursor)) \in Nat
      BY <1>5, <1>7, <3>1, <3>5, ErrorsFinite
    <3>7. /\ Cardinality(Missed(updated, count, known, cursor)) <= Cardinality(during)
          /\ Cardinality(Again(updated, count, cursor)) <= Cardinality(during)
      BY <1>1, <2>3 DEF BoundInv
    <3>8. /\ Cardinality(Missed(updated', count, known, cursor)) <= Cardinality(during')
          /\ Cardinality(Again(updated', count, cursor)) <= Cardinality(during')
      BY <3>3, <3>4, <3>6, <3>7
    <3> QED
      BY <1>2, <3>8 DEF BoundInv
  <2> QED
    BY <2>1, <2>2, <2>3
<1>18. ErrorsAreBounded'
  BY <1>1, <1>2 DEF ErrorsAreBounded, Repeated
<1>19. PatchesMerge'
  <2> PICK last \in Nat \ {0} : last = Len(log) + 1
    BY <1>12
  <2>1. \A p, f : \A i \in 1..Len(log) : SetsField(i, p, f)' <=> SetsField(i, p, f)
    BY <1>3, <1>12 DEF SetsField
  <2>2. \A p, f : SetsField(last, p, f)' <=> w0 = p /\ f \in write[w].sets
    BY <1>3, <1>12 DEF SetsField
  <2>3. SUFFICES ASSUME NEW p \in Projects, NEW f \in Fields
                 PROVE  \/ /\ fields'[p][f] = Original
                           /\ \A i \in 1..last : ~ SetsField(i, p, f)'
                        \/ \E i \in 1..last :
                             /\ SetsField(i, p, f)' /\ fields'[p][f] = log'[i]
                             /\ \A later \in 1..last :
                                  later > i => ~ SetsField(later, p, f)'
    BY <1>12 DEF PatchesMerge
  <2>4. CASE p = w0 /\ f \in write[w].sets
    <3>1. fields'[p][f] = w
      BY <1>2, <1>4, <1>7, <1>8, <2>4
    <3>2. last \in 1..last /\ \A later \in 1..last : ~ later > last
      BY <1>12
    <3> QED
      BY <1>12, <2>2, <2>4, <3>1, <3>2
  <2>5. CASE ~ (p = w0 /\ f \in write[w].sets)
    <3>1. fields'[p][f] = fields[p][f]
      BY <1>2, <1>4, <1>7, <1>8, <2>5
    <3>2. ~ SetsField(last, p, f)'
      BY <2>2, <2>5
    <3>3. \A i \in 1..last : i = last \/ i \in 1..Len(log)
      BY <1>12
    <3>4. CASE fields[p][f] = Original /\ \A i \in 1..Len(log) : ~ SetsField(i, p, f)
      BY <2>1, <3>1, <3>2, <3>3, <3>4
    <3>5. CASE \E i \in 1..Len(log) :
                 /\ SetsField(i, p, f) /\ fields[p][f] = log[i]
                 /\ \A later \in 1..Len(log) : later > i => ~ SetsField(later, p, f)
      <4>1. PICK i \in 1..Len(log) :
              /\ SetsField(i, p, f) /\ fields[p][f] = log[i]
              /\ \A later \in 1..Len(log) : later > i => ~ SetsField(later, p, f)
        BY <3>5
      <4>2. i \in 1..last /\ SetsField(i, p, f)' /\ fields'[p][f] = log'[i]
        BY <1>12, <2>1, <3>1, <4>1
      <4>3. \A later \in 1..last : later > i => ~ SetsField(later, p, f)'
        BY <2>1, <3>2, <3>3, <4>1
      <4> QED
        BY <4>2, <4>3
    <3> QED
      BY <1>1, <1>12, <3>4, <3>5 DEF PatchesMerge
  <2> QED
    BY <2>4, <2>5
<1> QED
  BY <1>10, <1>11, <1>14, <1>15, <1>16, <1>17, <1>18, <1>19 DEF ListingInv

(* A page is read: it misses nothing and repeats nothing of itself, and after the last *)
(* one a project that is in no page is explained.                                      *)
LEMMA PageHolds ==
  ASSUME ListingInv, NEW limit \in Limits, ReadPage(limit)
  PROVE  /\ ListingInv'
         /\ cursor' = End => \A p \in known' : count'[p] = 0 => Explained(p)'
<1>1. /\ TypeInv /\ BegunInv /\ DoneInv /\ StartInv /\ SkipInv /\ BoundInv /\ PatchesMerge
  BY DEF ListingInv
<1>2. /\ updated \in Stamps /\ count \in Counts /\ known \in SUBSET Row(updated)
      /\ during \in SUBSET Writes /\ limit \in Nat \ {0}
      /\ cursor \in Nat \cup {End}
  BY <1>1, ListingAssumption DEF TypeInv
<1>3. /\ cursor # End
      /\ cursor' = IF Cardinality(Sel(updated, cursor, limit + 1)) > limit
                   THEN cursor + limit ELSE End
      /\ count' = Counted(updated, count, cursor, limit)
      /\ known' = IF cursor = Start THEN Row(updated) ELSE known
      /\ UNCHANGED <<updated, fields, now, write, log, during>>
  BY SameOperators DEF ReadPage, Counted
<1>4. cursor \in Nat
  BY <1>2, <1>3
<1>5. Sel(updated, cursor, limit + 1) \in SUBSET Row(updated)
  BY DEF Sel
<1>6. Cardinality(Sel(updated, cursor, limit + 1)) \in Nat
  BY <1>2, <1>5, RowsFinite, FS_Subset, FS_CardinalityType
<1>7. /\ cursor' = cursor + limit \/ cursor' = End
      /\ cursor' = End => Cardinality(Sel(updated, cursor, limit + 1)) <= limit
      /\ cursor' # Start /\ cursor' \in Nat \cup {End}
  BY <1>2, <1>3, <1>4, <1>6 DEF Start, End
<1>8. known' \in SUBSET Row(updated) /\ known' \in SUBSET Projects
  BY <1>2, <1>3 DEF Row
<1>9. count' \in Counts
  BY <1>2, <1>3 DEF Counts, Counted
<1>10. TypeInv'
  BY <1>1, <1>3, <1>7, <1>8, <1>9 DEF TypeInv
<1>11. BegunInv' /\ DoneInv' /\ StartInv'
  BY <1>1, <1>3, <1>7 DEF BegunInv, DoneInv, StartInv
<1>12. PatchesMerge'
  BY <1>1, <1>3 DEF PatchesMerge, SetsField
<1>13. /\ Missed(updated, count', known', cursor + limit)
            \subseteq Missed(updated, count, known', cursor)
       /\ cursor' = End => {p \in known' : count'[p] = 0}
                             \subseteq Missed(updated, count, known', cursor)
  BY <1>2, <1>3, <1>4, <1>7, <1>8, PageHidesNone
<1>14. /\ Again(updated, count', cursor + limit) \subseteq Again(updated, count, cursor)
       /\ {r \in Pairs : r[2] < count'[r[1]]} \subseteq Again(updated, count, cursor)
  BY <1>2, <1>3, <1>4, PageRepeatsNone
<1>15. \A p \in Projects : Pos(updated, p) \in Nat
  BY <1>2, RowsFinite
<1>16. /\ Cardinality(Missed(updated, count, known', cursor)) <= Cardinality(during)
       /\ Cardinality(Again(updated, count, cursor)) <= Cardinality(during)
  <2>1. CASE cursor = Start
    <3>1. cursor = 0 /\ during = {} /\ \A p \in Projects : count[p] = 0
      BY <1>1, <2>1 DEF StartInv, Start
    <3>2. Missed(updated, count, known', cursor) = {}
      BY <1>8, <1>15, <3>1 DEF Missed
    <3>3. Cardinality(Again(updated, count, cursor)) = 0
      BY <1>2, <3>1, NothingRead
    <3> QED
      BY <3>1, <3>2, <3>3, FS_EmptySet
  <2>2. CASE cursor # Start
    BY <1>1, <1>3, <2>2 DEF BoundInv
  <2> QED
    BY <2>1, <2>2
<1>17. \A p \in Missed(updated, count, known', cursor) : Explained(p)
  <2>1. SUFFICES ASSUME NEW p \in known', count[p] = 0, Pos(updated, p) < cursor
                 PROVE  Explained(p)
    BY DEF Missed
  <2>2. Pos(updated, p) \in Nat
    BY <1>8, <1>15
  <2>3. cursor # Start
    BY <1>4, <2>1, <2>2 DEF Start
  <2>4. p \in known
    BY <1>3, <2>3
  <2> QED
    BY <1>1, <1>3, <1>4, <2>1, <2>2, <2>4 DEF SkipInv
<1>18. \A p : Explained(p)' <=> Explained(p)
  BY <1>3 DEF Explained, Ahead
<1>19. SkipInv'
  <2>1. SUFFICES ASSUME cursor' = cursor + limit
                 PROVE  \A p \in known' : count'[p] = 0 =>
                          Explained(p)' \/ Pos(updated, p) >= cursor + limit
    BY <1>3, <1>7 DEF SkipInv
  <2>2. SUFFICES ASSUME NEW p \in known', count'[p] = 0, Pos(updated, p) < cursor + limit
                 PROVE  Explained(p)
    BY <1>2, <1>4, <1>8, <1>15, <1>18
  <2>3. p \in Missed(updated, count', known', cursor + limit)
    BY <2>2 DEF Missed
  <2> QED
    BY <1>13, <1>17, <2>3
<1>20. IsFiniteSet(Again(updated, count, cursor)) /\ IsFiniteSet(Missed(updated, count, known', cursor))
  BY <1>2, <1>4, <1>8, ErrorsFinite
<1>21. IsFiniteSet(during) /\ Cardinality(during) \in Nat
  BY <1>2, ListingAssumption, FS_Subset, FS_CardinalityType
<1>22. \A S : S \subseteq Missed(updated, count, known', cursor) => Cardinality(S) <= Cardinality(during)
  BY <1>16, <1>20, <1>21, FS_Subset, FS_CardinalityType
<1>23. \A S : S \subseteq Again(updated, count, cursor) => Cardinality(S) <= Cardinality(during)
  BY <1>16, <1>20, <1>21, FS_Subset, FS_CardinalityType
<1>24. BoundInv'
  <2>1. SUFFICES ASSUME cursor' = cursor + limit
                 PROVE  /\ Cardinality(Missed(updated, count', known', cursor + limit))
                             <= Cardinality(during)
                        /\ Cardinality(Again(updated, count', cursor + limit))
                             <= Cardinality(during)
    BY <1>3, <1>7 DEF BoundInv
  <2> QED
    BY <1>13, <1>14, <1>22, <1>23
<1>25. ErrorsAreBounded'
  <2>1. SUFFICES ASSUME cursor' = End
                 PROVE  /\ Cardinality({p \in known' : count'[p] = 0}) <= Cardinality(during)
                        /\ Cardinality({r \in Pairs : r[2] < count'[r[1]]}) <= Cardinality(during)
    BY <1>3 DEF ErrorsAreBounded, Repeated, Pairs
  <2> QED
    BY <1>13, <1>14, <1>22, <1>23, <2>1
<1>26. ASSUME cursor' = End
       PROVE  \A p \in known' : count'[p] = 0 => Explained(p)'
  BY <1>13, <1>17, <1>18, <1>26
<1> QED
  BY <1>10, <1>11, <1>12, <1>19, <1>24, <1>25, <1>26 DEF ListingInv

(* Every step keeps the invariant. *)
LEMMA NextHolds ==
  ASSUME ListingInv, [Next]_vars
  PROVE  ListingInv'
<1>1. CASE Tick
  BY <1>1, TickHolds
<1>2. ASSUME NEW w \in Writes, BeginCreate(w)
      PROVE  ListingInv'
  <2>1. PICK p \in Projects : Begin(w, p, Fields)
    BY <1>2 DEF BeginCreate
  <2>2. Fields \in SUBSET Fields
    OBVIOUS
  <2> QED
    BY <2>1, <2>2, BeginHolds
<1>3. ASSUME NEW w \in Writes, BeginUpdate(w)
      PROVE  ListingInv'
  <2>1. PICK p \in Rows, sets \in SUBSET Fields : Begin(w, p, sets)
    BY <1>3 DEF BeginUpdate
  <2>2. p \in Projects
    BY DEF Rows
  <2> QED
    BY <2>1, <2>2, BeginHolds
<1>4. ASSUME NEW w \in Writes, Commit(w)
      PROVE  ListingInv'
  BY <1>4, CommitHolds
<1>5. ASSUME NEW w \in Writes, Rollback(w)
      PROVE  ListingInv'
  BY <1>5, RollbackHolds
<1>6. ASSUME NEW limit \in Limits, ReadPage(limit)
      PROVE  ListingInv'
  BY <1>6, PageHolds
<1>7. CASE UNCHANGED vars
  <2>1. TypeInv'
    BY <1>7 DEF ListingInv, TypeInv, vars
  <2>2. BegunInv'
    BY <1>7 DEF ListingInv, BegunInv, vars
  <2> QED
    BY <1>7, <2>1, <2>2, FrameStep DEF vars
<1> QED
  BY <1>1, <1>2, <1>3, <1>4, <1>5, <1>6, <1>7 DEF Next

(* The invariant holds in every state of the program. *)
THEOREM Invariance == Spec => []ListingInv
<1>1. Init => ListingInv
  BY InitHolds
<1>2. ListingInv /\ [Next]_vars => ListingInv'
  BY NextHolds
<1> QED
  BY <1>1, <1>2, PTL DEF Spec

-----------------------------------------------------------------------------
(***************************************************************************)
(* PATCH requests merge (PgProjectRepository::update, one UPDATE with      *)
(* COALESCE): each field of a project has the value of the last committed  *)
(* write that set it.                                                      *)
(***************************************************************************)
THEOREM Merge == Spec => []PatchesMerge
<1>1. ListingInv => PatchesMerge
  BY DEF ListingInv
<1> QED
  BY <1>1, Invariance, PTL

(***************************************************************************)
(* A listing (PgProjectRepository::list, by offset) misses at most one     *)
(* project and repeats at most one for each write committed between its    *)
(* first page and its last.                                                *)
(***************************************************************************)
THEOREM ErrorsBounded == Spec => []ErrorsAreBounded
<1>1. ListingInv => ErrorsAreBounded
  BY DEF ListingInv
<1> QED
  BY <1>1, Invariance, PTL

(***************************************************************************)
(* When a listing reads its last page, a project that it has missed was    *)
(* written meanwhile, or another one was with a time that sorts behind it. *)
(***************************************************************************)
THEOREM SkipsExplained == Spec => SkipsAreExplained
<1>1. ASSUME ListingInv, [Next]_vars, cursor # End, cursor' = End
      PROVE  \A p \in known' : count'[p] = 0 => Explained(p)'
  <2>1. CASE \E limit \in Limits : ReadPage(limit)
    BY <1>1, <2>1, PageHolds
  <2>2. CASE ~ \E limit \in Limits : ReadPage(limit)
    <3>1. cursor' = cursor
      BY <1>1, <2>2 DEF Next, Tick, BeginCreate, BeginUpdate, Begin, Commit, Rollback, vars
    <3> QED
      BY <1>1, <3>1
  <2> QED
    BY <2>1, <2>2
<1>2. ListingInv /\ [Next]_vars =>
        [cursor # End /\ cursor' = End =>
           \A p \in known' : count'[p] = 0 => Explained(p)']_vars
  BY <1>1
<1> QED
  BY <1>2, Invariance, PTL DEF Spec, SkipsAreExplained

=============================================================================
