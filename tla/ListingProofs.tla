---------------------------- MODULE ListingProofs ----------------------------
(***************************************************************************)
(* Proofs about Listing, for any table, page size and length of walk.      *)
(***************************************************************************)
EXTENDS Listing, FiniteSetTheorems, TLAPS

(* The rows of the result have places of their own, from 1 to len. *)
Places ==
    /\ \A i \in Items : pos[i] <= len
    /\ \A i, j \in Items : pos[i] > 0 /\ pos[i] = pos[j] => i = j
    /\ \A i \in seen : pos[i] # 0

Walking == walk \in {"ready", "counted"}

(* What the client was not shown yet lies ahead of it. *)
Ahead ==
    /\ walk = "off" => page = 1 /\ seen = {} /\ repeats = 0
    /\ Walking /\ ~disturbed => \A i \in start \ seen : pos[i] > offset(page)
    /\ walk = "counted" /\ ~disturbed => len <= total + gap
    /\ page = 1 /\ Walking => seen = {}

(* The rows that lie ahead although they were shown already: each of them
   was pushed over the edge of a page by an insertion of its own.          *)
Again == {i \in seen : pos[i] > offset(page)}

Paid ==
    /\ Walking /\ ~disturbed => repeats + Cardinality(Again) <= inserts
    /\ ~disturbed => repeats <= inserts

ListingInv == ListingTypeOK /\ Places /\ Ahead /\ Paid /\ WalkCovers

-----------------------------------------------------------------------------
(* Pages follow one another without a hole. *)
LEMMA Offsets ==
  ASSUME NEW p \in Nat \ {0}
  PROVE  /\ offset(p) \in Nat /\ offset(1) = 0
         /\ offset(p + 1) = offset(p) + page_size
         /\ p > 1 => offset(p) >= 1
<1> USE ListingAssumption
<1>1. PICK q \in Nat : q = p - 1
  OBVIOUS
<1>2. q * page_size \in Nat /\ (q + 1) * page_size = q * page_size + page_size
  BY SMT
<1>3. q >= 1 => q * page_size >= 1
  BY SMT
<1> QED
  BY <1>1, <1>2, <1>3 DEF offset

(* The last page ends at or after the last row counted. *)
LEMMA LastPage ==
  ASSUME NEW n \in Nat, NEW p \in Nat \ {0}, p >= total_pages(n)
  PROVE  n <= offset(p) + page_size
<1> USE ListingAssumption
<1>1. PICK q \in Int : q = (n + page_size - 1) \div page_size
  OBVIOUS
<1>2. n + page_size - 1 < (q + 1) * page_size
  BY <1>1, SMT
<1>3. p * page_size >= q * page_size
  BY <1>1, SMT DEF total_pages
<1>4. (q + 1) * page_size = q * page_size + page_size
  BY SMT
<1>5. offset(p) + page_size = p * page_size
  BY SMT DEF offset
<1> QED
  BY <1>2, <1>3, <1>4, <1>5

(* Rows with places of their own between a and b are at most b - a. *)
LEMMA Pigeons ==
  ASSUME NEW S \in SUBSET Items, NEW f \in [Items -> Int], NEW a \in Nat, NEW b \in Nat, a <= b,
         \A i \in S : a < f[i] /\ f[i] <= b,
         \A i, j \in S : f[i] = f[j] => i = j
  PROVE  Cardinality(S) <= b - a
<1>1. IsFiniteSet((a + 1)..b) /\ Cardinality((a + 1)..b) = b - a
  <2>1. PICK c \in Int : c = a + 1
    OBVIOUS
  <2>2. IsFiniteSet(c..b) /\ Cardinality(c..b) = IF c > b THEN 0 ELSE b - c + 1
    BY FS_Interval
  <2> QED
    BY <2>1, <2>2
<1> DEFINE g == [i \in S |-> f[i]]
<1>2. g \in Injection(S, (a + 1)..b)
  BY DEF Injection, IsInjective
<1> HIDE DEF g
<1> QED
  BY <1>1, <1>2, FS_Injection

LEMMA ListingInitInv == ListingInit => ListingInv
<1> SUFFICES ASSUME ListingInit PROVE ListingInv
  OBVIOUS
<1>0. pos \in [Items -> Nat \cup {-1}] /\ len \in Nat
  BY DEF ListingInit
<1>a. seen \subseteq Items /\ start \subseteq Items
  BY DEF ListingInit
<1>b. page \in Nat \ {0} /\ total \in Nat /\ repeats \in Nat /\ gap \in Nat /\ inserts \in Nat
  BY DEF ListingInit
<1>c. disturbed \in BOOLEAN
  BY Zenon DEF ListingInit
<1>d. listing \in {"orders", "events"} /\ walk \in {"off", "ready", "counted", "done"}
  BY DEF ListingInit
<1>1. ListingTypeOK
  BY <1>0, <1>a, <1>b, <1>c, <1>d, Zenon DEF ListingTypeOK
<1>2. Places /\ Ahead
  BY DEF ListingInit, Places, Walking, Ahead
<1>3. Paid /\ WalkCovers
  BY DEF ListingInit, Walking, Paid, WalkCovers
<1> QED
  BY <1>1, <1>2, <1>3 DEF ListingInv

(* Rows that leave or change places excuse the walk. *)
LEMMA DisturbedInv ==
  ASSUME ListingInv, ListingTypeOK', Places',
         UNCHANGED <<walk, page, total, seen, repeats, start, gap, inserts>>,
         disturbed' = (disturbed \/ walk # "off")
  PROVE  ListingInv'
<1> USE DEF ListingInv
<1>1. Ahead' /\ WalkCovers'
  BY DEF Ahead, Walking, WalkCovers
<1>2. Paid'
  BY DEF Paid, Walking
<1> QED
  BY <1>1, <1>2

(* What "f gives n rows places of their own" means for a step. *)
Distinct(f, n) ==
    /\ f \in [Items -> Nat \cup {-1}]
    /\ \A i \in Items : f[i] <= n
    /\ \A i, j \in Items : f[i] > 0 /\ f[i] = f[j] => i = j

LEMMA RemoveDistinct ==
  ASSUME NEW f, NEW n \in Nat, Distinct(f, n), NEW i \in Items, f[i] > 0,
         NEW g, g = RemoveFrom(f, i)
  PROVE  /\ n - 1 \in Nat /\ Distinct(g, n - 1)
         /\ g[i] = -1
         /\ \A j \in Items : f[j] # 0 => g[j] # 0
<1>0. /\ f[i] \in Nat /\ f[i] <= n
      /\ g = [j \in Items |-> IF j = i THEN -1 ELSE IF f[j] > f[i] THEN f[j] - 1 ELSE f[j]]
  BY DEF Distinct, RemoveFrom
<1>1. g \in [Items -> Nat \cup {-1}] /\ n - 1 \in Nat
  BY <1>0 DEF Distinct
<1>2. ASSUME NEW j \in Items PROVE g[j] <= n - 1 /\ (f[j] # 0 => g[j] # 0)
  <2>1. f[j] <= n /\ f[j] \in Int /\ (f[j] = f[i] => j = i)
    BY <1>0 DEF Distinct
  <2> QED
    BY <1>0, <2>1
<1>3. ASSUME NEW j \in Items, NEW k \in Items, g[j] > 0, g[j] = g[k] PROVE j = k
  <2>1. /\ f[j] \in Int /\ f[k] \in Int
        /\ (f[j] > 0 /\ f[j] = f[k] => j = k)
        /\ (f[j] = f[i] => j = i) /\ (f[k] = f[i] => k = i)
    BY <1>0 DEF Distinct
  <2> QED
    BY <1>0, <1>3, <2>1
<1> QED
  BY <1>0, <1>1, <1>2, <1>3 DEF Distinct

LEMMA InsertDistinct ==
  ASSUME NEW f, NEW n \in Nat, Distinct(f, n), NEW i \in Items, f[i] <= 0,
         NEW p \in 1..(n + 1), NEW g, g = InsertAt(f, i, p)
  PROVE  /\ Distinct(g, n + 1)
         /\ \A j \in Items : f[j] # 0 => g[j] # 0
         /\ \A j \in Items : j # i => g[j] \in {f[j], f[j] + 1}
<1>0. /\ f[i] \in Int
      /\ g = [j \in Items |-> IF j = i THEN p ELSE IF f[j] >= p THEN f[j] + 1 ELSE f[j]]
  BY DEF Distinct, InsertAt
<1>1. g \in [Items -> Nat \cup {-1}]
  BY <1>0 DEF Distinct
<1>2. ASSUME NEW j \in Items
      PROVE  /\ g[j] <= n + 1 /\ (f[j] # 0 => g[j] # 0)
             /\ j # i => g[j] \in {f[j], f[j] + 1}
  <2>1. f[j] <= n /\ f[j] \in Int
    BY DEF Distinct
  <2> QED
    BY <1>0, <2>1
<1>3. ASSUME NEW j \in Items, NEW k \in Items, g[j] > 0, g[j] = g[k] PROVE j = k
  <2>1. f[j] \in Int /\ f[k] \in Int /\ (f[j] > 0 /\ f[j] = f[k] => j = k)
    BY DEF Distinct
  <2> QED
    BY <1>0, <1>3, <2>1
<1> QED
  BY <1>1, <1>2, <1>3 DEF Distinct

LEMMA RemoveInv ==
  ASSUME ListingInv, NEW i \in Items, Remove(i)
  PROVE  ListingInv'
<1> USE DEF ListingInv
<1>1. Distinct(pos, len) /\ len \in Nat /\ pos[i] > 0
  BY DEF Remove, Distinct, ListingTypeOK, Places
<1>2. PICK g : g = RemoveFrom(pos, i)
  OBVIOUS
<1>3. /\ len - 1 \in Nat /\ Distinct(g, len - 1)
      /\ \A j \in Items : pos[j] # 0 => g[j] # 0
  BY <1>1, <1>2, RemoveDistinct
<1>4. pos' = g /\ len' = len - 1 /\ seen' = seen
  BY <1>2 DEF Remove
<1>5. ListingTypeOK'
  BY <1>3, <1>4 DEF Remove, ListingTypeOK, Distinct
<1>6. Places'
  BY <1>3, <1>4 DEF Places, Distinct, ListingTypeOK
<1> QED
  BY <1>5, <1>6, DisturbedInv DEF Remove

LEMMA MoveInv ==
  ASSUME ListingInv, NEW i \in Items, Move(i)
  PROVE  ListingInv'
<1> USE DEF ListingInv
<1>1. Distinct(pos, len) /\ len \in Nat /\ pos[i] > 0
  BY DEF Move, Distinct, ListingTypeOK, Places
<1>2. PICK f : f = RemoveFrom(pos, i)
  OBVIOUS
<1>3. /\ len - 1 \in Nat /\ Distinct(f, len - 1) /\ f[i] = -1
      /\ \A j \in Items : pos[j] # 0 => f[j] # 0
  BY <1>1, <1>2, RemoveDistinct
<1>4. PICK m \in Nat : m = len - 1 /\ len = m + 1
  BY <1>1, <1>3
<1>5. PICK p \in 1..(m + 1) : pos' = InsertAt(f, i, p)
  BY <1>2, <1>4 DEF Move
<1>6. /\ Distinct(pos', m + 1)
      /\ \A j \in Items : f[j] # 0 => pos'[j] # 0
  <2>1. PICK g : g = InsertAt(f, i, p)
    OBVIOUS
  <2>2. Distinct(g, m + 1) /\ \A j \in Items : f[j] # 0 => g[j] # 0
    BY <1>3, <1>4, <2>1, InsertDistinct
  <2> QED
    BY <1>5, <2>1, <2>2
<1>7. len' = len /\ seen' = seen
  BY DEF Move
<1>8. ListingTypeOK'
  BY <1>6, <1>7 DEF Move, ListingTypeOK, Distinct
<1>9. Places'
  BY <1>3, <1>4, <1>6, <1>7 DEF Places, Distinct, ListingTypeOK
<1> QED
  BY <1>8, <1>9, DisturbedInv DEF Move

(* An insertion moves rows back by one place at most: what lies ahead stays
   ahead, and one row at most is pushed over the edge of a page.           *)
LEMMA InsertInv ==
  ASSUME ListingInv, NEW i \in Items, Insert(i)
  PROVE  ListingInv'
<1> USE DEF ListingInv
<1>1. Distinct(pos, len) /\ len \in Nat /\ pos[i] = 0
  BY DEF Insert, Distinct, ListingTypeOK, Places
<1>2. PICK p \in 1..(len + 1) : pos' = InsertAt(pos, i, p)
  BY DEF Insert
<1>3. /\ Distinct(pos', len + 1)
      /\ \A j \in Items : pos[j] # 0 => pos'[j] # 0
      /\ \A j \in Items : j # i => pos'[j] \in {pos[j], pos[j] + 1}
  <2>1. PICK g : g = InsertAt(pos, i, p)
    OBVIOUS
  <2>2. /\ Distinct(g, len + 1)
        /\ \A j \in Items : pos[j] # 0 => g[j] # 0
        /\ \A j \in Items : j # i => g[j] \in {pos[j], pos[j] + 1}
    BY <1>1, <2>1, InsertDistinct
  <2> QED
    BY <1>2, <2>1, <2>2
<1>4. /\ len' = len + 1 /\ UNCHANGED <<listing, walk, page, total, seen, repeats, start, disturbed>>
      /\ gap' = IF walk = "counted" THEN gap + 1 ELSE gap
      /\ inserts' = IF page > 1 THEN inserts + 1 ELSE inserts
      /\ gap' \in Nat /\ inserts' \in Nat
  BY DEF Insert, ListingTypeOK
<1>5. ListingTypeOK'
  BY <1>3, <1>4 DEF ListingTypeOK, Distinct
<1>6. Places'
  BY <1>3, <1>4 DEF Places, Distinct, ListingTypeOK
<1>a. PICK o \in Nat : o = offset(page) /\ o = offset(page)' /\ (page > 1 => o >= 1) /\ (page = 1 => o = 0)
  BY <1>4, Offsets DEF ListingTypeOK, offset
<1>7. Ahead'
  <2>1. ASSUME Walking, ~disturbed, NEW j \in start \ seen PROVE pos'[j] > o
    <3>1. j \in Items /\ pos[j] > o /\ pos[j] \in Int
      BY <2>1, <1>a DEF Ahead, ListingTypeOK
    <3>2. j # i
      BY <3>1, <1>1, <1>a
    <3> QED
      BY <3>1, <3>2, <1>3
  <2>2. walk = "counted" /\ ~disturbed => len' <= total + gap'
    BY <1>4 DEF Ahead, ListingTypeOK
  <2> QED
    BY <2>1, <2>2, <1>4, <1>a DEF Ahead, Walking
<1>8. Paid'
  <2>1. /\ seen \subseteq Items /\ repeats \in Nat /\ inserts \in Nat
        /\ page \in Nat \ {0}
    BY DEF ListingTypeOK
  <2>2. IsFiniteSet(seen)
    BY <2>1, ListingAssumption, FS_Subset
  <2>3. PICK A : A = Again
    OBVIOUS
  <2>4. PICK B : B = Again'
    OBVIOUS
  <2>5. A = {j \in seen : pos[j] > o} /\ B = {j \in seen : pos'[j] > o}
    BY <2>3, <2>4, <1>4, <1>a DEF Again
  <2>6. IsFiniteSet(A) /\ IsFiniteSet(B) /\ Cardinality(A) \in Nat /\ Cardinality(B) \in Nat
    BY <2>2, <2>5, FS_Subset, FS_CardinalityType
  <2>7. ASSUME NEW j \in B PROVE j \in A \/ pos[j] = o
    <3>1. j \in Items /\ j # i /\ pos[j] \in Int /\ pos'[j] > o
      BY <2>1, <2>5, <2>7, <1>1 DEF Places, ListingTypeOK
    <3> QED
      BY <3>1, <2>5, <1>3
  <2>8. Walking /\ ~disturbed => Cardinality(B) <= Cardinality(A) + (inserts' - inserts)
    <3>1. CASE page = 1
      BY <3>1, <2>1, <2>5, <2>6, <1>4, FS_EmptySet DEF Ahead
    <3>2. CASE page > 1 /\ \E j \in Items : pos[j] = o
      <4>1. PICK j \in Items : pos[j] = o
        BY <3>2
      <4>2. \A k \in Items : pos[k] = o => k = j
        BY <3>2, <4>1, <1>a DEF Places
      <4>3. B \subseteq A \cup {j}
        BY <2>1, <2>5, <2>7, <4>2
      <4>4. IsFiniteSet(A \cup {j}) /\ Cardinality(A \cup {j}) <= Cardinality(A) + 1
        <5>1. Cardinality(A \cup {j}) = IF j \in A THEN Cardinality(A) ELSE Cardinality(A) + 1
          BY <2>6, FS_AddElement, Zenon
        <5>2. IsFiniteSet(A \cup {j})
          BY <2>6, FS_AddElement, Zenon
        <5> QED
          BY <5>1, <5>2, <2>6
      <4>5. Cardinality(B) <= Cardinality(A \cup {j})
        BY <4>3, <4>4, FS_Subset
      <4>6. Cardinality(A \cup {j}) \in Nat
        BY <4>4, FS_CardinalityType
      <4> QED
        BY <3>2, <4>4, <4>5, <4>6, <2>1, <2>6, <1>4
    <3>3. CASE page > 1 /\ ~\E j \in Items : pos[j] = o
      <4>1. B \subseteq A
        BY <3>3, <2>1, <2>5, <2>7
      <4>2. Cardinality(B) <= Cardinality(A)
        BY <4>1, <2>6, FS_Subset
      <4> QED
        BY <3>3, <4>2, <2>1, <2>6, <1>4
    <3> QED
      BY <2>1, <3>1, <3>2, <3>3
  <2>9. inserts' >= inserts
    BY <2>1, <1>4
  <2>10. Walking /\ ~disturbed => repeats + Cardinality(A) <= inserts
    BY <2>3 DEF Paid
  <2>11. Walking /\ ~disturbed => repeats + Cardinality(B) <= inserts'
    BY <2>8, <2>10, <2>6, <2>1, <1>4
  <2> QED
    BY <2>1, <2>4, <2>9, <2>11, <1>4 DEF Paid, Walking
<1>9. WalkCovers'
  BY <1>4 DEF WalkCovers
<1> QED
  BY <1>5, <1>6, <1>7, <1>8, <1>9

LEMMA BeginInv ==
  ASSUME ListingInv, Begin
  PROVE  ListingInv'
<1> USE DEF ListingInv
<1>1. ListingTypeOK'
  BY DEF Begin, rowVars, ListingTypeOK
<1>2. Places' /\ WalkCovers'
  BY DEF Begin, rowVars, Places, WalkCovers
<1>a. page \in Nat \ {0} /\ offset(1) = 0 /\ page = 1 /\ page' = 1 /\ seen' = {} /\ repeats' = 0
  BY Offsets DEF Begin, Ahead, ListingTypeOK
<1>3. Ahead'
  <2>1. offset(page)' = 0
    BY <1>a DEF offset
  <2> QED
    BY <1>a, <2>1 DEF Begin, rowVars, Ahead, Walking
<1>4. Paid'
  <2>1. Again' = {}
    BY <1>a DEF Again
  <2> QED
    BY <1>a, <2>1, FS_EmptySet DEF Begin, Paid, ListingTypeOK
<1> QED
  BY <1>1, <1>2, <1>3, <1>4

LEMMA CountInv ==
  ASSUME ListingInv, Count
  PROVE  ListingInv'
<1> USE DEF ListingInv
<1>1. ListingTypeOK'
  BY DEF Count, SelectCount, rowVars, ListingTypeOK
<1>2. Places' /\ WalkCovers'
  BY DEF Count, SelectCount, rowVars, Places, WalkCovers
<1>3. Ahead'
  BY DEF Count, SelectCount, rowVars, Ahead, Walking, offset, ListingTypeOK
<1>4. Paid'
  BY DEF Count, SelectCount, rowVars, Paid, Walking, Again, offset
<1> QED
  BY <1>1, <1>2, <1>3, <1>4

(* The page query: what it does not show lies beyond it, and if this was the
   last page, beyond the count of its answer.                              *)
LEMMA FetchInv ==
  ASSUME ListingInv, Fetch
  PROVE  ListingInv'
<1> USE DEF ListingInv
<1>0. /\ UNCHANGED <<listing, pos, len, total, start, gap, inserts, disturbed>>
      /\ walk = "counted" /\ seen' = seen \cup PageItems
      /\ repeats' = repeats + Cardinality(seen \cap PageItems)
      /\ \/ page' = page + 1 /\ walk' = "ready"
         \/ page >= total_pages(total) /\ page' = page /\ walk' = "done"
  BY DEF Fetch, rowVars
<1>t. /\ pos \in [Items -> Nat \cup {-1}] /\ len \in Nat /\ page \in Nat \ {0} /\ total \in Nat
      /\ seen \subseteq Items /\ start \subseteq Items
      /\ repeats \in Nat /\ gap \in Nat /\ inserts \in Nat
  BY DEF ListingTypeOK
<1>a. PICK o \in Nat : o = offset(page)
  BY <1>t, Offsets
<1>b. PICK e \in Nat : e = o + page_size /\ e = offset(page + 1) /\ e > o
  BY <1>t, <1>a, Offsets, ListingAssumption
<1>c. PageItems = {i \in Items : o < pos[i] /\ pos[i] <= e}
  BY <1>a, <1>b DEF PageItems
<1>d. page' = page + 1 => offset(page)' = e
  <2>1. page' = page + 1 => offset(page') = offset(page + 1)
    OBVIOUS
  <2> QED
    BY <2>1, <1>b DEF offset
<1>s. IsFiniteSet(seen)
  BY <1>t, ListingAssumption, FS_Subset
<1>f. PICK C : C = seen \cap PageItems /\ IsFiniteSet(C) /\ Cardinality(C) \in Nat
  BY <1>s, FS_Subset, FS_CardinalityType
<1>1. ListingTypeOK'
  <2>1. repeats' \in Nat
    BY <1>0, <1>f, <1>t
  <2>2. page' \in Nat \ {0} /\ seen' \subseteq Items /\ walk' \in {"off", "ready", "counted", "done"}
    BY <1>0, <1>c, <1>t
  <2> QED
    BY <1>0, <2>1, <2>2 DEF ListingTypeOK
<1>2. Places'
  <2>1. \A i \in seen' : pos[i] # 0
    BY <1>0, <1>c DEF Places
  <2> QED
    BY <1>0, <2>1 DEF Places
<1>3. ASSUME ~disturbed, NEW i \in start, i \notin seen' PROVE pos[i] > e /\ i \in Items
  <2>1. pos[i] > o /\ i \in Items /\ pos[i] \in Int
    BY <1>0, <1>3, <1>a, <1>t DEF Ahead, Walking
  <2> QED
    BY <2>1, <1>0, <1>3, <1>c
<1>4. Ahead'
  <2>1. page' = 1 => walk' = "done"
    BY <1>0, <1>t
  <2> QED
    BY <2>1, <1>0, <1>3, <1>d DEF Ahead, Walking
<1>5. ~disturbed => repeats + Cardinality(Again) <= inserts
  BY <1>0 DEF Paid, Walking
<1>6. Paid'
  <2>1. PICK A : A = Again /\ A = {i \in seen : pos[i] > o}
    BY <1>a DEF Again
  <2>2. IsFiniteSet(A) /\ Cardinality(A) \in Nat
    BY <2>1, <1>s, FS_Subset, FS_CardinalityType
  <2>3. C \subseteq A
    BY <2>1, <1>f, <1>c
  <2>4. Cardinality(C) <= Cardinality(A)
    BY <2>2, <2>3, FS_Subset
  <2>5. ~disturbed => repeats' <= inserts
    BY <2>1, <2>2, <2>4, <1>0, <1>f, <1>5, <1>t
  <2>6. CASE walk' = "ready"
    <3>1. PICK B : B = Again' /\ B = {i \in seen' : pos[i] > e}
      BY <2>6, <1>0, <1>d DEF Again
    <3>2. B \subseteq A \ C
      BY <3>1, <2>1, <1>0, <1>b, <1>c, <1>f, <1>t
    <3>3. IsFiniteSet(A \ C) /\ Cardinality(A \ C) = Cardinality(A) - Cardinality(A \cap C)
      BY <2>2, <1>f, FS_Difference, Zenon
    <3>4. A \cap C = C
      BY <2>3
    <3>5. Cardinality(B) <= Cardinality(A \ C) /\ Cardinality(B) \in Nat
      BY <3>2, <3>3, FS_Subset, FS_CardinalityType
    <3>6. ~disturbed => repeats' + Cardinality(B) <= inserts
      <4>1. Cardinality(A \ C) = Cardinality(A) - Cardinality(C)
        BY <3>3, <3>4
      <4>2. repeats' = repeats + Cardinality(C)
        BY <1>0, <1>f
      <4>3. ~disturbed => repeats + Cardinality(A) <= inserts
        BY <1>5, <2>1
      <4> QED
        BY <4>1, <4>2, <4>3, <3>5, <2>2, <1>f, <1>t
    <3> QED
      BY <3>1, <3>6, <2>5, <1>0 DEF Paid
  <2> QED
    BY <2>5, <2>6, <1>0 DEF Paid, Walking
<1>7. WalkCovers'
  <2> SUFFICES ASSUME walk' = "done", ~disturbed PROVE Cardinality(start \ seen') <= gap
    BY <1>0 DEF WalkCovers
  <2>1. total <= e
    BY <1>0, <1>a, <1>b, <1>t, LastPage
  <2>2. PICK S \in SUBSET Items : S = start \ seen'
    BY <1>t
  <2>3. \A i \in S : e < pos[i] /\ pos[i] <= len
    BY <2>2, <1>3 DEF Places
  <2>4. \A i, j \in S : pos[i] = pos[j] => i = j
    BY <2>3, <1>b, <1>t DEF Places
  <2>5. len <= total + gap
    BY <1>0 DEF Ahead
  <2>6. CASE e <= len
    <3>1. pos \in [Items -> Int]
      BY <1>t
    <3>2. Cardinality(S) <= len - e
      BY <3>1, <2>3, <2>4, <2>6, <1>t, Pigeons
    <3>3. S \subseteq Items /\ IsFiniteSet(S) /\ Cardinality(S) \in Nat
      BY ListingAssumption, FS_Subset, FS_CardinalityType
    <3> QED
      BY <3>2, <3>3, <2>1, <2>2, <2>5, <1>t
  <2>7. CASE len < e
    <3>1. S = {}
      BY <2>3, <2>7, <1>t
    <3> QED
      BY <3>1, <2>2, <1>t, FS_EmptySet
  <2> QED
    BY <2>6, <2>7, <1>t
<1> QED
  BY <1>1, <1>2, <1>4, <1>6, <1>7

LEMMA ListingNextInv ==
  ASSUME ListingInv, [ListingNext]_listingVars
  PROVE  ListingInv'
<1>1. CASE UNCHANGED listingVars
  BY <1>1 DEF listingVars, rowVars, walkVars, ListingInv, ListingTypeOK, Places, Ahead, Walking,
              Paid, Again, offset, WalkCovers
<1> QED
  BY <1>1, InsertInv, RemoveInv, MoveInv, BeginInv, CountInv, FetchInv DEF ListingNext

LEMMA ListingInvariance == ListingSpec => []ListingInv
  BY ListingInitInv, ListingNextInv, PTL DEF ListingSpec

-----------------------------------------------------------------------------
(* The result and the walk stay well formed; no place is ever negative by a
   row too many removed.                                                   *)
THEOREM ListingTypeCorrect == ListingSpec => []ListingTypeOK
<1>1. ListingInv => ListingTypeOK
  BY DEF ListingInv
<1> QED
  BY <1>1, ListingInvariance, PTL

(* A walk through the pages misses no row that was there from the start but
   for those that came between the COUNT and the query of its last answer. *)
THEOREM WalksCover == ListingSpec => []WalkCovers
<1>1. ListingInv => WalkCovers
  BY DEF ListingInv
<1> QED
  BY <1>1, ListingInvariance, PTL

(* Rows are shown again only as often as rows were inserted. *)
THEOREM RepeatsAreInserts == ListingSpec => []RepeatsCostInserts
<1>1. ListingInv => RepeatsCostInserts
  BY DEF ListingInv, Paid, RepeatsCostInserts
<1> QED
  BY <1>1, ListingInvariance, PTL

=============================================================================
