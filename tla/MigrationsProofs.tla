-------------------------- MODULE MigrationsProofs --------------------------
(***************************************************************************)
(* What holds of migrations for any processes, names and versions.  First   *)
(* that Less orders versions, so that Sorted exists: it is an enumeration,  *)
(* and whatever is less than an element of it comes before it.              *)
(***************************************************************************)
EXTENDS Migrations, FiniteSetTheorems, TLAPS

\* A number for each version whose order is Less.
Key(v) == IF v < 1000 THEN 20 * v ELSE 2 * v + 1

LEMMA LessIsKey ==
  ASSUME NEW v \in Nat, NEW w \in Nat
  PROVE  Less(v, w) <=> Key(v) < Key(w)
<1>1. CASE v < 1000 /\ w >= 1000
  <2>1. Less(v, w) <=> v <= w \div 10
    BY <1>1 DEF Less
  <2>2. Key(v) = 20 * v /\ Key(w) = 2 * w + 1
    BY <1>1 DEF Key
  <2> QED
    BY <2>1, <2>2
<1>2. CASE v >= 1000 /\ w < 1000
  <2>1. Less(v, w) <=> v \div 10 < w
    BY <1>2 DEF Less
  <2>2. Key(v) = 2 * v + 1 /\ Key(w) = 20 * w
    BY <1>2 DEF Key
  <2> QED
    BY <2>1, <2>2
<1>3. CASE ~(v < 1000 /\ w >= 1000) /\ ~(v >= 1000 /\ w < 1000)
  BY <1>3 DEF Less, Key
<1> QED
  BY <1>1, <1>2, <1>3

LEMMA KeyDiffers ==
  ASSUME NEW v \in Nat, NEW w \in Nat, v # w
  PROVE  Key(v) # Key(w) /\ Key(v) \in Nat /\ Key(w) \in Nat
  BY DEF Key

LEMMA VersionFinite ==
  ASSUME NEW vs \in SUBSET Version
  PROVE  IsFiniteSet(vs) /\ Cardinality(vs) \in Nat /\ vs \subseteq Nat
<1>0. First \in Nat /\ Last \in Nat
  BY MigrationsAssumption
<1>1. IsFiniteSet(Version) /\ Version \subseteq Nat
  <2>1. IsFiniteSet(First..Last)
    BY <1>0, FS_Interval
  <2> QED
    BY <1>0, <2>1 DEF Version
<1>2. IsFiniteSet(vs)
  BY <1>1, FS_Subset
<1> QED
  BY <1>1, <1>2, FS_CardinalityType

\* The versions of a set up to one of them.
UpTo(vs, v) == {w \in vs : Key(w) <= Key(v)}

\* Counting them orders the set.
LEMMA RankOrders ==
  ASSUME NEW vs \in SUBSET Version, NEW v \in vs, NEW w \in vs
  PROVE  /\ Cardinality(UpTo(vs, v)) \in 1..Cardinality(vs)
         /\ Key(v) < Key(w) => Cardinality(UpTo(vs, v)) < Cardinality(UpTo(vs, w))
<1>1. IsFiniteSet(vs) /\ Cardinality(vs) \in Nat /\ vs \subseteq Nat
  BY VersionFinite
<1>2. UpTo(vs, v) \subseteq vs /\ UpTo(vs, w) \subseteq vs /\ \A x \in vs : Key(x) \in Nat
  BY <1>1 DEF UpTo, Key
<1>3. /\ IsFiniteSet(UpTo(vs, v)) /\ IsFiniteSet(UpTo(vs, w))
      /\ Cardinality(UpTo(vs, v)) <= Cardinality(vs)
  BY <1>1, <1>2, FS_Subset
<1>4. Cardinality(UpTo(vs, v)) \in Nat /\ Cardinality(UpTo(vs, w)) \in Nat
  BY <1>3, FS_CardinalityType
<1>5. v \in UpTo(vs, v) /\ w \in UpTo(vs, w)
  BY <1>2 DEF UpTo
<1>6. Cardinality(UpTo(vs, v)) # 0
  BY <1>3, <1>5, FS_EmptySet
<1>7. ASSUME Key(v) < Key(w)
      PROVE  Cardinality(UpTo(vs, v)) < Cardinality(UpTo(vs, w))
  <2>1. UpTo(vs, v) \subseteq UpTo(vs, w) /\ w \notin UpTo(vs, v)
    BY <1>2, <1>7 DEF UpTo
  <2>2. Cardinality(UpTo(vs, v)) <= Cardinality(UpTo(vs, w))
        /\ Cardinality(UpTo(vs, w)) # Cardinality(UpTo(vs, v))
    BY <1>3, <1>5, <2>1, FS_Subset
  <2> QED
    BY <1>4, <2>2
<1> QED
  BY <1>1, <1>3, <1>4, <1>6, <1>7

\* So an enumeration in the order of Less exists.
LEMMA SortingExists ==
  ASSUME NEW vs \in SUBSET Version
  PROVE  \E s \in [1..Cardinality(vs) -> vs] :
           \A i, j \in DOMAIN s : i < j => Less(s[i], s[j])
<1> DEFINE n == Cardinality(vs)
           r == [v \in vs |-> Cardinality(UpTo(vs, v))]
           s == [i \in 1..n |-> CHOOSE v \in vs : r[v] = i]
<1>1. IsFiniteSet(vs) /\ n \in Nat /\ vs \subseteq Nat
  BY VersionFinite
<1>2. /\ \A v \in vs : r[v] \in 1..n
      /\ \A v, w \in vs : Key(v) < Key(w) => r[v] < r[w]
  BY RankOrders
<1> HIDE DEF r
<1>3. r \in Injection(vs, 1..n)
  <2>1. r \in [vs -> 1..n]
    BY <1>2 DEF r
  <2>2. \A v, w \in vs : v # w => r[v] # r[w]
    <3> SUFFICES ASSUME NEW v \in vs, NEW w \in vs, v # w
                 PROVE  r[v] # r[w]
      OBVIOUS
    <3>1. Key(v) # Key(w) /\ Key(v) \in Nat /\ Key(w) \in Nat
      BY <1>1, KeyDiffers
    <3>2. Key(v) < Key(w) \/ Key(w) < Key(v)
      BY <3>1
    <3>3. r[v] \in Int /\ r[w] \in Int
      BY <1>1, <1>2
    <3> QED
      BY <1>2, <3>2, <3>3
  <2> QED
    BY <2>1, <2>2 DEF Injection, IsInjective
<1>4. IsFiniteSet(1..n) /\ Cardinality(1..n) = n
  BY <1>1, FS_Interval
<1>5. r \in Surjection(vs, 1..n)
  BY <1>3, <1>4, FS_Injection
<1>6. \A i \in 1..n : \E v \in vs : r[v] = i
  BY <1>5 DEF Surjection
<1>7. \A i \in 1..n : s[i] \in vs /\ r[s[i]] = i
  BY <1>6
<1> HIDE DEF n
<1>8. s \in [1..n -> vs] /\ DOMAIN s = 1..n
  BY <1>7
<1> HIDE DEF s
<1>9. ASSUME NEW i \in 1..n, NEW j \in 1..n, i < j
      PROVE  Less(s[i], s[j])
  <2>1. s[i] \in vs /\ s[j] \in vs /\ r[s[i]] = i /\ r[s[j]] = j
    BY <1>7
  <2> DEFINE v == s[i]
             w == s[j]
  <2> HIDE DEF v, w
  <2>2. v \in vs /\ w \in vs /\ r[v] = i /\ r[w] = j /\ v \in Nat /\ w \in Nat
    BY <1>1, <2>1 DEF v, w
  <2>3. i \in Int /\ j \in Int /\ i # j /\ ~(j < i)
    BY <1>1, <1>9
  <2>4. v # w
    BY <2>2, <2>3
  <2>5. Key(v) # Key(w) /\ Key(v) \in Nat /\ Key(w) \in Nat
    BY <2>2, <2>4, KeyDiffers
  <2>6. ~(Key(w) < Key(v))
    BY <1>2, <2>2, <2>3
  <2>7. Key(v) < Key(w)
    BY <2>5, <2>6
  <2> QED
    BY <2>2, <2>7, LessIsKey DEF v, w
<1> QED
  BY <1>8, <1>9 DEF n

\* What is less than an element of the enumeration comes before it, once.
LEMMA SortedEnumerates ==
  ASSUME NEW vs \in SUBSET Version
  PROVE  LET s == Sorted(vs) IN
         /\ s \in Seq(Version) /\ Len(s) = Cardinality(vs)
         /\ \A i \in 1..Len(s) : s[i] \in vs
         /\ \A i, j \in 1..Len(s) : i < j => Less(s[i], s[j])
         /\ \A i, j \in 1..Len(s) : i # j => s[i] # s[j]
         /\ \A v \in vs : \E i \in 1..Len(s) : s[i] = v
<1> DEFINE n == Cardinality(vs)
           s == Sorted(vs)
<1>1. IsFiniteSet(vs) /\ n \in Nat /\ vs \subseteq Nat
  BY VersionFinite
<1>2. s \in [1..n -> vs] /\ \A i, j \in DOMAIN s : i < j => Less(s[i], s[j])
  BY SortingExists DEF Sorted
<1> HIDE DEF s, n
<1>3. s \in Seq(Version) /\ Len(s) = n /\ \A i \in 1..n : s[i] \in vs /\ s[i] \in Nat
  <2>1. s \in [1..n -> vs] /\ vs \subseteq Version /\ vs \subseteq Nat /\ n \in Nat
    BY <1>1, <1>2
  <2>2. s \in [1..n -> Version]
    BY <2>1
  <2>3. \A i \in 1..n : s[i] \in vs /\ s[i] \in Nat
    BY <2>1
  <2> QED
    BY <2>1, <2>2, <2>3
<1>4. \A i, j \in 1..n : i # j => s[i] # s[j]
  <2> SUFFICES ASSUME NEW i \in 1..n, NEW j \in 1..n, i < j
               PROVE  s[i] # s[j]
    OBVIOUS
  <2>1. Less(s[i], s[j])
    BY <1>2
  <2>2. Key(s[i]) < Key(s[j])
    BY <1>3, <2>1, LessIsKey
  <2> QED
    BY <1>3, <2>2 DEF Key
<1>5. s \in Injection(1..n, vs)
  BY <1>2, <1>4 DEF Injection, IsInjective
<1>6. IsFiniteSet(1..n) /\ Cardinality(1..n) = n
  BY <1>1, FS_Interval
<1>7. s \in Surjection(1..n, vs)
  BY <1>1, <1>5, <1>6, FS_Injection DEF n
<1>8. \A v \in vs : \E i \in 1..n : s[i] = v
  BY <1>7 DEF Surjection
<1> QED
  BY <1>2, <1>3, <1>4, <1>8 DEF s, n

-----------------------------------------------------------------------------

(***************************************************************************)
(* What a step writes to its process; the others stay as they are.          *)
(***************************************************************************)
Elsewhere(p) == \A q \in Proc \ {p} : proc'[q] = proc[q]

LEMMA Written ==
  ASSUME proc \in [Proc -> ProcRecord], NEW p \in Proc, NEW r \in ProcRecord,
         proc' = [proc EXCEPT ![p] = r]
  PROVE  proc' \in [Proc -> ProcRecord] /\ proc'[p] = r /\ Elsewhere(p)
  BY DEF Elsewhere

LEMMA GoesTo ==
  ASSUME proc \in [Proc -> ProcRecord], NEW p \in Proc, NEW at \in Places, Goes(p, at)
  PROVE  /\ proc' \in [Proc -> ProcRecord] /\ Elsewhere(p)
         /\ proc'[p].at = at
         /\ proc'[p].todo = proc[p].todo /\ proc'[p].files = proc[p].files /\ proc'[p].new = proc[p].new
<1> DEFINE r == [proc[p] EXCEPT !.at = at]
<1>1. r \in ProcRecord /\ r.at = at /\ r.todo = proc[p].todo /\ r.files = proc[p].files /\ r.new = proc[p].new
  BY DEF ProcRecord
<1>2. proc' = [proc EXCEPT ![p] = r]
  BY DEF Goes
<1> HIDE DEF r
<1> QED
  BY <1>1, <1>2, Written

LEMMA SkipsTo ==
  ASSUME proc \in [Proc -> ProcRecord], NEW p \in Proc, NEW at \in Places, Skips(p, at), proc[p].todo # <<>>
  PROVE  /\ proc' \in [Proc -> ProcRecord] /\ Elsewhere(p)
         /\ proc'[p].at = at
         /\ proc'[p].todo = Tail(proc[p].todo) /\ proc'[p].files = proc[p].files /\ proc'[p].new = proc[p].new
<1> DEFINE r == [proc[p] EXCEPT !.at = at, !.todo = Tail(proc[p].todo)]
<1>0. Tail(proc[p].todo) \in Seq(Version)
  BY DEF ProcRecord
<1>1. /\ r \in ProcRecord /\ r.at = at /\ r.todo = Tail(proc[p].todo)
      /\ r.files = proc[p].files /\ r.new = proc[p].new
  BY <1>0 DEF ProcRecord
<1>2. proc' = [proc EXCEPT ![p] = r]
  BY DEF Skips
<1> HIDE DEF r
<1> QED
  BY <1>1, <1>2, Written

\* The rest of a sequence.
LEMMA Rests ==
  ASSUME NEW s \in Seq(Version), s # <<>>
  PROVE  /\ Head(s) = s[1] /\ Head(s) \in Version
         /\ 1 \in 1..Len(s) /\ Len(s) \in Nat
         /\ Len(Tail(s)) = Len(s) - 1
         /\ \A i \in 1..Len(Tail(s)) : Tail(s)[i] = s[i + 1] /\ i + 1 \in 1..Len(s)
  OBVIOUS

LEMMA IdleTyped == Idle \in ProcRecord
  BY DEF Idle, ProcRecord, Places

LEMMA Ended ==
  ASSUME proc \in [Proc -> ProcRecord], NEW p \in Proc, Ends(p)
  PROVE  /\ proc' \in [Proc -> ProcRecord] /\ Elsewhere(p)
         /\ proc'[p] = Idle
         /\ proc'[p].at = "idle" /\ proc'[p].todo = <<>> /\ proc'[p].files = {} /\ proc'[p].new = {}
<1>1. proc' = [proc EXCEPT ![p] = Idle]
  BY DEF Ends
<1>2. proc' \in [Proc -> ProcRecord] /\ proc'[p] = Idle /\ Elsewhere(p)
  BY <1>1, IdleTyped, Written
<1> QED
  BY <1>2 DEF Idle

LEMMA Begun ==
  ASSUME proc \in [Proc -> ProcRecord], disk \subseteq File, NEW p \in Proc, NEW at \in Places,
         NEW todo \in Seq(Version), Begin(p, at, todo)
  PROVE  /\ proc' \in [Proc -> ProcRecord] /\ Elsewhere(p)
         /\ proc'[p].at = at /\ proc'[p].todo = todo /\ proc'[p].files = Loaded /\ proc'[p].new = {}
<1> DEFINE r == [Idle EXCEPT !.at = at, !.todo = todo, !.files = Loaded]
<1>1. Loaded \subseteq File
  BY DEF Loaded
<1>2. r \in ProcRecord /\ r.at = at /\ r.todo = todo /\ r.files = Loaded /\ r.new = {}
  <2>1. Idle \in ProcRecord /\ Idle.new = {}
    BY IdleTyped DEF Idle
  <2> QED
    BY <1>1, <2>1 DEF ProcRecord
<1>3. proc' = [proc EXCEPT ![p] = r]
  BY DEF Begin
<1> HIDE DEF r
<1> QED
  BY <1>2, <1>3, Written

(***************************************************************************)
(* Create finds the next number: the versions on disk have no gap, so there *)
(* are as many as up to the greatest.                                       *)
(***************************************************************************)
Closed(vs) == \A v \in vs : \A w \in First..v : w \in vs

Follows(n, vs) == (\A v \in vs : v < n) /\ (n = First \/ n - 1 \in vs)

LEMMA NextNumber ==
  ASSUME NEW vs \in SUBSET Version, Closed(vs)
  PROVE  \E n \in First..(Last + 1) : Follows(n, vs)
<1> DEFINE k == Cardinality(vs)
           n == First + k
<1>1. First \in Nat \ {0} /\ Last \in Nat /\ First <= Last
  BY MigrationsAssumption
<1>2. IsFiniteSet(vs) /\ k \in Nat /\ vs \subseteq Nat /\ \A v \in vs : First <= v /\ v <= Last
  BY <1>1, VersionFinite DEF Version
<1>3. ASSUME NEW a \in Nat, NEW b \in Int
      PROVE  IsFiniteSet(a..b) /\ Cardinality(a..b) = IF a > b THEN 0 ELSE b - a + 1
  BY <1>3, FS_Interval
<1>4. k <= Last - First + 1
  <2>1. vs \subseteq First..Last
    BY DEF Version
  <2>2. IsFiniteSet(First..Last) /\ Cardinality(First..Last) = Last - First + 1
    BY <1>1, <1>3
  <2>3. k <= Cardinality(First..Last)
    BY <2>1, <2>2, FS_Subset
  <2> QED
    BY <2>2, <2>3
<1>5. ASSUME NEW v \in vs
      PROVE  v < n
  <2>1. First..v \subseteq vs
    BY DEF Closed
  <2>2. Cardinality(First..v) = v - First + 1
    BY <1>1, <1>2, <1>3
  <2>3. Cardinality(First..v) <= k
    BY <1>2, <2>1, FS_Subset
  <2> HIDE DEF k
  <2> QED
    BY <1>1, <1>2, <2>2, <2>3
<1>6. ASSUME n # First, n - 1 \notin vs
      PROVE  FALSE
  <2>1. \A v \in vs : v < n - 1
    <3> SUFFICES ASSUME NEW v \in vs, ~(v < n - 1)
                 PROVE  FALSE
      OBVIOUS
    <3> HIDE DEF k
    <3>1. n - 1 \in First..v
      BY <1>1, <1>2, <1>6
    <3> QED
      BY <1>6, <3>1 DEF Closed
  <2> HIDE DEF k
  <2>2. vs \subseteq First..(n - 2) /\ n - 2 \in Int /\ k # 0
    BY <1>1, <1>2, <1>6, <2>1
  <2>3. IsFiniteSet(First..(n - 2)) /\ Cardinality(First..(n - 2)) = k - 1
    <3>1. IsFiniteSet(First..(n - 2)) /\ Cardinality(First..(n - 2)) = IF First > n - 2 THEN 0 ELSE (n - 2) - First + 1
      BY <1>1, <1>3, <2>2
    <3> QED
      BY <1>1, <1>2, <2>2, <3>1
  <2>4. k <= Cardinality(First..(n - 2))
    BY <2>2, <2>3, FS_Subset DEF k
  <2> QED
    BY <1>2, <2>3, <2>4
<1> HIDE DEF k
<1>7. n \in First..(Last + 1)
  BY <1>1, <1>2, <1>4
<1> QED
  BY <1>5, <1>6, <1>7 DEF Follows

-----------------------------------------------------------------------------

\* Processes work on files that were on disk, and the numbers on disk have no gap.
Numbered ==
  /\ Closed(VersionsOf(disk))
  /\ \A p \in Proc :
       /\ proc[p].files \subseteq Loaded /\ Closed(VersionsOf(proc[p].files))
       /\ proc[p].at \in {"exec", "record", "unrecord"} => proc[p].todo # <<>>
       /\ proc[p].at = "writeUp" =>
            \A f \in proc[p].new : f.version = First \/ f.version - 1 \in VersionsOf(disk)
       /\ proc[p].at = "writeDown" => proc[p].new \subseteq disk

Typed == TypeOK /\ Numbered

LEMMA TypedInit == Init => Typed
<1> SUFFICES ASSUME Init
             PROVE  Typed
  OBVIOUS
<1>0. MaxAborts \in Nat /\ MaxDowns \in Nat
  BY MigrationsAssumption
<1>1. TypeOK
  BY <1>0, IdleTyped DEF Init, TypeOK
<1>2. Numbered
  BY DEF Init, Numbered, Closed, VersionsOf, Idle, Loaded
<1> QED
  BY <1>1, <1>2 DEF Typed

LEMMA VersionsTyped ==
  ASSUME NEW fs \in SUBSET File
  PROVE  VersionsOf(fs) \in SUBSET Version
  BY DEF VersionsOf, File

\* The numbers on disk stay without a gap when a file is added that follows one of them.
LEMMA ClosedGrows ==
  ASSUME NEW vs \in SUBSET Version, NEW ws \in SUBSET Version, Closed(vs), vs \subseteq ws,
         \A w \in ws \ vs : w = First \/ w - 1 \in vs
  PROVE  Closed(ws)
<1> SUFFICES ASSUME NEW v \in ws, NEW w \in First..v
             PROVE  w \in ws
  BY DEF Closed
<1>0. First \in Nat /\ v \in Nat /\ w \in Nat
  BY MigrationsAssumption DEF Version
<1>1. CASE v \in vs
  BY <1>1 DEF Closed
<1>2. CASE v \notin vs /\ v = First
  BY <1>0, <1>2
<1>3. CASE v \notin vs /\ v - 1 \in vs
  <2>1. w = v \/ w \in First..(v - 1)
    BY <1>0
  <2> QED
    BY <1>3, <2>1 DEF Closed
<1> QED
  BY <1>1, <1>2, <1>3

\* A step that leaves the disk alone keeps it numbered, if its process works on what was
\* loaded and is not about to write.
LEMMA NumberedElsewhere ==
  ASSUME Typed, NEW p \in Proc, Elsewhere(p), UNCHANGED disk,
         proc'[p].files = proc[p].files \/ proc'[p].files \in {{}, Loaded},
         proc'[p].at \in {"exec", "record", "unrecord"} => proc'[p].todo # <<>>,
         proc'[p].at \notin {"writeUp", "writeDown"}
  PROVE  Numbered'
<1>1. VersionsOf(disk)' = VersionsOf(disk) /\ Loaded' = Loaded
  BY DEF VersionsOf, Loaded
<1>2. Closed({}) /\ Closed(VersionsOf({}))
  BY DEF Closed, VersionsOf
<1>3. Closed(VersionsOf(Loaded))
  BY <1>2 DEF Typed, Numbered, Loaded
<1>4. \A q \in Proc : q = p \/ proc'[q] = proc[q]
  BY DEF Elsewhere
<1> QED
  BY <1>1, <1>2, <1>3, <1>4 DEF Typed, Numbered

LEMMA TypedCreate ==
  ASSUME Typed, NEW p \in Proc, Create(p)
  PROVE  /\ Typed' /\ Elsewhere(p) /\ UNCHANGED <<disk, down, recorded, schema, downs, torn>>
         /\ proc'[p].at = "writeUp" /\ proc'[p].files = {}
         /\ \A f \in proc'[p].new : \A g \in disk : g.version < f.version
<1> DEFINE next == CHOOSE n \in First..(Last + 1) : Follows(n, VersionsOf(disk))
<1>1. /\ next <= Last
      /\ \E name \in Name :
           proc' = [proc EXCEPT ![p] = [Idle EXCEPT !.at = "writeUp", !.new = {[version |-> next, name |-> name]}]]
      /\ UNCHANGED <<disk, down, recorded, schema, aborts, downs, torn>>
  BY DEF Create, Follows
<1>2. VersionsOf(disk) \in SUBSET Version /\ Closed(VersionsOf(disk))
  BY VersionsTyped DEF Typed, TypeOK, Numbered
<1>3. next \in First..(Last + 1) /\ Follows(next, VersionsOf(disk))
  BY <1>2, NextNumber
<1> HIDE DEF next
<1>4. next \in Version
  BY <1>1, <1>3, MigrationsAssumption DEF Version
<1>5. PICK name \in Name :
        proc' = [proc EXCEPT ![p] = [Idle EXCEPT !.at = "writeUp", !.new = {[version |-> next, name |-> name]}]]
  BY <1>1
<1> DEFINE f == [version |-> next, name |-> name]
           r == [Idle EXCEPT !.at = "writeUp", !.new = {f}]
<1>6. f \in File /\ f.version = next
  BY <1>4 DEF File
<1>7. Idle \in ProcRecord /\ Idle.files = {}
  BY IdleTyped DEF Idle
<1>8. r \in ProcRecord /\ r.at = "writeUp" /\ r.files = {} /\ r.new = {f}
  <2> HIDE DEF f
  <2> QED
    BY <1>6, <1>7 DEF ProcRecord, Places
<1>9. proc' = [proc EXCEPT ![p] = r]
  BY <1>5
<1> HIDE DEF r, f
<1>10. /\ proc' \in [Proc -> ProcRecord] /\ Elsewhere(p)
       /\ proc'[p].at = "writeUp" /\ proc'[p].files = {} /\ proc'[p].new = {f}
  BY <1>8, <1>9, Written DEF Typed, TypeOK
<1>11. TypeOK'
  BY <1>1, <1>10 DEF Typed, TypeOK
<1>12. Numbered'
  <2>1. VersionsOf(disk)' = VersionsOf(disk) /\ Loaded' = Loaded
    BY <1>1 DEF VersionsOf, Loaded
  <2>2. Closed(VersionsOf({}))
    BY DEF Closed, VersionsOf
  <2>3. f.version = First \/ f.version - 1 \in VersionsOf(disk)
    BY <1>3, <1>6 DEF Follows
  <2>4. \A q \in Proc : q = p \/ proc'[q] = proc[q]
    BY <1>10 DEF Elsewhere
  <2>5. Closed(VersionsOf(disk)')
    BY <1>2, <2>1
  <2>6. /\ proc'[p].files \subseteq Loaded' /\ Closed(VersionsOf(proc'[p].files))
        /\ proc'[p].at \notin {"exec", "record", "unrecord", "writeDown"}
        /\ \A g \in proc'[p].new : g.version = First \/ g.version - 1 \in VersionsOf(disk)
    BY <1>10, <2>2, <2>3
  <2> QED
    BY <1>1, <2>1, <2>4, <2>5, <2>6 DEF Typed, Numbered
<1>13. \A g \in disk : g.version < f.version
  BY <1>3, <1>6 DEF Follows, VersionsOf
<1> QED
  BY <1>1, <1>10, <1>11, <1>12, <1>13 DEF Typed

LEMMA TypedWriteUp ==
  ASSUME Typed, NEW p \in Proc, WriteUp(p)
  PROVE  /\ Typed' /\ Elsewhere(p) /\ UNCHANGED <<down, recorded, schema, downs, torn>> /\ disk \subseteq disk'
         /\ proc[p].at = "writeUp" /\ proc'[p].at = "writeDown"
         /\ proc'[p].new = proc[p].new /\ proc'[p].files = proc[p].files
<1>1. /\ proc[p].at = "writeUp" /\ disk' = disk \cup proc[p].new
      /\ Goes(p, "writeDown") /\ UNCHANGED <<down, recorded, schema, aborts, downs, torn>>
  BY DEF WriteUp
<1>2. /\ proc' \in [Proc -> ProcRecord] /\ Elsewhere(p)
      /\ proc'[p].at = "writeDown" /\ proc'[p].files = proc[p].files /\ proc'[p].new = proc[p].new
  BY <1>1, GoesTo DEF Typed, TypeOK, Places
<1>3. proc[p].new \subseteq File
  BY DEF Typed, TypeOK, ProcRecord
<1>4. TypeOK'
  BY <1>1, <1>2, <1>3 DEF Typed, TypeOK
<1>5. Closed(VersionsOf(disk'))
  <2> DEFINE vs == VersionsOf(disk)
             ws == VersionsOf(disk')
  <2>1. vs \in SUBSET Version /\ ws \in SUBSET Version /\ vs \subseteq ws
    BY <1>1, <1>3 DEF VersionsOf, File, Typed, TypeOK
  <2>2. \A w \in ws \ vs : w = First \/ w - 1 \in vs
    BY <1>1 DEF VersionsOf, Typed, Numbered
  <2>3. Closed(vs)
    BY DEF Typed, Numbered
  <2> HIDE DEF vs, ws
  <2>4. Closed(ws)
    BY <2>1, <2>2, <2>3, ClosedGrows
  <2> QED
    BY <2>4 DEF ws
<1>6. Numbered'
  <2>1. \A q \in Proc : q = p \/ proc'[q] = proc[q]
    BY <1>2 DEF Elsewhere
  <2>2. VersionsOf(disk) \subseteq VersionsOf(disk') /\ disk \subseteq disk' /\ Loaded \subseteq Loaded'
    BY <1>1 DEF VersionsOf, Loaded
  <2>3. Closed(VersionsOf(disk)')
    BY <1>5 DEF VersionsOf
  <2>4. VersionsOf(disk)' = VersionsOf(disk')
    BY DEF VersionsOf
  <2> QED
    BY <1>1, <1>2, <2>1, <2>2, <2>3, <2>4 DEF Typed, Numbered
<1> QED
  BY <1>1, <1>2, <1>4, <1>6 DEF Typed

LEMMA TypedWriteDown ==
  ASSUME Typed, NEW p \in Proc, WriteDown(p)
  PROVE  /\ Typed' /\ Elsewhere(p) /\ UNCHANGED <<disk, recorded, schema, downs, torn>>
         /\ proc[p].at = "writeDown" /\ down' = down \cup proc[p].new
         /\ proc'[p].at = "idle" /\ proc'[p].new = {} /\ proc'[p].files = {}
<1>1. /\ proc[p].at = "writeDown" /\ down' = down \cup proc[p].new
      /\ Ends(p) /\ UNCHANGED <<disk, recorded, schema, aborts, downs, torn>>
  BY DEF WriteDown
<1>2. /\ proc' \in [Proc -> ProcRecord] /\ Elsewhere(p)
      /\ proc'[p].at = "idle" /\ proc'[p].files = {} /\ proc'[p].new = {}
  BY <1>1, Ended DEF Typed, TypeOK
<1>3. proc[p].new \subseteq disk
  BY <1>1 DEF Typed, Numbered
<1>4. TypeOK'
  BY <1>1, <1>2, <1>3 DEF Typed, TypeOK
<1>5. Numbered'
  BY <1>1, <1>2, NumberedElsewhere
<1> QED
  BY <1>1, <1>2, <1>4, <1>5 DEF Typed

\* The other steps leave the disk as it is.
LEMMA TypedElsewhere ==
  ASSUME Typed, NEW p \in Proc, proc' \in [Proc -> ProcRecord], Elsewhere(p), UNCHANGED <<disk, down>>,
         proc'[p].files = proc[p].files \/ proc'[p].files \in {{}, Loaded},
         proc'[p].at \in {"exec", "record", "unrecord"} => proc'[p].todo # <<>>,
         proc'[p].at \notin {"writeUp", "writeDown"},
         recorded' \subseteq Version, schema' \in [File -> Nat],
         aborts' \in 0..MaxAborts, downs' \in 0..MaxDowns, torn' \subseteq Version
  PROVE  Typed'
<1>1. TypeOK'
  BY DEF Typed, TypeOK
<1> QED
  BY <1>1, NumberedElsewhere DEF Typed

LEMMA TypedStartUp ==
  ASSUME Typed, NEW p \in Proc, StartUp(p)
  PROVE  /\ Typed' /\ Elsewhere(p) /\ UNCHANGED <<disk, down, recorded, schema, downs, torn>>
         /\ DownAlone => Busy(Down) = {}
         /\ proc'[p].at = "check" /\ proc'[p].files = Loaded /\ proc'[p].new = {}
         /\ proc'[p].todo = Sorted(VersionsOf(Loaded))
<1>1. /\ DownAlone => Busy(Down) = {}
      /\ Begin(p, "check", Sorted(VersionsOf(Loaded)))
      /\ UNCHANGED <<disk, down, recorded, schema, aborts, downs, torn>>
  BY DEF StartUp
<1>2. VersionsOf(Loaded) \in SUBSET Version
  BY DEF VersionsOf, Loaded, Typed, TypeOK, File
<1>3. Sorted(VersionsOf(Loaded)) \in Seq(Version)
  BY <1>2, SortedEnumerates
<1>4. /\ proc' \in [Proc -> ProcRecord] /\ Elsewhere(p)
      /\ proc'[p].at = "check" /\ proc'[p].files = Loaded /\ proc'[p].new = {}
      /\ proc'[p].todo = Sorted(VersionsOf(Loaded))
  BY <1>1, <1>3, Begun DEF Typed, TypeOK, Places
<1>5. Typed'
  BY <1>1, <1>4, TypedElsewhere DEF Typed, TypeOK
<1> QED
  BY <1>1, <1>4, <1>5

LEMMA TypedCheckApplied ==
  ASSUME Typed, NEW p \in Proc, CheckApplied(p)
  PROVE  /\ Typed' /\ Elsewhere(p) /\ UNCHANGED <<disk, down, recorded, schema, downs, torn>>
         /\ proc[p].at = "check" /\ proc[p].todo # <<>>
         /\ proc'[p].files = proc[p].files /\ proc'[p].new = proc[p].new
         /\ \/ /\ proc'[p].at = "check" /\ proc'[p].todo = Tail(proc[p].todo)
               /\ Head(proc[p].todo) \in recorded
            \/ proc'[p].at = "exec" /\ proc'[p].todo = proc[p].todo
<1>1. /\ proc[p].at = "check" /\ proc[p].todo # <<>>
      /\ \/ Skips(p, "check") /\ Head(proc[p].todo) \in recorded
         \/ Goes(p, "exec")
      /\ UNCHANGED <<disk, down, recorded, schema, aborts, downs, torn>>
  BY DEF CheckApplied, Todo, Applied
<1>2. proc \in [Proc -> ProcRecord] /\ {"check", "exec"} \subseteq Places
  BY DEF Typed, TypeOK, Places
<1>3. /\ proc' \in [Proc -> ProcRecord] /\ Elsewhere(p)
      /\ proc'[p].files = proc[p].files /\ proc'[p].new = proc[p].new
      /\ \/ /\ proc'[p].at = "check" /\ proc'[p].todo = Tail(proc[p].todo)
            /\ Head(proc[p].todo) \in recorded
         \/ proc'[p].at = "exec" /\ proc'[p].todo = proc[p].todo
  BY <1>1, <1>2, SkipsTo, GoesTo
<1>4. Typed'
  BY <1>1, <1>3, TypedElsewhere DEF Typed, TypeOK
<1> QED
  BY <1>1, <1>3, <1>4

LEMMA TypedQueryFails ==
  ASSUME Typed, NEW p \in Proc, QueryFails(p)
  PROVE  /\ Typed' /\ Elsewhere(p) /\ UNCHANGED <<disk, down, recorded, schema, downs, torn>>
         /\ proc[p].at = "check" /\ proc[p].todo # <<>>
         /\ proc'[p].at = "exec" /\ proc'[p].todo = proc[p].todo
         /\ proc'[p].files = proc[p].files /\ proc'[p].new = proc[p].new
<1>1. /\ proc[p].at = "check" /\ proc[p].todo # <<>> /\ Goes(p, "exec")
      /\ aborts < MaxAborts /\ aborts' = aborts + 1
      /\ UNCHANGED <<disk, down, recorded, schema, downs, torn>>
  BY DEF QueryFails, Todo
<1>2. /\ proc' \in [Proc -> ProcRecord] /\ Elsewhere(p)
      /\ proc'[p].at = "exec" /\ proc'[p].todo = proc[p].todo
      /\ proc'[p].files = proc[p].files /\ proc'[p].new = proc[p].new
  BY <1>1, GoesTo DEF Typed, TypeOK, Places
<1>3. aborts' \in 0..MaxAborts
  <2>1. MaxAborts \in Nat /\ aborts \in 0..MaxAborts
    BY MigrationsAssumption DEF Typed, TypeOK
  <2> QED
    BY <1>1, <2>1
<1>4. Typed'
  BY <1>1, <1>2, <1>3, TypedElsewhere DEF Typed, TypeOK
<1> QED
  BY <1>1, <1>2, <1>4

LEMMA TypedExecUp ==
  ASSUME Typed, NEW p \in Proc, ExecUp(p)
  PROVE  /\ Typed' /\ Elsewhere(p) /\ UNCHANGED <<disk, down, recorded, downs, torn>>
         /\ proc[p].at = "exec" /\ proc[p].todo # <<>>
         /\ proc'[p].at = "record" /\ proc'[p].todo = proc[p].todo
         /\ proc'[p].files = proc[p].files /\ proc'[p].new = proc[p].new
         /\ \E f \in proc[p].files :
              /\ f \in File /\ f.version = Head(proc[p].todo)
              /\ Strict => schema[f] = 0
              /\ schema' = [schema EXCEPT ![f] = @ + 1]
<1>1. /\ proc[p].at = "exec" /\ Goes(p, "record")
      /\ UNCHANGED <<disk, down, recorded, aborts, downs, torn>>
  BY DEF ExecUp
<1>2. PICK f \in Files(p) : (Strict => schema[f] = 0) /\ schema' = [schema EXCEPT ![f] = @ + 1]
  BY DEF ExecUp
<1>3. f \in proc[p].files /\ f \in File /\ f.version = Head(proc[p].todo) /\ proc[p].todo # <<>>
  BY <1>1, <1>2 DEF Files, Typed, TypeOK, ProcRecord, Numbered
<1>4. /\ proc' \in [Proc -> ProcRecord] /\ Elsewhere(p)
      /\ proc'[p].at = "record" /\ proc'[p].todo = proc[p].todo
      /\ proc'[p].files = proc[p].files /\ proc'[p].new = proc[p].new
  BY <1>1, GoesTo DEF Typed, TypeOK, Places
<1>5. schema' \in [File -> Nat]
  BY <1>2, <1>3 DEF Typed, TypeOK
<1>6. Typed'
  BY <1>1, <1>3, <1>4, <1>5, TypedElsewhere DEF Typed, TypeOK
<1> QED
  BY <1>1, <1>2, <1>3, <1>4, <1>6

LEMMA TypedRecord ==
  ASSUME Typed, NEW p \in Proc, Record(p)
  PROVE  /\ Typed' /\ Elsewhere(p) /\ UNCHANGED <<disk, down, schema, downs, torn>>
         /\ proc[p].at = "record" /\ proc[p].todo # <<>> /\ Head(proc[p].todo) \notin recorded
         /\ recorded' = recorded \cup {Head(proc[p].todo)}
         /\ proc'[p].at = "check" /\ proc'[p].todo = Tail(proc[p].todo)
         /\ proc'[p].files = proc[p].files /\ proc'[p].new = proc[p].new
<1>1. /\ proc[p].at = "record" /\ Skips(p, "check")
      /\ Head(proc[p].todo) \notin recorded /\ recorded' = recorded \cup {Head(proc[p].todo)}
      /\ UNCHANGED <<disk, down, schema, aborts, downs, torn>>
  BY DEF Record
<1>2. proc[p].todo # <<>> /\ proc[p].todo \in Seq(Version)
  BY <1>1 DEF Typed, Numbered, TypeOK, ProcRecord
<1>3. Head(proc[p].todo) \in Version
  BY <1>2, Rests
<1>4. /\ proc' \in [Proc -> ProcRecord] /\ Elsewhere(p)
      /\ proc'[p].at = "check" /\ proc'[p].todo = Tail(proc[p].todo)
      /\ proc'[p].files = proc[p].files /\ proc'[p].new = proc[p].new
  BY <1>1, <1>2, SkipsTo DEF Typed, TypeOK, Places
<1>5. recorded' \subseteq Version
  BY <1>1, <1>3 DEF Typed, TypeOK
<1>6. Typed'
  BY <1>1, <1>4, <1>5, TypedElsewhere DEF Typed, TypeOK
<1> QED
  BY <1>1, <1>2, <1>4, <1>6

\* What ends a process: it is finished, refused or aborted.
LEMMA TypedEnds ==
  ASSUME Typed, NEW p \in Proc, Finished(p) \/ Refused(p) \/ Abort(p)
  PROVE  /\ Typed' /\ Elsewhere(p) /\ UNCHANGED <<disk, down, recorded, schema, downs>>
         /\ torn \subseteq torn'
         /\ proc[p].at \in {"record", "unrecord"} => Head(proc[p].todo) \in torn'
         /\ proc'[p].at = "idle" /\ proc'[p].files = {} /\ proc'[p].new = {}
<1>1. /\ Ends(p) /\ UNCHANGED <<disk, down, recorded, schema, downs>>
      /\ aborts' = aborts \/ (aborts < MaxAborts /\ aborts' = aborts + 1)
      /\ torn' = torn \cup Torn(p) \/ (torn' = torn /\ proc[p].at \in {"check", "down"})
  BY DEF Finished, Refused, Abort
<1>2. Torn(p) \subseteq Version /\ (proc[p].at \in {"record", "unrecord"} => Head(proc[p].todo) \in Torn(p))
  <2>1. CASE proc[p].at \in {"record", "unrecord"}
    <3>1. proc[p].todo # <<>> /\ proc[p].todo \in Seq(Version)
      BY <2>1 DEF Typed, Numbered, TypeOK, ProcRecord
    <3> QED
      BY <2>1, <3>1, Rests DEF Torn
  <2>2. CASE proc[p].at \notin {"record", "unrecord"}
    BY <2>2 DEF Torn
  <2> QED
    BY <2>1, <2>2
<1>3. /\ proc' \in [Proc -> ProcRecord] /\ Elsewhere(p)
      /\ proc'[p].at = "idle" /\ proc'[p].files = {} /\ proc'[p].new = {}
  BY <1>1, Ended DEF Typed, TypeOK
<1>4. aborts' \in 0..MaxAborts
  <2>1. MaxAborts \in Nat /\ aborts \in 0..MaxAborts
    BY MigrationsAssumption DEF Typed, TypeOK
  <2> QED
    BY <1>1, <2>1
<1>5. torn' \subseteq Version
  BY <1>1, <1>2 DEF Typed, TypeOK
<1>6. Typed'
  BY <1>1, <1>3, <1>4, <1>5, TypedElsewhere DEF Typed, TypeOK
<1> QED
  BY <1>1, <1>2, <1>3, <1>6

\* What a rollback takes from the end of a sorted ledger.
LEMMA NewestOf ==
  ASSUME NEW vs \in SUBSET Version, NEW step \in Nat, step <= Cardinality(vs)
  PROVE  LET s == Sorted(vs)
             t == SubSeq(NewestFirst(s), 1, step)
         IN /\ t \in Seq(Version) /\ Len(t) = step
            /\ \A i \in 1..step : t[i] = s[Cardinality(vs) + 1 - i] /\ Cardinality(vs) + 1 - i \in 1..Cardinality(vs)
<1> DEFINE n == Cardinality(vs)
           s == Sorted(vs)
           r == Reversed(s)
           t == SubSeq(r, 1, step)
<1>1. n \in Nat /\ s \in Seq(Version) /\ Len(s) = n
  BY VersionFinite, SortedEnumerates
<1> HIDE DEF s, n
<1>2. r = [i \in 1..n |-> s[n + 1 - i]]
  BY <1>1 DEF Reversed
<1>3. \A i \in 1..n : n + 1 - i \in 1..n /\ s[n + 1 - i] \in Version
  BY <1>1
<1> HIDE DEF r
<1>4. r \in Seq(Version) /\ Len(r) = n /\ \A i \in 1..n : r[i] = s[n + 1 - i]
  BY <1>1, <1>2, <1>3
<1>5. step <= n
  BY DEF n
<1>6. t = [i \in 1..step |-> r[i]]
  BY <1>1, <1>4, <1>5
<1> HIDE DEF t
<1>7. \A i \in 1..step : i \in 1..n
  BY <1>1, <1>5
<1>8. t \in Seq(Version) /\ Len(t) = step /\ \A i \in 1..step : t[i] = s[n + 1 - i] /\ n + 1 - i \in 1..n
  <2>1. \A i \in 1..step : r[i] \in Version /\ r[i] = s[n + 1 - i] /\ n + 1 - i \in 1..n
    BY <1>3, <1>4, <1>7
  <2>2. t \in [1..step -> Version]
    BY <1>6, <2>1
  <2>3. t \in Seq(Version) /\ Len(t) = step
    BY <2>2
  <2>4. \A i \in 1..step : t[i] = r[i]
    BY <1>6
  <2> QED
    BY <2>1, <2>3, <2>4
<1> QED
  BY <1>8 DEF t, r, s, n, NewestFirst

LEMMA TypedStartDown ==
  ASSUME Typed, NEW p \in Proc, NEW step \in 1..Cardinality(Version), StartDown(p, step)
  PROVE  /\ Typed' /\ Elsewhere(p) /\ UNCHANGED <<disk, down, recorded, schema, torn>>
         /\ proc[p].at = "idle"
         /\ DownAlone => \A q \in Proc : proc[q].at = "idle"
         /\ step \in Nat /\ step <= Cardinality(recorded)
         /\ proc'[p].at = "down" /\ proc'[p].files = Loaded /\ proc'[p].new = {}
         /\ proc'[p].todo = SubSeq(NewestFirst(Sorted(recorded)), 1, step)
<1>1. /\ proc[p].at = "idle" /\ downs < MaxDowns /\ step <= Cardinality(recorded)
      /\ DownAlone => \A q \in Proc : proc[q].at = "idle"
      /\ Begin(p, "down", SubSeq(NewestFirst(Sorted(recorded)), 1, step))
      /\ downs' = downs + 1 /\ UNCHANGED <<disk, down, recorded, schema, aborts, torn>>
  BY DEF StartDown
<1>2. step \in Nat /\ recorded \in SUBSET Version
  BY VersionFinite DEF Typed, TypeOK
<1>3. SubSeq(NewestFirst(Sorted(recorded)), 1, step) \in Seq(Version)
  BY <1>1, <1>2, NewestOf
<1>4. /\ proc' \in [Proc -> ProcRecord] /\ Elsewhere(p)
      /\ proc'[p].at = "down" /\ proc'[p].files = Loaded /\ proc'[p].new = {}
      /\ proc'[p].todo = SubSeq(NewestFirst(Sorted(recorded)), 1, step)
  BY <1>1, <1>3, Begun DEF Typed, TypeOK, Places
<1>5. downs' \in 0..MaxDowns
  <2>1. MaxDowns \in Nat /\ downs \in 0..MaxDowns
    BY MigrationsAssumption DEF Typed, TypeOK
  <2> QED
    BY <1>1, <2>1
<1>6. Typed'
  BY <1>1, <1>4, <1>5, TypedElsewhere DEF Typed, TypeOK
<1> QED
  BY <1>1, <1>2, <1>4, <1>6

LEMMA TypedSkipDown ==
  ASSUME Typed, NEW p \in Proc, SkipDown(p)
  PROVE  /\ Typed' /\ Elsewhere(p) /\ UNCHANGED <<disk, down, recorded, schema, downs, torn>>
         /\ proc[p].at = "down" /\ proc[p].todo # <<>>
         /\ Files(p) = {} \/ ~(Files(p) \subseteq down)
         /\ proc'[p].at = "down" /\ proc'[p].todo = Tail(proc[p].todo)
         /\ proc'[p].files = proc[p].files /\ proc'[p].new = proc[p].new
<1>1. /\ proc[p].at = "down" /\ proc[p].todo # <<>>
      /\ Files(p) = {} \/ ~(Files(p) \subseteq down)
      /\ Skips(p, "down")
      /\ UNCHANGED <<disk, down, recorded, schema, aborts, downs, torn>>
  BY DEF SkipDown, Todo
<1>2. /\ proc' \in [Proc -> ProcRecord] /\ Elsewhere(p)
      /\ proc'[p].at = "down" /\ proc'[p].todo = Tail(proc[p].todo)
      /\ proc'[p].files = proc[p].files /\ proc'[p].new = proc[p].new
  BY <1>1, SkipsTo DEF Typed, TypeOK, Places
<1>3. Typed'
  BY <1>1, <1>2, TypedElsewhere DEF Typed, TypeOK
<1> QED
  BY <1>1, <1>2, <1>3

LEMMA TypedExecDown ==
  ASSUME Typed, NEW p \in Proc, ExecDown(p)
  PROVE  /\ Typed' /\ Elsewhere(p) /\ UNCHANGED <<disk, down, recorded, downs, torn>>
         /\ proc[p].at = "down" /\ proc[p].todo # <<>>
         /\ proc'[p].at = "unrecord" /\ proc'[p].todo = proc[p].todo
         /\ proc'[p].files = proc[p].files /\ proc'[p].new = proc[p].new
         /\ \E f \in File :
              /\ f.version = Head(proc[p].todo)
              /\ Strict => schema[f] > 0
              /\ schema' = [schema EXCEPT ![f] = IF @ = 0 THEN 0 ELSE @ - 1]
<1>1. /\ proc[p].at = "down" /\ proc[p].todo # <<>> /\ Goes(p, "unrecord")
      /\ UNCHANGED <<disk, down, recorded, aborts, downs, torn>>
  BY DEF ExecDown, Todo
<1>2. PICK f \in Files(p) \cap down :
        (Strict => schema[f] > 0) /\ schema' = [schema EXCEPT ![f] = IF @ = 0 THEN 0 ELSE @ - 1]
  BY DEF ExecDown
<1>3. f \in File /\ f.version = Head(proc[p].todo)
  BY <1>2 DEF Files, Typed, TypeOK, ProcRecord
<1>4. /\ proc' \in [Proc -> ProcRecord] /\ Elsewhere(p)
      /\ proc'[p].at = "unrecord" /\ proc'[p].todo = proc[p].todo
      /\ proc'[p].files = proc[p].files /\ proc'[p].new = proc[p].new
  BY <1>1, GoesTo DEF Typed, TypeOK, Places
<1>5. schema' \in [File -> Nat]
  <2>1. schema[f] \in Nat
    BY <1>3 DEF Typed, TypeOK
  <2>2. (IF schema[f] = 0 THEN 0 ELSE schema[f] - 1) \in Nat
    BY <2>1
  <2> QED
    BY <1>2, <1>3, <2>2 DEF Typed, TypeOK
<1>6. Typed'
  BY <1>1, <1>4, <1>5, TypedElsewhere DEF Typed, TypeOK
<1> QED
  BY <1>1, <1>2, <1>3, <1>4, <1>6

LEMMA TypedUnrecord ==
  ASSUME Typed, NEW p \in Proc, Unrecord(p)
  PROVE  /\ Typed' /\ Elsewhere(p) /\ UNCHANGED <<disk, down, schema, downs, torn>>
         /\ proc[p].at = "unrecord" /\ proc[p].todo # <<>>
         /\ recorded' = recorded \ {Head(proc[p].todo)}
         /\ proc'[p].at = "down" /\ proc'[p].todo = Tail(proc[p].todo)
         /\ proc'[p].files = proc[p].files /\ proc'[p].new = proc[p].new
<1>1. /\ proc[p].at = "unrecord" /\ Skips(p, "down")
      /\ recorded' = recorded \ {Head(proc[p].todo)}
      /\ UNCHANGED <<disk, down, schema, aborts, downs, torn>>
  BY DEF Unrecord
<1>2. proc[p].todo # <<>>
  BY <1>1 DEF Typed, Numbered
<1>3. /\ proc' \in [Proc -> ProcRecord] /\ Elsewhere(p)
      /\ proc'[p].at = "down" /\ proc'[p].todo = Tail(proc[p].todo)
      /\ proc'[p].files = proc[p].files /\ proc'[p].new = proc[p].new
  BY <1>1, <1>2, SkipsTo DEF Typed, TypeOK, Places
<1>4. Typed'
  BY <1>1, <1>3, TypedElsewhere DEF Typed, TypeOK
<1> QED
  BY <1>1, <1>2, <1>3, <1>4

\* The steps of the specification, as the proofs below split them.
LEMMA Steps ==
  ASSUME [Next]_vars
  PROVE  \/ UNCHANGED vars
         \/ \E p \in Proc :
              \/ Create(p) \/ WriteUp(p) \/ WriteDown(p)
              \/ StartUp(p) \/ CheckApplied(p) \/ ExecUp(p) \/ Record(p)
              \/ \E step \in 1..Cardinality(Version) : StartDown(p, step)
              \/ SkipDown(p) \/ ExecDown(p) \/ Unrecord(p)
              \/ QueryFails(p) \/ Finished(p) \/ Refused(p) \/ Abort(p)
  BY DEF Next, CreateStep, UpStep, DownStep

LEMMA TypedNext == Typed /\ [Next]_vars => Typed'
<1> SUFFICES ASSUME Typed, [Next]_vars
             PROVE  Typed'
  OBVIOUS
<1>1. CASE UNCHANGED vars
  BY <1>1 DEF vars, Typed, TypeOK, Numbered, VersionsOf, Loaded, Closed
<1>2. CASE ~UNCHANGED vars
  BY <1>2, Steps, TypedCreate, TypedWriteUp, TypedWriteDown, TypedStartUp, TypedCheckApplied, TypedQueryFails, TypedExecUp,
     TypedRecord, TypedStartDown, TypedSkipDown, TypedExecDown, TypedUnrecord, TypedEnds
<1> QED
  BY <1>1, <1>2

(***************************************************************************)
(* Every variable keeps its type, and Create finds a number whatever is on  *)
(* disk: the numbers that it gives out, and writes, have no gap.            *)
(***************************************************************************)
THEOREM TypeCorrect == Spec => []TypeOK
<1>1. Typed => TypeOK
  BY DEF Typed
<1> QED
  BY <1>1, TypedInit, TypedNext, PTL DEF Spec

-----------------------------------------------------------------------------

(***************************************************************************)
(* While a process rolls back, under DownAlone, the others at most create   *)
(* files; and what it is about to undo is recorded, each version once.      *)
(***************************************************************************)
Alone ==
  \A p \in Busy(Down) : \A q \in Proc \ {p} : proc[q].at \in {"idle", "writeUp", "writeDown"}

Undoing ==
  \A p \in Busy(Down) : \A i \in 1..Len(proc[p].todo) :
    /\ proc[p].todo[i] \in recorded
    /\ \A j \in 1..Len(proc[p].todo) : i # j => proc[p].todo[i] # proc[p].todo[j]

Apart == Alone /\ Undoing

\* A step of a process that does not roll back, and whose place goes with a rollback.
LEMMA ApartElsewhere ==
  ASSUME Typed, Apart, NEW p \in Proc, Elsewhere(p), proc'[p].at \notin Down,
         proc'[p].at \notin {"idle", "writeUp", "writeDown"} => Busy(Down) \subseteq {p},
         recorded \subseteq recorded'
  PROVE  Apart'
<1>1. \A q \in Proc : q = p \/ proc'[q] = proc[q]
  BY DEF Elsewhere
<1>2. \A q \in Busy(Down)' : q \in Busy(Down) /\ q # p /\ proc'[q] = proc[q]
  BY <1>1 DEF Busy
<1>3. Alone'
  BY <1>1, <1>2 DEF Apart, Alone, Busy
<1>4. Undoing'
  BY <1>2 DEF Apart, Undoing
<1> QED
  BY <1>3, <1>4 DEF Apart

\* A step of a rollback that leaves of its versions the ones still recorded.
LEMMA ApartDown ==
  ASSUME Typed, Apart, NEW p \in Proc, Elsewhere(p), proc[p].at \in Down, proc'[p].at \in Down,
         proc[p].todo # <<>>,
         \/ proc'[p].todo = proc[p].todo /\ recorded' = recorded
         \/ proc'[p].todo = Tail(proc[p].todo) /\ recorded \ {Head(proc[p].todo)} \subseteq recorded'
  PROVE  Apart'
<1>1. \A q \in Proc : q = p \/ proc'[q] = proc[q]
  BY DEF Elsewhere
<1>2. Busy(Down) = {p} /\ Busy(Down)' = {p}
  BY <1>1 DEF Apart, Alone, Busy, Down
<1>3. Alone'
  BY <1>1, <1>2 DEF Apart, Alone
<1> DEFINE t == proc[p].todo
           u == proc'[p].todo
<1>4. t \in Seq(Version)
  BY DEF Typed, TypeOK, ProcRecord
<1>5. \A i \in 1..Len(t) : t[i] \in recorded /\ \A j \in 1..Len(t) : i # j => t[i] # t[j]
  BY <1>2 DEF Apart, Undoing
<1>6. \A i \in 1..Len(u) : u[i] \in recorded' /\ \A j \in 1..Len(u) : i # j => u[i] # u[j]
  <2>1. CASE u = t /\ recorded' = recorded
    BY <1>5, <2>1
  <2>2. CASE u = Tail(t) /\ recorded \ {Head(t)} \subseteq recorded'
    <3>1. /\ Head(t) = t[1] /\ 1 \in 1..Len(t)
          /\ \A i \in 1..Len(u) : u[i] = t[i + 1] /\ i + 1 \in 1..Len(t)
      BY <1>4, <2>2, Rests
    <3>2. \A i \in 1..Len(u) : i + 1 # 1 /\ \A j \in 1..Len(u) : i # j => i + 1 # j + 1
      OBVIOUS
    <3> HIDE DEF t, u
    <3> QED
      BY <1>5, <2>2, <3>1, <3>2
  <2> QED
    BY <2>1, <2>2
<1>7. Undoing'
  BY <1>2, <1>6 DEF Undoing
<1> QED
  BY <1>3, <1>7 DEF Apart

LEMMA ApartStartDown ==
  ASSUME DownAlone, Typed, Apart, NEW p \in Proc, NEW step \in 1..Cardinality(Version), StartDown(p, step)
  PROVE  Apart'
<1> DEFINE s == Sorted(recorded)
           n == Cardinality(recorded)
           t == proc'[p].todo
<1>1. /\ Elsewhere(p) /\ recorded' = recorded /\ step \in Nat /\ step <= n
      /\ \A q \in Proc : proc[q].at = "idle"
      /\ proc'[p].at = "down" /\ t = SubSeq(NewestFirst(s), 1, step)
  BY TypedStartDown
<1>2. \A q \in Proc : q = p \/ proc'[q] = proc[q]
  BY <1>1 DEF Elsewhere
<1>3. Busy(Down)' = {p}
  BY <1>1, <1>2 DEF Busy, Down
<1>4. Alone'
  BY <1>1, <1>2, <1>3 DEF Alone
<1>5. recorded \in SUBSET Version
  BY DEF Typed, TypeOK
<1>6. /\ Len(t) = step
      /\ \A i \in 1..step : t[i] = s[n + 1 - i] /\ n + 1 - i \in 1..n
  BY <1>1, <1>5, NewestOf
<1>7. /\ \A i \in 1..n : s[i] \in recorded
      /\ \A i, j \in 1..n : i # j => s[i] # s[j]
  BY <1>5, SortedEnumerates
<1>8. \A i, j \in 1..step : i # j => n + 1 - i # n + 1 - j
  BY <1>5, VersionFinite
<1>9. \A i \in 1..Len(t) : t[i] \in recorded /\ \A j \in 1..Len(t) : i # j => t[i] # t[j]
  <2> HIDE DEF t, s, n
  <2> QED
    BY <1>6, <1>7, <1>8
<1>10. Undoing'
  BY <1>1, <1>3, <1>9 DEF Undoing
<1> QED
  BY <1>4, <1>10 DEF Apart

\* A process that migrates is not one that rolls back, nor is any other.
LEMMA NobodyDown ==
  ASSUME Apart, NEW p \in Proc, proc[p].at \in {"check", "exec", "record"}
  PROVE  Busy(Down) = {}
  BY DEF Apart, Alone, Busy, Down

LEMMA ApartNext ==
  ASSUME DownAlone
  PROVE  Typed /\ Apart /\ [Next]_vars => Apart'
<1> SUFFICES ASSUME Typed, Apart, [Next]_vars
             PROVE  Apart'
  OBVIOUS
<1>1. CASE UNCHANGED vars
  BY <1>1 DEF vars, Apart, Alone, Undoing, Busy
<1>2. ASSUME NEW p \in Proc, Create(p) \/ WriteUp(p) \/ WriteDown(p) \/ Finished(p) \/ Refused(p) \/ Abort(p)
      PROVE  Apart'
  <2>1. /\ Elsewhere(p) /\ recorded' = recorded
        /\ proc'[p].at \in {"idle", "writeUp", "writeDown"}
    BY <1>2, TypedCreate, TypedWriteUp, TypedWriteDown, TypedEnds
  <2> QED
    BY <2>1, ApartElsewhere DEF Down
<1>3. ASSUME NEW p \in Proc, StartUp(p)
      PROVE  Apart'
  <2>1. Elsewhere(p) /\ recorded' = recorded /\ proc'[p].at = "check" /\ Busy(Down) = {}
    BY <1>3, TypedStartUp
  <2> QED
    BY <2>1, ApartElsewhere DEF Down
<1>4. ASSUME NEW p \in Proc, CheckApplied(p) \/ QueryFails(p) \/ ExecUp(p) \/ Record(p)
      PROVE  Apart'
  <2>1. /\ Elsewhere(p) /\ recorded \subseteq recorded'
        /\ proc[p].at \in {"check", "exec", "record"} /\ proc'[p].at \notin Down
    BY <1>4, TypedCheckApplied, TypedQueryFails, TypedExecUp, TypedRecord DEF Down
  <2>2. Busy(Down) = {}
    BY <2>1, NobodyDown
  <2> QED
    BY <2>1, <2>2, ApartElsewhere
<1>5. ASSUME NEW p \in Proc, SkipDown(p) \/ ExecDown(p) \/ Unrecord(p)
      PROVE  Apart'
  <2>1. /\ Elsewhere(p) /\ proc[p].at \in Down /\ proc'[p].at \in Down /\ proc[p].todo # <<>>
        /\ \/ proc'[p].todo = proc[p].todo /\ recorded' = recorded
           \/ proc'[p].todo = Tail(proc[p].todo) /\ recorded \ {Head(proc[p].todo)} \subseteq recorded'
    BY <1>5, TypedSkipDown, TypedExecDown, TypedUnrecord DEF Down
  <2> QED
    BY <2>1, ApartDown
<1> QED
  BY <1>1, <1>2, <1>3, <1>4, <1>5, ApartStartDown, Steps

-----------------------------------------------------------------------------

(***************************************************************************)
(* The ledger, for versions where no process has ended between the two      *)
(* transactions.  Which processes are amid a version says what the schema   *)
(* holds of it; of two that both apply it one is refused its record, and    *)
(* the version is torn.                                                     *)
(***************************************************************************)
Amid(place, v) == {p \in Proc : proc[p].at = place /\ Head(proc[p].todo) = v}

NoneApplied(v) == \A f \in File : f.version = v => schema[f] = 0
OneApplied(v) ==
  \E f \in File : /\ f.version = v /\ schema[f] = 1
                  /\ \A g \in File : g.version = v /\ g # f => schema[g] = 0

Entry(v) ==
  /\ Amid("unrecord", v) # {} => v \in recorded /\ NoneApplied(v)
  /\ v \in recorded /\ Amid("record", v) = {} /\ Amid("unrecord", v) = {} => OneApplied(v)
  /\ v \notin recorded /\ Amid("record", v) = {} => NoneApplied(v)
  /\ v \notin recorded => \A p \in Proc : Amid("record", v) = {p} => OneApplied(v)

Ledger == schema \in [File -> {0, 1}] /\ \A v \in Version \ torn : Entry(v)

\* A version that a step does not touch.
LEMMA EntryKept ==
  ASSUME NEW v, Entry(v), v \in recorded <=> v \in recorded',
         \A f \in File : f.version = v => schema'[f] = schema[f],
         Amid("record", v)' = Amid("record", v), Amid("unrecord", v)' = Amid("unrecord", v)
  PROVE  Entry(v)'
<1>1. NoneApplied(v) => NoneApplied(v)'
  BY DEF NoneApplied
<1>2. OneApplied(v) => OneApplied(v)'
  BY DEF OneApplied
<1> QED
  BY <1>1, <1>2 DEF Entry

\* Who is amid a version after a step of p.
LEMMA AmidElsewhere ==
  ASSUME NEW p \in Proc, Elsewhere(p), NEW place, NEW v
  PROVE  /\ Amid(place, v)' \ {p} = Amid(place, v) \ {p}
         /\ p \in Amid(place, v)' <=> proc'[p].at = place /\ Head(proc'[p].todo) = v
         /\ p \in Amid(place, v) <=> proc[p].at = place /\ Head(proc[p].todo) = v
  BY DEF Amid, Elsewhere

LEMMA AmidSame ==
  ASSUME NEW p \in Proc, Elsewhere(p), NEW place, NEW v,
         proc'[p].at = place /\ Head(proc'[p].todo) = v <=> proc[p].at = place /\ Head(proc[p].todo) = v
  PROVE  Amid(place, v)' = Amid(place, v)
  BY AmidElsewhere

\* A step that leaves the ledger and the schema alone, and what is amid unless torn.
LEMMA LedgerElsewhere ==
  ASSUME Ledger, NEW p \in Proc, Elsewhere(p), UNCHANGED <<recorded, schema>>, torn \subseteq torn',
         proc'[p].at \notin {"record", "unrecord"},
         proc[p].at \in {"record", "unrecord"} => Head(proc[p].todo) \in torn'
  PROVE  Ledger'
<1> SUFFICES ASSUME NEW v \in Version \ torn'
             PROVE  Entry(v)'
  BY DEF Ledger
<1>1. Entry(v)
  BY DEF Ledger
<1>2. Amid("record", v)' = Amid("record", v) /\ Amid("unrecord", v)' = Amid("unrecord", v)
  BY AmidSame
<1> QED
  BY <1>1, <1>2, EntryKept

LEMMA LedgerExecUp ==
  ASSUME Strict, Typed, Apart, Ledger, NEW p \in Proc, ExecUp(p)
  PROVE  Ledger'
<1> DEFINE h == Head(proc[p].todo)
<1>1. /\ Elsewhere(p) /\ UNCHANGED <<recorded, torn>>
      /\ proc[p].at = "exec" /\ proc'[p].at = "record" /\ proc'[p].todo = proc[p].todo
  BY TypedExecUp
<1>2. PICK f \in File : f.version = h /\ schema[f] = 0 /\ schema' = [schema EXCEPT ![f] = @ + 1]
  BY TypedExecUp
<1> HIDE DEF h
<1>3. schema' \in [File -> {0, 1}] /\ schema'[f] = 1 /\ \A g \in File \ {f} : schema'[g] = schema[g]
  BY <1>2 DEF Ledger
<1>4. ASSUME NEW v \in Version \ torn'
      PROVE  Entry(v)'
  <2>0. Entry(v)
    BY <1>1 DEF Ledger
  <2>1. CASE v # h
    <3>1. Amid("record", v)' = Amid("record", v) /\ Amid("unrecord", v)' = Amid("unrecord", v)
      BY <1>1, <2>1, AmidSame DEF h
    <3> QED
      BY <1>1, <1>2, <1>3, <2>0, <2>1, <3>1, EntryKept
  <2>2. CASE v = h
    <3>1. Amid("unrecord", v)' = {}
      <4>1. Amid("unrecord", v) = {}
        BY <1>1, NobodyDown DEF Amid, Busy, Down
      <4>2. Amid("unrecord", v)' = Amid("unrecord", v)
        BY <1>1, AmidSame
      <4> QED
        BY <4>1, <4>2
    <3>2. /\ p \in Amid("record", v)'
          /\ Amid("record", v)' \ {p} = Amid("record", v)
      BY <1>1, <2>2, AmidElsewhere DEF h
    <3>3. ASSUME v \notin recorded, Amid("record", v) = {}
          PROVE  OneApplied(v)'
      <4>1. NoneApplied(v)
        BY <2>0, <3>3 DEF Entry
      <4> QED
        BY <1>2, <1>3, <2>2, <4>1 DEF NoneApplied, OneApplied
    <3>4. ASSUME NEW q \in Proc, Amid("record", v)' = {q}
          PROVE  Amid("record", v) = {}
      BY <3>2, <3>4
    <3> QED
      BY <1>1, <3>1, <3>2, <3>3, <3>4 DEF Entry
  <2> QED
    BY <2>1, <2>2
<1> QED
  BY <1>3, <1>4 DEF Ledger

LEMMA LedgerRecord ==
  ASSUME Typed, Apart, Ledger, NEW p \in Proc, Record(p)
  PROVE  Ledger'
<1> DEFINE h == Head(proc[p].todo)
<1>1. /\ Elsewhere(p) /\ UNCHANGED <<schema, torn>>
      /\ proc[p].at = "record" /\ proc'[p].at = "check"
      /\ h \notin recorded /\ recorded' = recorded \cup {h}
  BY TypedRecord
<1>2. ASSUME NEW v \in Version \ torn'
      PROVE  Entry(v)'
  <2>0. Entry(v)
    BY <1>1 DEF Ledger
  <2>1. CASE v # h
    <3>1. Amid("record", v)' = Amid("record", v) /\ Amid("unrecord", v)' = Amid("unrecord", v)
      BY <1>1, <2>1, AmidSame
    <3> QED
      BY <1>1, <2>0, <2>1, <3>1, EntryKept
  <2>2. CASE v = h
    <3>1. Amid("unrecord", v)' = {}
      <4>1. Amid("unrecord", v) = {}
        BY <1>1, NobodyDown DEF Amid, Busy, Down
      <4>2. Amid("unrecord", v)' = Amid("unrecord", v)
        BY <1>1, AmidSame
      <4> QED
        BY <4>1, <4>2
    <3>2. /\ p \in Amid("record", v)
          /\ Amid("record", v)' = Amid("record", v) \ {p}
      BY <1>1, <2>2, AmidElsewhere
    <3>3. ASSUME Amid("record", v)' = {}
          PROVE  OneApplied(v)'
      <4>1. Amid("record", v) = {p}
        BY <3>2, <3>3
      <4>2. OneApplied(v)
        BY <1>1, <2>0, <2>2, <4>1 DEF Entry
      <4> QED
        BY <1>1, <4>2 DEF OneApplied
    <3> QED
      BY <1>1, <2>2, <3>1, <3>3 DEF Entry
  <2> QED
    BY <2>1, <2>2
<1> QED
  BY <1>1, <1>2 DEF Ledger

\* While p rolls back nobody is between an Up and its record, nor between a Down and its.
LEMMA OnlyDown ==
  ASSUME Typed, Apart, NEW p \in Proc, proc[p].at \in Down, NEW v
  PROVE  Amid("record", v) = {} /\ Amid("unrecord", v) \subseteq {p}
  BY DEF Apart, Alone, Busy, Amid, Down

LEMMA LedgerExecDown ==
  ASSUME Strict, Typed, Apart, Ledger, NEW p \in Proc, ExecDown(p)
  PROVE  Ledger'
<1> DEFINE h == Head(proc[p].todo)
<1>1. /\ Elsewhere(p) /\ UNCHANGED <<recorded, torn>>
      /\ proc[p].at = "down" /\ proc'[p].at = "unrecord"
      /\ proc'[p].todo = proc[p].todo /\ proc[p].todo # <<>>
  BY TypedExecDown
<1>2. PICK f \in File :
        f.version = h /\ schema[f] > 0 /\ schema' = [schema EXCEPT ![f] = IF @ = 0 THEN 0 ELSE @ - 1]
  BY TypedExecDown
<1>3. h \in recorded
  <2>1. proc[p].todo \in Seq(Version)
    BY DEF Typed, TypeOK, ProcRecord
  <2>2. h = proc[p].todo[1] /\ 1 \in 1..Len(proc[p].todo)
    BY <1>1, <2>1, Rests
  <2> QED
    BY <1>1, <2>2 DEF Apart, Undoing, Busy, Down
<1> HIDE DEF h
<1>4. schema[f] = 1
  BY <1>2 DEF Ledger
<1>5. schema' \in [File -> {0, 1}] /\ schema'[f] = 0 /\ \A g \in File \ {f} : schema'[g] = schema[g]
  BY <1>2, <1>4 DEF Ledger
<1>6. ASSUME NEW v \in Version \ torn'
      PROVE  Entry(v)'
  <2>0. Entry(v)
    BY <1>1 DEF Ledger
  <2>1. CASE v # h
    <3>1. Amid("record", v)' = Amid("record", v) /\ Amid("unrecord", v)' = Amid("unrecord", v)
      BY <1>1, <2>1, AmidSame DEF h
    <3> QED
      BY <1>1, <1>2, <1>5, <2>0, <2>1, <3>1, EntryKept
  <2>2. CASE v = h
    <3>1. Amid("record", v) = {} /\ Amid("unrecord", v) = {}
      BY <1>1, OnlyDown DEF Down, Amid
    <3>2. OneApplied(v)
      BY <1>3, <2>0, <2>2, <3>1 DEF Entry
    <3>3. NoneApplied(v)'
      BY <1>2, <1>4, <1>5, <2>2, <3>2 DEF OneApplied, NoneApplied
    <3>4. p \in Amid("unrecord", v)'
      BY <1>1, <2>2, AmidElsewhere DEF h
    <3> QED
      BY <1>1, <1>3, <2>2, <3>3, <3>4 DEF Entry
  <2> QED
    BY <2>1, <2>2
<1> QED
  BY <1>5, <1>6 DEF Ledger

LEMMA LedgerUnrecord ==
  ASSUME Typed, Apart, Ledger, NEW p \in Proc, Unrecord(p)
  PROVE  Ledger'
<1> DEFINE h == Head(proc[p].todo)
<1>1. /\ Elsewhere(p) /\ UNCHANGED <<schema, torn>>
      /\ proc[p].at = "unrecord" /\ proc'[p].at = "down"
      /\ recorded' = recorded \ {h}
  BY TypedUnrecord
<1>2. ASSUME NEW v \in Version \ torn'
      PROVE  Entry(v)'
  <2>0. Entry(v)
    BY <1>1 DEF Ledger
  <2>1. CASE v # h
    <3>1. Amid("record", v)' = Amid("record", v) /\ Amid("unrecord", v)' = Amid("unrecord", v)
      BY <1>1, <2>1, AmidSame
    <3> QED
      BY <1>1, <2>0, <2>1, <3>1, EntryKept
  <2>2. CASE v = h
    <3>1. p \in Amid("unrecord", v) /\ Amid("unrecord", v) \subseteq {p} /\ Amid("record", v) = {}
      BY <1>1, <2>2, OnlyDown, AmidElsewhere DEF Down
    <3>2. Amid("record", v)' = {} /\ Amid("unrecord", v)' = {}
      BY <1>1, <3>1, AmidElsewhere
    <3>3. NoneApplied(v)
      BY <2>0, <3>1 DEF Entry
    <3>4. NoneApplied(v)'
      BY <1>1, <3>3 DEF NoneApplied
    <3> QED
      BY <1>1, <2>2, <3>2, <3>4 DEF Entry
  <2> QED
    BY <2>1, <2>2
<1> QED
  BY <1>1, <1>2 DEF Ledger

LEMMA LedgerNext ==
  ASSUME Strict
  PROVE  Typed /\ Apart /\ Ledger /\ [Next]_vars => Ledger'
<1> SUFFICES ASSUME Typed, Apart, Ledger, [Next]_vars
             PROVE  Ledger'
  OBVIOUS
<1>1. CASE UNCHANGED vars
  <2>1. \A v : Amid("record", v)' = Amid("record", v) /\ Amid("unrecord", v)' = Amid("unrecord", v)
    BY <1>1 DEF vars, Amid
  <2> QED
    BY <1>1, <2>1, EntryKept DEF vars, Ledger
<1>2. ASSUME NEW p \in Proc, \/ Create(p) \/ WriteUp(p) \/ WriteDown(p) \/ StartUp(p) \/ CheckApplied(p) \/ QueryFails(p)
                             \/ SkipDown(p) \/ \E step \in 1..Cardinality(Version) : StartDown(p, step)
      PROVE  Ledger'
  <2>1. /\ Elsewhere(p) /\ UNCHANGED <<recorded, schema, torn>>
        /\ proc'[p].at \notin {"record", "unrecord"}
    BY <1>2, TypedCreate, TypedWriteUp, TypedWriteDown, TypedStartUp, TypedCheckApplied, TypedQueryFails, TypedSkipDown,
       TypedStartDown
  <2>2. proc[p].at \notin {"record", "unrecord"}
    BY <1>2 DEF Create, WriteUp, WriteDown, StartUp, CheckApplied, QueryFails, SkipDown, StartDown, Todo
  <2> QED
    BY <2>1, <2>2, LedgerElsewhere
<1>3. ASSUME NEW p \in Proc, Finished(p) \/ Refused(p) \/ Abort(p)
      PROVE  Ledger'
  <2>1. /\ Elsewhere(p) /\ UNCHANGED <<recorded, schema>> /\ torn \subseteq torn'
        /\ proc[p].at \in {"record", "unrecord"} => Head(proc[p].todo) \in torn'
        /\ proc'[p].at = "idle"
    BY <1>3, TypedEnds
  <2> QED
    BY <2>1, LedgerElsewhere
<1> QED
  BY <1>1, <1>2, <1>3, LedgerExecUp, LedgerRecord, LedgerExecDown, LedgerUnrecord, Steps

LEMMA LedgerInit == Init => Apart /\ Ledger
<1> SUFFICES ASSUME Init
             PROVE  Apart /\ Ledger
  OBVIOUS
<1>1. Apart
  BY DEF Init, Apart, Alone, Undoing, Busy, Down, Idle
<1>2. Ledger
  BY DEF Init, Ledger, Entry, Amid, NoneApplied, Idle
<1> QED
  BY <1>1, <1>2

(***************************************************************************)
(* schema_migrations tells the schema, for any number of processes, files   *)
(* and versions, wherever they are interrupted (UpWith, DownWith): with     *)
(* migrations that fail when repeated, rollbacks while nobody migrates, and *)
(* but for the versions where a process ended between two transactions.     *)
(***************************************************************************)
THEOREM LedgerAlwaysExact ==
  ASSUME Strict, DownAlone
  PROVE  Spec => []LedgerExact
<1> DEFINE IInv == Typed /\ Apart /\ Ledger
<1>1. Init => IInv
  BY TypedInit, LedgerInit
<1>2. IInv /\ [Next]_vars => IInv'
  BY TypedNext, ApartNext, LedgerNext
<1>3. IInv => LedgerExact
  <2> SUFFICES ASSUME IInv, NEW v \in Version \ torn, ~Between(v)
               PROVE  v \in recorded <=> \E f \in File : f.version = v /\ schema[f] = 1
    BY DEF LedgerExact
  <2>1. Amid("record", v) = {} /\ Amid("unrecord", v) = {}
    BY DEF Between, Amid
  <2>2. Entry(v)
    BY DEF Ledger
  <2> QED
    BY <2>1, <2>2 DEF Entry, NoneApplied, OneApplied
<1> QED
  BY <1>1, <1>2, <1>3, PTL DEF Spec

-----------------------------------------------------------------------------

(***************************************************************************)
(* The order of migrations, with numbers of three digits.  A process that   *)
(* migrates has the versions vs before it, of which the sequence t is left: *)
(* whatever is lower than one of t is recorded, or comes before it in t.    *)
(***************************************************************************)
Climbs(vs, t, done) ==
  \A i \in 1..Len(t) :
    /\ t[i] \in vs
    /\ \A w \in vs : w < t[i] => w \in done \/ \E j \in 1..(i - 1) : t[j] = w

\* One that rolls back has t left of what was recorded: all else that still is, is lower,
\* or of a file among fs without a Down.
Descends(fs, t, done, undoable) ==
  /\ done \subseteq VersionsOf(fs)
  /\ \A i, j \in 1..Len(t) : i < j => t[j] < t[i]
  /\ \A v \in done :
       \/ \E i \in 1..Len(t) : t[i] = v
       \/ \A i \in 1..Len(t) : v < t[i]
       \/ \E g \in fs \ undoable : g.version = v

\* Three digits are compared as the numbers are.
LEMMA LessIsLower ==
  ASSUME Last <= 999, NEW v \in Version, NEW w \in Version
  PROVE  v \in Nat /\ w \in Nat /\ (Less(v, w) <=> v < w)
<1>1. v \in Nat /\ w \in Nat /\ v < 1000 /\ w < 1000
  BY MigrationsAssumption DEF Version
<1> QED
  BY <1>1 DEF Less

LEMMA ClimbsFrom ==
  ASSUME Last <= 999, NEW vs \in SUBSET Version, NEW done
  PROVE  Climbs(vs, Sorted(vs), done)
<1> DEFINE s == Sorted(vs)
<1>1. /\ s \in Seq(Version)
      /\ \A i \in 1..Len(s) : s[i] \in vs
      /\ \A i, j \in 1..Len(s) : i < j => Less(s[i], s[j])
      /\ \A v \in vs : \E i \in 1..Len(s) : s[i] = v
  BY SortedEnumerates
<1> HIDE DEF s
<1>2. ASSUME NEW i \in 1..Len(s), NEW w \in vs, w < s[i]
      PROVE  \E j \in 1..(i - 1) : s[j] = w
  <2>1. PICK j \in 1..Len(s) : s[j] = w
    BY <1>1
  <2>2. i \in Int /\ j \in Int /\ 1 <= j
    BY <1>1
  <2>3. ASSUME ~(j < i)
        PROVE  FALSE
    <3>1. i < j \/ i = j
      BY <2>2, <2>3
    <3>2. s[i] \in Version /\ s[j] \in Version
      BY <1>1
    <3>3. s[i] \in Nat /\ s[j] \in Nat /\ (i < j => s[i] < s[j])
      BY <1>1, <3>2, LessIsLower
    <3> QED
      BY <1>2, <2>1, <3>1, <3>3
  <2> QED
    BY <2>1, <2>2, <2>3
<1> QED
  BY <1>1, <1>2 DEF Climbs, s

LEMMA ClimbsOn ==
  ASSUME NEW vs, NEW t \in Seq(Version), t # <<>>, NEW done, NEW more,
         Climbs(vs, t, done), done \subseteq more, Head(t) \in more
  PROVE  Climbs(vs, Tail(t), more)
<1> DEFINE u == Tail(t)
<1>1. /\ Head(t) = t[1] /\ Len(t) \in Nat /\ Len(u) = Len(t) - 1
      /\ \A i \in 1..Len(u) : u[i] = t[i + 1] /\ i + 1 \in 1..Len(t)
  BY Rests
<1> HIDE DEF u
<1>2. ASSUME NEW i \in 1..Len(u), NEW w \in vs, w < u[i], w \notin more
      PROVE  \E j \in 1..(i - 1) : u[j] = w
  <2>0. i \in Int
    BY <1>1
  <2>1. PICK k \in 1..((i + 1) - 1) : t[k] = w
    BY <1>1, <1>2 DEF Climbs
  <2>2. k \in Int /\ k # 1 /\ 1 <= k /\ k <= i
    BY <1>1, <1>2, <2>0, <2>1
  <2>3. k - 1 \in 1..(i - 1) /\ k - 1 \in 1..Len(u) /\ (k - 1) + 1 = k
    BY <1>1, <2>0, <2>2
  <2> QED
    BY <1>1, <2>1, <2>3
<1> QED
  BY <1>1, <1>2 DEF Climbs, u

LEMMA ClimbsMore ==
  ASSUME NEW vs, NEW t, NEW done, NEW more, Climbs(vs, t, done), done \subseteq more
  PROVE  Climbs(vs, t, more)
  BY DEF Climbs

LEMMA DescendsFrom ==
  ASSUME Last <= 999, NEW fs \in SUBSET File, NEW done \in SUBSET Version, NEW undoable,
         done \subseteq VersionsOf(fs), NEW step \in Nat, step <= Cardinality(done)
  PROVE  Descends(fs, SubSeq(NewestFirst(Sorted(done)), 1, step), done, undoable)
<1> DEFINE n == Cardinality(done)
           s == Sorted(done)
           t == SubSeq(NewestFirst(s), 1, step)
<1>1. /\ Len(t) = step /\ step <= n
      /\ \A i \in 1..step : t[i] = s[n + 1 - i] /\ n + 1 - i \in 1..n
  BY NewestOf
<1>2. /\ Len(s) = n
      /\ \A i \in 1..n : s[i] \in done
      /\ \A i, j \in 1..n : i < j => Less(s[i], s[j])
      /\ \A v \in done : \E i \in 1..n : s[i] = v
  BY SortedEnumerates
<1>3. n \in Nat
  BY VersionFinite
<1> HIDE DEF t, s, n
<1>4. \A i, j \in 1..n : i < j => s[i] < s[j]
  BY <1>2, LessIsLower
<1>5. ASSUME NEW i \in 1..step, NEW j \in 1..step, i < j
      PROVE  t[j] < t[i]
  <2>1. n + 1 - j < n + 1 - i
    BY <1>3, <1>5
  <2> QED
    BY <1>1, <1>4, <2>1
<1>6. ASSUME NEW v \in done
      PROVE  (\E i \in 1..step : t[i] = v) \/ (\A i \in 1..step : v < t[i])
  <2>1. PICK k \in 1..n : s[k] = v
    BY <1>2
  <2>2. k \in Int /\ 1 <= k /\ k <= n
    BY <1>3
  <2>3. CASE n + 1 - k <= step
    <3>1. n + 1 - k \in 1..step /\ n + 1 - (n + 1 - k) = k
      BY <1>3, <2>2, <2>3
    <3> QED
      BY <1>1, <2>1, <3>1
  <2>4. CASE ~(n + 1 - k <= step)
    <3>1. \A i \in 1..step : k < n + 1 - i
      BY <1>3, <2>2, <2>4
    <3> QED
      BY <1>1, <1>4, <2>1, <3>1
  <2> QED
    BY <2>3, <2>4
<1> QED
  BY <1>1, <1>5, <1>6 DEF Descends, t, s

\* A version is passed: it is no longer recorded, or a file of it has no Down.
LEMMA DescendsOn ==
  ASSUME NEW fs, NEW t \in Seq(Version), t # <<>>, NEW done, NEW undoable, NEW less,
         Descends(fs, t, done, undoable), less \subseteq done,
         Head(t) \notin less \/ \E g \in fs \ undoable : g.version = Head(t)
  PROVE  Descends(fs, Tail(t), less, undoable)
<1> DEFINE u == Tail(t)
<1>1. /\ Head(t) = t[1] /\ Len(t) \in Nat /\ Len(u) = Len(t) - 1
      /\ \A i \in 1..Len(u) : u[i] = t[i + 1] /\ i + 1 \in 1..Len(t)
  BY Rests
<1> HIDE DEF u
<1>2. ASSUME NEW i \in 1..Len(u), NEW j \in 1..Len(u), i < j
      PROVE  u[j] < u[i]
  <2>1. i + 1 < j + 1
    BY <1>1, <1>2
  <2> QED
    BY <1>1, <2>1 DEF Descends
<1>3. ASSUME NEW v \in less, ~\E g \in fs \ undoable : g.version = v
      PROVE  (\E i \in 1..Len(u) : u[i] = v) \/ (\A i \in 1..Len(u) : v < u[i])
  <2>1. (\E i \in 1..Len(t) : t[i] = v) \/ (\A i \in 1..Len(t) : v < t[i])
    BY <1>3 DEF Descends
  <2>2. CASE \E i \in 1..Len(t) : t[i] = v
    <3>1. PICK i \in 1..Len(t) : t[i] = v
      BY <2>2
    <3>2. i # 1
      BY <1>1, <1>3, <3>1
    <3>3. i - 1 \in 1..Len(u) /\ (i - 1) + 1 = i
      BY <1>1, <3>2
    <3> QED
      BY <1>1, <3>1, <3>3
  <2>3. CASE \A i \in 1..Len(t) : v < t[i]
    BY <1>1, <2>3
  <2> QED
    BY <2>1, <2>2, <2>3
<1>4. less \subseteq VersionsOf(fs)
  BY DEF Descends
<1> QED
  BY <1>2, <1>3, <1>4 DEF Descends, u

\* More files get a Down, none of fs.
LEMMA DescendsKept ==
  ASSUME NEW fs, NEW t, NEW done, NEW undoable, NEW more, Descends(fs, t, done, undoable),
         fs \ undoable \subseteq fs \ more
  PROVE  Descends(fs, t, done, more)
  BY DEF Descends

Up == {"check", "exec", "record"}

Climbing == \A p \in Busy(Up) : Climbs(VersionsOf(proc[p].files), proc[p].todo, recorded)

\* What others write is new to a process that rolls back.
Descending ==
  \A p \in Busy(Down) :
    /\ Descends(proc[p].files, proc[p].todo, recorded, down)
    /\ \A q \in Proc : proc[q].at \in {"writeUp", "writeDown"} => proc[q].new \cap proc[p].files = {}

Ordered == Climbing /\ Descending /\ recorded \subseteq VersionsOf(Loaded)

\* A step of a process that does not roll back.
LEMMA OrderedElsewhere ==
  ASSUME Typed, Apart, Ordered, NEW p \in Proc, Elsewhere(p),
         proc[p].at \notin Down, proc'[p].at \notin Down,
         proc'[p].at \in Up => Climbs(VersionsOf(proc'[p].files), proc'[p].todo, recorded'),
         proc'[p].at \in {"writeUp", "writeDown"} =>
           \A q \in Busy(Down) : proc'[p].new \cap proc[q].files = {},
         \/ recorded' = recorded
         \/ recorded \subseteq recorded' /\ Busy(Down) = {},
         down' = down \/ (proc[p].at = "writeDown" /\ down' = down \cup proc[p].new),
         recorded' \subseteq VersionsOf(Loaded')
  PROVE  Ordered'
<1>1. \A q \in Proc : q = p \/ proc'[q] = proc[q]
  BY DEF Elsewhere
<1>2. Climbing'
  <2> SUFFICES ASSUME NEW q \in Busy(Up)'
               PROVE  Climbs(VersionsOf(proc[q].files), proc[q].todo, recorded)'
    BY DEF Climbing
  <2>1. CASE q = p
    BY <2>1 DEF Busy, VersionsOf, Climbs
  <2>2. CASE q # p
    <3>1. proc'[q] = proc[q] /\ q \in Busy(Up)
      BY <1>1, <2>2 DEF Busy
    <3>2. Climbs(VersionsOf(proc[q].files), proc[q].todo, recorded')
      BY <3>1, ClimbsMore DEF Ordered, Climbing
    <3> QED
      BY <3>1, <3>2 DEF VersionsOf, Climbs
  <2> QED
    BY <2>1, <2>2
<1>3. Descending'
  <2> SUFFICES ASSUME NEW q \in Busy(Down)'
               PROVE  /\ Descends(proc[q].files, proc[q].todo, recorded, down)'
                      /\ \A r \in Proc :
                           proc'[r].at \in {"writeUp", "writeDown"} => proc'[r].new \cap proc'[q].files = {}
    BY DEF Descending
  <2>1. q # p /\ q \in Proc /\ proc'[q] = proc[q] /\ q \in Busy(Down) /\ recorded' = recorded
    BY <1>1 DEF Busy
  <2>2. /\ Descends(proc[q].files, proc[q].todo, recorded, down)
        /\ \A r \in Proc : proc[r].at \in {"writeUp", "writeDown"} => proc[r].new \cap proc[q].files = {}
    BY <2>1 DEF Ordered, Descending
  <2>3. proc[q].files \ down \subseteq proc[q].files \ down'
    BY <2>2
  <2>4. Descends(proc[q].files, proc[q].todo, recorded, down')
    BY <2>2, <2>3, DescendsKept
  <2>5. Descends(proc[q].files, proc[q].todo, recorded, down)'
    BY <2>1, <2>4 DEF Descends, VersionsOf
  <2> QED
    BY <1>1, <2>1, <2>2, <2>5
<1>4. recorded' \subseteq VersionsOf(Loaded)'
  BY DEF VersionsOf
<1> QED
  BY <1>2, <1>3, <1>4 DEF Ordered

\* A step of a process that does.
LEMMA OrderedDown ==
  ASSUME Typed, Apart, Ordered, NEW p \in Proc, Elsewhere(p), proc[p].at \in Down, proc'[p].at \in Down,
         proc'[p].files = proc[p].files, UNCHANGED <<disk, down>>,
         Descends(proc[p].files, proc'[p].todo, recorded', down), recorded' \subseteq recorded
  PROVE  Ordered'
<1>1. \A q \in Proc : q = p \/ proc'[q] = proc[q]
  BY DEF Elsewhere
<1>2. Busy(Down)' = {p} /\ p \in Busy(Down) /\ Busy(Up)' = {}
  BY <1>1 DEF Apart, Alone, Busy, Down, Up
<1>3. Climbing'
  BY <1>2 DEF Climbing
<1>4. Descends(proc[p].files, proc[p].todo, recorded, down)'
  BY DEF Descends, VersionsOf
<1>5. \A q \in Proc : proc'[q].at \in {"writeUp", "writeDown"} => proc'[q].new \cap proc'[p].files = {}
  BY <1>1, <1>2 DEF Ordered, Descending, Down
<1>6. Descending'
  BY <1>2, <1>4, <1>5 DEF Descending
<1>7. VersionsOf(Loaded)' = VersionsOf(Loaded)
  BY DEF VersionsOf, Loaded
<1> QED
  BY <1>3, <1>6, <1>7 DEF Ordered

LEMMA OrderedStartDown ==
  ASSUME Last <= 999, DownAlone, Typed, Apart, Ordered,
         NEW p \in Proc, NEW step \in 1..Cardinality(Version), StartDown(p, step)
  PROVE  Ordered'
<1>1. /\ Elsewhere(p) /\ UNCHANGED <<disk, down, recorded>>
      /\ \A q \in Proc : proc[q].at = "idle"
      /\ step \in Nat /\ step <= Cardinality(recorded)
      /\ proc'[p].at = "down" /\ proc'[p].files = Loaded
      /\ proc'[p].todo = SubSeq(NewestFirst(Sorted(recorded)), 1, step)
  BY TypedStartDown
<1>2. \A q \in Proc : q = p \/ proc'[q].at = "idle"
  BY <1>1 DEF Elsewhere
<1>3. Busy(Down)' = {p} /\ Busy(Up)' = {}
  BY <1>1, <1>2 DEF Busy, Down, Up
<1>4. Descends(Loaded, SubSeq(NewestFirst(Sorted(recorded)), 1, step), recorded, down)
  <2>1. Loaded \in SUBSET File /\ recorded \in SUBSET Version /\ recorded \subseteq VersionsOf(Loaded)
    BY DEF Typed, TypeOK, Loaded, Ordered
  <2> QED
    BY <1>1, <2>1, DescendsFrom
<1>5. Descends(proc[p].files, proc[p].todo, recorded, down)'
  BY <1>1, <1>4 DEF Descends, VersionsOf
<1>6. Climbing' /\ Descending'
  BY <1>1, <1>2, <1>3, <1>5 DEF Climbing, Descending
<1>7. VersionsOf(Loaded)' = VersionsOf(Loaded)
  BY <1>1 DEF VersionsOf, Loaded
<1> QED
  BY <1>1, <1>6, <1>7 DEF Ordered

LEMMA OrderedNext ==
  ASSUME Last <= 999, DownAlone
  PROVE  Typed /\ Apart /\ Ordered /\ [Next]_vars => Ordered'
<1> SUFFICES ASSUME Typed, Apart, Ordered, [Next]_vars
             PROVE  Ordered'
  OBVIOUS
<1>1. CASE UNCHANGED vars
  BY <1>1 DEF vars, Ordered, Climbing, Descending, Busy, Climbs, Descends, VersionsOf, Loaded
<1>2. recorded \subseteq VersionsOf(Loaded)
  BY DEF Ordered
<1>3. ASSUME disk \subseteq disk'
      PROVE  recorded \subseteq VersionsOf(Loaded') /\ VersionsOf(Loaded) \subseteq VersionsOf(Loaded')
  BY <1>2, <1>3 DEF VersionsOf, Loaded
<1>4. ASSUME NEW p \in Proc, Create(p)
      PROVE  Ordered'
  <2>1. /\ Elsewhere(p) /\ UNCHANGED <<disk, down, recorded>>
        /\ proc'[p].at = "writeUp"
        /\ \A f \in proc'[p].new : \A g \in disk : g.version < f.version
    BY <1>4, TypedCreate
  <2>2. proc[p].at \notin Down
    BY <1>4 DEF Create, Down
  <2>3. ASSUME NEW q \in Busy(Down), NEW f \in proc'[p].new \cap proc[q].files
        PROVE  FALSE
    <3>1. f \in disk /\ f.version \in Nat
      BY <2>3, MigrationsAssumption DEF Busy, Typed, Numbered, Loaded, TypeOK, File, Version
    <3> QED
      BY <2>1, <3>1
  <2> QED
    BY <1>3, <2>1, <2>2, <2>3, OrderedElsewhere DEF Down, Up
<1>5. ASSUME NEW p \in Proc, WriteUp(p)
      PROVE  Ordered'
  <2>1. /\ Elsewhere(p) /\ UNCHANGED <<down, recorded>> /\ disk \subseteq disk'
        /\ proc[p].at = "writeUp" /\ proc'[p].at = "writeDown" /\ proc'[p].new = proc[p].new
    BY <1>5, TypedWriteUp
  <2>2. \A q \in Busy(Down) : proc'[p].new \cap proc[q].files = {}
    BY <2>1 DEF Ordered, Descending
  <2> QED
    BY <1>3, <2>1, <2>2, OrderedElsewhere DEF Down, Up
<1>6. ASSUME NEW p \in Proc, WriteDown(p)
      PROVE  Ordered'
  <2>1. /\ Elsewhere(p) /\ UNCHANGED <<disk, recorded>>
        /\ proc[p].at = "writeDown" /\ proc'[p].at = "idle" /\ down' = down \cup proc[p].new
    BY <1>6, TypedWriteDown
  <2> QED
    BY <1>3, <2>1, OrderedElsewhere DEF Down, Up
<1>7. ASSUME NEW p \in Proc, StartUp(p)
      PROVE  Ordered'
  <2>1. /\ Elsewhere(p) /\ UNCHANGED <<disk, down, recorded>>
        /\ proc'[p].at = "check" /\ proc'[p].files = Loaded
        /\ proc'[p].todo = Sorted(VersionsOf(Loaded))
    BY <1>7, TypedStartUp
  <2>2. proc[p].at \notin Down
    BY <1>7 DEF StartUp, Down
  <2>3. VersionsOf(Loaded) \in SUBSET Version
    BY DEF Typed, TypeOK, Loaded, VersionsOf, File
  <2>4. Climbs(VersionsOf(Loaded), Sorted(VersionsOf(Loaded)), recorded')
    BY <2>3, ClimbsFrom
  <2> QED
    BY <1>3, <2>1, <2>2, <2>4, OrderedElsewhere DEF Down
<1>8. ASSUME NEW p \in Proc, CheckApplied(p) \/ QueryFails(p) \/ ExecUp(p) \/ Record(p)
      PROVE  Ordered'
  <2>1. /\ Elsewhere(p) /\ UNCHANGED <<disk, down>> /\ proc[p].todo # <<>>
        /\ proc[p].at \in Up /\ proc'[p].at \in Up /\ proc'[p].files = proc[p].files
        /\ \/ proc'[p].todo = proc[p].todo /\ recorded' = recorded
           \/ /\ proc'[p].todo = Tail(proc[p].todo)
              /\ recorded' = recorded \cup {Head(proc[p].todo)}
    BY <1>8, TypedCheckApplied, TypedQueryFails, TypedExecUp, TypedRecord DEF Up
  <2> DEFINE t == proc[p].todo
             vs == VersionsOf(proc[p].files)
  <2>2. t \in Seq(Version) /\ Climbs(vs, t, recorded) /\ Busy(Down) = {}
    BY <2>1, NobodyDown DEF Typed, TypeOK, ProcRecord, Ordered, Climbing, Busy, Up
  <2>3. Head(t) \in VersionsOf(Loaded)
    <3>1. Head(t) = t[1] /\ 1 \in 1..Len(t)
      BY <2>1, <2>2, Rests
    <3>2. vs \subseteq VersionsOf(Loaded)
      BY DEF Typed, Numbered, VersionsOf
    <3> QED
      BY <2>2, <3>1, <3>2 DEF Climbs
  <2>4. Climbs(vs, proc'[p].todo, recorded')
    <3>1. CASE proc'[p].todo = t /\ recorded' = recorded
      BY <2>2, <3>1
    <3>2. CASE proc'[p].todo = Tail(t) /\ recorded' = recorded \cup {Head(t)}
      <4> HIDE DEF t, vs
      <4>1. Climbs(vs, Tail(t), recorded \cup {Head(t)})
        <5>1. t # <<>> /\ recorded \subseteq recorded \cup {Head(t)} /\ Head(t) \in recorded \cup {Head(t)}
          BY <2>1 DEF t
        <5> QED
          BY <2>2, <5>1, ClimbsOn
      <4> QED
        BY <3>2, <4>1
    <3> QED
      BY <2>1, <3>1, <3>2
  <2>5. recorded' \subseteq VersionsOf(Loaded')
    BY <1>3, <2>1, <2>3
  <2>6. VersionsOf(proc'[p].files) = vs
    BY <2>1
  <2> HIDE DEF t, vs
  <2> QED
    BY <2>1, <2>2, <2>4, <2>5, <2>6, OrderedElsewhere DEF Down, Up
<1>9. ASSUME NEW p \in Proc, SkipDown(p) \/ ExecDown(p) \/ Unrecord(p)
      PROVE  Ordered'
  <2>1. /\ Elsewhere(p) /\ UNCHANGED <<disk, down>> /\ proc[p].todo # <<>>
        /\ proc[p].at \in Down /\ proc'[p].at \in Down /\ proc'[p].files = proc[p].files
        /\ \/ proc'[p].todo = proc[p].todo /\ recorded' = recorded
           \/ /\ proc'[p].todo = Tail(proc[p].todo) /\ recorded' = recorded
              /\ Files(p) = {} \/ ~(Files(p) \subseteq down)
           \/ /\ proc'[p].todo = Tail(proc[p].todo)
              /\ recorded' = recorded \ {Head(proc[p].todo)}
    BY <1>9, TypedSkipDown, TypedExecDown, TypedUnrecord DEF Down
  <2> DEFINE t == proc[p].todo
             fs == proc[p].files
             h == Head(t)
  <2>2. t \in Seq(Version) /\ Descends(fs, t, recorded, down)
    BY <2>1 DEF Typed, TypeOK, ProcRecord, Ordered, Descending, Busy
  <2>3. recorded' \subseteq recorded
    BY <2>1
  <2>4. Descends(fs, proc'[p].todo, recorded', down)
    <3>1. CASE proc'[p].todo = t /\ recorded' = recorded
      BY <2>2, <3>1
    <3>2. CASE /\ proc'[p].todo = Tail(t) /\ recorded' = recorded
               /\ Files(p) = {} \/ ~(Files(p) \subseteq down)
      <4>1. h \in recorded'=> \E g \in fs : g.version = h
        BY <2>2, <2>3 DEF Descends, VersionsOf
      <4>2. h \notin recorded' \/ \E g \in fs \ down : g.version = h
        BY <3>2, <4>1 DEF Files
      <4> HIDE DEF t, fs
      <4>3. Descends(fs, Tail(t), recorded', down)
        BY <2>1, <2>2, <2>3, <4>2, DescendsOn DEF t
      <4> QED
        BY <3>2, <4>3
    <3>3. CASE proc'[p].todo = Tail(t) /\ recorded' = recorded \ {h}
      <4>1. h \notin recorded'
        BY <3>3
      <4> HIDE DEF t, fs
      <4>2. Descends(fs, Tail(t), recorded', down)
        BY <2>1, <2>2, <2>3, <4>1, DescendsOn DEF t
      <4> QED
        BY <3>3, <4>2
    <3> QED
      BY <2>1, <3>1, <3>2, <3>3
  <2> QED
    BY <2>1, <2>3, <2>4, OrderedDown
<1>10. ASSUME NEW p \in Proc, Finished(p) \/ Refused(p) \/ Abort(p)
       PROVE  Ordered'
  <2>1. /\ Elsewhere(p) /\ UNCHANGED <<disk, down, recorded>> /\ proc'[p].at = "idle"
    BY <1>10, TypedEnds
  <2>2. CASE proc[p].at \notin Down
    BY <1>3, <2>1, <2>2, OrderedElsewhere DEF Down, Up
  <2>3. CASE proc[p].at \in Down
    <3>1. \A q \in Proc : q = p \/ proc'[q] = proc[q]
      BY <2>1 DEF Elsewhere
    <3>2. Busy(Down)' = {} /\ Busy(Up)' = {}
      BY <2>1, <2>3, <3>1 DEF Apart, Alone, Busy, Down, Up
    <3>3. VersionsOf(Loaded)' = VersionsOf(Loaded)
      BY <2>1 DEF VersionsOf, Loaded
    <3> QED
      BY <1>2, <2>1, <3>2, <3>3 DEF Ordered, Climbing, Descending
  <2> QED
    BY <2>2, <2>3
<1> QED
  BY <1>1, <1>4, <1>5, <1>6, <1>7, <1>8, <1>9, <1>10, OrderedStartDown, Steps

\* The step that applies a migration, and the one that undoes it.
LEMMA UpInOrder ==
  ASSUME Typed, Ordered, NEW p \in Proc, ExecUp(p), NEW f \in File, schema'[f] # schema[f]
  PROVE  /\ schema'[f] > schema[f]
         /\ \A g \in disk : g.version < f.version => g.version \in recorded
<1> DEFINE t == proc[p].todo
           vs == VersionsOf(proc[p].files)
<1>1. PICK h \in proc[p].files :
        h \in File /\ h.version = Head(t) /\ schema' = [schema EXCEPT ![h] = @ + 1]
  BY TypedExecUp
<1>2. f = h /\ schema[f] \in Nat
  BY <1>1 DEF Typed, TypeOK
<1>3. proc[p].at = "exec" /\ t # <<>> /\ t \in Seq(Version)
  BY TypedExecUp DEF Typed, TypeOK, ProcRecord
<1>4. f.version = t[1] /\ 1 \in 1..Len(t)
  BY <1>1, <1>2, <1>3, Rests
<1>5. Climbs(vs, t, recorded)
  BY <1>3 DEF Ordered, Climbing, Busy, Up
<1>6. schema'[f] > schema[f]
  BY <1>1, <1>2 DEF Typed, TypeOK
<1>7. ASSUME NEW g \in disk, g.version < f.version
      PROVE  g.version \in recorded
  <2>1. g \in File /\ f.version \in vs /\ Closed(vs)
    BY <1>1, <1>2 DEF VersionsOf, Typed, TypeOK, Numbered
  <2>2. g.version \in First..f.version
    BY <1>7, <2>1, MigrationsAssumption DEF File, Version
  <2> HIDE DEF t, vs
  <2>3. g.version \in vs
    BY <2>1, <2>2 DEF Closed
  <2> QED
    BY <1>4, <1>5, <1>7, <2>3 DEF Climbs
<1> QED
  BY <1>6, <1>7

LEMMA DownInOrder ==
  ASSUME Typed, Ordered, NEW p \in Proc, ExecDown(p), NEW f \in File, schema'[f] # schema[f]
  PROVE  /\ schema'[f] < schema[f]
         /\ \A v \in recorded : v > f.version => \E g \in disk \ down : g.version = v
<1> DEFINE t == proc[p].todo
           fs == proc[p].files
<1>1. PICK h \in File :
        h.version = Head(t) /\ schema' = [schema EXCEPT ![h] = IF @ = 0 THEN 0 ELSE @ - 1]
  BY TypedExecDown
<1>2. f = h /\ schema[f] \in Nat
  BY <1>1 DEF Typed, TypeOK
<1>3. schema'[f] < schema[f]
  BY <1>1, <1>2 DEF Typed, TypeOK
<1>4. proc[p].at = "down" /\ t # <<>> /\ t \in Seq(Version)
  BY TypedExecDown DEF Typed, TypeOK, ProcRecord
<1>5. f.version = t[1] /\ 1 \in 1..Len(t) /\ f.version \in Nat /\ Len(t) \in Nat
  BY <1>1, <1>2, <1>4, Rests, MigrationsAssumption DEF Version
<1>6. Descends(fs, t, recorded, down) /\ fs \subseteq disk
  BY <1>4 DEF Ordered, Descending, Busy, Down, Typed, Numbered, Loaded
<1>7. ASSUME NEW v \in recorded, v > f.version
      PROVE  \E g \in disk \ down : g.version = v
  <2> HIDE DEF t, fs
  <2>1. v \in Nat
    BY MigrationsAssumption DEF Typed, TypeOK, Version
  <2>2. ASSUME NEW i \in 1..Len(t), t[i] = v
        PROVE  FALSE
    <3>1. i = 1 \/ 1 < i
      OBVIOUS
    <3>2. i = 1 \/ t[i] < t[1]
      BY <1>5, <1>6, <3>1 DEF Descends
    <3> QED
      BY <1>5, <1>7, <2>1, <2>2, <3>2
  <2>3. ~\A i \in 1..Len(t) : v < t[i]
    BY <1>5, <1>7, <2>1
  <2> QED
    BY <1>6, <2>2, <2>3 DEF Descends
<1> QED
  BY <1>3, <1>7

(***************************************************************************)
(* Migrations are applied in the order of their numbers and undone in the   *)
(* opposite one (loadMigrations, UpWith, DownWith), for any processes and   *)
(* files and however they are interrupted: with numbers of three digits,    *)
(* as they are compared as strings, and rollbacks while nobody migrates.    *)
(***************************************************************************)
THEOREM AlwaysInOrder ==
  ASSUME DownAlone, Last <= 999
  PROVE  Spec => InOrder
<1> DEFINE IInv == Typed /\ Apart /\ Ordered
           Orderly == \A f \in File :
             /\ schema'[f] > schema[f] => \A g \in disk : g.version < f.version => g.version \in recorded
             /\ schema'[f] < schema[f] =>
                  \A v \in recorded : v > f.version => \E g \in disk \ down : g.version = v
<1>1. Init => IInv
  <2>1. Init => Ordered
    BY DEF Init, Ordered, Climbing, Descending, Busy, Up, Down, Idle
  <2> QED
    BY <2>1, TypedInit, LedgerInit
<1>2. IInv /\ [Next]_vars => IInv'
  BY TypedNext, ApartNext, OrderedNext
<1>3. IInv /\ [Next]_vars => [Orderly]_vars
  <2> SUFFICES ASSUME IInv, [Next]_vars, NEW f \in File
               PROVE  /\ schema'[f] > schema[f] =>
                           \A g \in disk : g.version < f.version => g.version \in recorded
                      /\ schema'[f] < schema[f] =>
                           \A v \in recorded : v > f.version => \E g \in disk \ down : g.version = v
    OBVIOUS
  <2>1. schema[f] \in Nat
    BY DEF Typed, TypeOK
  <2>2. CASE schema'[f] = schema[f]
    BY <2>1, <2>2
  <2>3. CASE schema'[f] # schema[f]
    <3>1. PICK p \in Proc : ExecUp(p) \/ ExecDown(p)
      BY <2>3, Steps, TypedCreate, TypedWriteUp, TypedWriteDown, TypedStartUp, TypedCheckApplied, TypedQueryFails,
         TypedRecord, TypedStartDown, TypedSkipDown, TypedUnrecord, TypedEnds DEF vars
    <3>2. schema'[f] \in Nat
      <4>1. Typed'
        BY TypedNext
      <4> QED
        BY <4>1 DEF Typed, TypeOK
    <3>3. CASE ExecUp(p)
      BY <2>1, <2>3, <3>2, <3>3, UpInOrder
    <3>4. CASE ExecDown(p)
      BY <2>1, <2>3, <3>2, <3>4, DownInOrder
    <3> QED
      BY <3>1, <3>3, <3>4
  <2> QED
    BY <2>2, <2>3
<1>4. Spec => [][Orderly]_vars
  BY <1>1, <1>2, <1>3, PTL DEF Spec
<1> QED
  BY <1>4 DEF InOrder

=============================================================================
