--------------------------- MODULE PushTasksProofs ----------------------------
(***************************************************************************)
(* Theorems about the push task chain, for any number of users, devices    *)
(* and faults.  The lists of endpoints go through the helpers of Slices,   *)
(* which loop over slices: what they keep is proved by induction over the  *)
(* loop, and the induction over sets of numbers that it takes is derived   *)
(* from the cardinality of finite sets.                                    *)
(***************************************************************************)
EXTENDS PushTasks, FiniteSetTheorems, TLAPS

(* Induction: if n were missing in S, counting one further would put the    *)
(* members of S up to n into those that are not 0, which are fewer.         *)
LEMMA SetInduction ==
  ASSUME NEW S, 0 \in S, \A n \in Nat : n \in S => n + 1 \in S
  PROVE  \A n \in Nat : n \in S
<1> SUFFICES ASSUME NEW n \in Nat, n \notin S PROVE FALSE
  OBVIOUS
<1> DEFINE T == S \cap 0..n
           f == [i \in T |-> i + 1]
<1>1. IsFiniteSet(0..n)
  BY FS_Interval
<1>2. T \in SUBSET (0..n)
  OBVIOUS
<1>3. IsFiniteSet(T)
  BY <1>1, <1>2, FS_Subset
<1>4. f \in Injection(T, T \ {0})
  BY DEF Injection, IsInjective
<1>5. /\ IsFiniteSet(T \ {0})
      /\ Cardinality(T \ {0}) = Cardinality(T) - 1
  <2>1. 0 \in T
    OBVIOUS
  <2> HIDE DEF T
  <2> QED  BY <1>3, <2>1, FS_RemoveElement
<1>6. Cardinality(T) <= Cardinality(T \ {0})
  BY <1>4, <1>5, FS_Injection
<1>7. Cardinality(T) \in Nat
  BY <1>3, FS_CardinalityType
<1> QED  BY <1>5, <1>6, <1>7

(* A set of numbers that is not empty has a least one.                      *)
LEMMA Least ==
  ASSUME NEW S \in SUBSET Nat, S # {}
  PROVE  \E m \in S : \A n \in S : m <= n
<1> SUFFICES ASSUME \A m \in S : \E n \in S : n < m PROVE FALSE
  OBVIOUS
<1> DEFINE T == {m \in Nat : \A n \in 0..m : n \notin S}
<1>1. 0 \in T
  OBVIOUS
<1>2. ASSUME NEW m \in Nat, m \in T PROVE m + 1 \in T
  <2>1. \A n \in 0..m : n \notin S
    BY <1>2
  <2>2. m + 1 \notin S
    BY <2>1
  <2>3. \A n \in 0..(m + 1) : n \in 0..m \/ n = m + 1
    OBVIOUS
  <2> QED  BY <2>1, <2>2, <2>3
<1> HIDE DEF T
<1>3. \A m \in Nat : m \in T
  BY <1>1, <1>2, SetInduction
<1>4. PICK m \in Nat : m \in S
  OBVIOUS
<1>5. m \in T /\ m \in 0..m
  BY <1>3
<1> QED  BY <1>4, <1>5 DEF T

LEMMA MinIsLeast ==
  ASSUME NEW S \in SUBSET Nat, S # {}
  PROVE  Min(S) \in S
BY Least DEF Min

-----------------------------------------------------------------------------
(* The first item of its kind, if there is one.                             *)
First(s, e) == SelectInSeq(s, LAMBDA x : x = e)

LEMMA SelectFinds ==
  ASSUME NEW T, NEW s \in Seq(T), NEW e
  PROVE  /\ First(s, e) \in 0..Len(s)
         /\ First(s, e) # 0 => s[First(s, e)] = e
         /\ First(s, e) = 0 => \A j \in 1..Len(s) : s[j] # e
<1> DEFINE I == {j \in 1..Len(s) : s[j] = e}
<1>1. Len(s) \in Nat /\ I \in SUBSET Nat
  OBVIOUS
<1>2. First(s, e) = IF I # {} THEN Min(I) ELSE 0
  BY DEF First, SelectInSeq
<1>3. I # {} => Min(I) \in I
  BY <1>1, MinIsLeast
<1> QED  BY <1>1, <1>2, <1>3

(* Removing an item keeps the others.                                       *)
LEMMA RemoveAtKeeps ==
  ASSUME NEW T, NEW s \in Seq(T), NEW i \in 1..Len(s)
  PROVE  /\ RemoveAt(s, i) \in Seq(T)
         /\ ToSet(RemoveAt(s, i)) \subseteq ToSet(s)
         /\ ToSet(s) \subseteq ToSet(RemoveAt(s, i)) \cup {s[i]}
<1> DEFINE r == RemoveAt(s, i)
<1>0. Len(s) \in Nat /\ i \in Nat
  OBVIOUS
<1>1. /\ r \in Seq(T)
      /\ Len(r) = Len(s) - 1
      /\ \A j \in 1..Len(r) : r[j] = IF j < i THEN s[j] ELSE s[j + 1]
  <2> DEFINE a == SubSeq(s, 1, i - 1)
             b == SubSeq(s, i + 1, Len(s))
  <2>1. /\ a \in Seq(T) /\ Len(a) = i - 1
        /\ \A j \in 1..(i - 1) : a[j] = s[j]
    BY <1>0
  <2>2. /\ b \in Seq(T) /\ Len(b) = Len(s) - i
        /\ \A j \in 1..(Len(s) - i) : b[j] = s[j + i]
    BY <1>0
  <2>3. r = a \o b
    BY DEF RemoveAt
  <2> HIDE DEF a, b, r
  <2>4. /\ r \in Seq(T) /\ Len(r) = Len(s) - 1
        /\ \A j \in 1..Len(r) :
              r[j] = IF j <= Len(a) THEN a[j] ELSE b[j - Len(a)]
    BY <1>0, <2>1, <2>2, <2>3
  <2>5. ASSUME NEW j \in 1..Len(r)
        PROVE  r[j] = IF j < i THEN s[j] ELSE s[j + 1]
    <3>1. CASE j < i
      BY <1>0, <2>1, <2>4, <3>1
    <3>2. CASE ~(j < i)
      BY <1>0, <2>1, <2>2, <2>4, <3>2
    <3> QED  BY <3>1, <3>2
  <2> QED  BY <2>4, <2>5
<1>2. \A j \in 1..Len(s) : j < i => j \in 1..Len(r) /\ r[j] = s[j]
  BY <1>0, <1>1
<1>3. \A j \in 1..Len(s) : j > i => j - 1 \in 1..Len(r) /\ r[j - 1] = s[j]
  BY <1>0, <1>1
<1> HIDE DEF r
<1>4. ToSet(r) \subseteq ToSet(s)
  BY <1>0, <1>1 DEF ToSet
<1>5. ToSet(s) \subseteq ToSet(r) \cup {s[i]}
  <2> SUFFICES ASSUME NEW j \in 1..Len(s) PROVE s[j] \in ToSet(r) \cup {s[i]}
    BY DEF ToSet
  <2>1. CASE j < i
    BY <1>1, <1>2, <2>1 DEF ToSet
  <2>2. CASE j > i
    BY <1>1, <1>3, <2>2 DEF ToSet
  <2> QED  BY <1>0, <2>1, <2>2
<1> QED  BY <1>1, <1>4, <1>5 DEF r

(* Taking out an item keeps the others.                                     *)
LEMMA RemoveFirstKeeps ==
  ASSUME NEW T, NEW s \in Seq(T), NEW e
  PROVE  /\ RemoveFirst(s, e) \in Seq(T)
         /\ ToSet(RemoveFirst(s, e)) \subseteq ToSet(s)
         /\ ToSet(s) \subseteq ToSet(RemoveFirst(s, e)) \cup {e}
<1> DEFINE i == First(s, e)
<1>1. RemoveFirst(s, e) =
        IF \E j \in 1..Len(s) : s[j] = e THEN RemoveAt(s, i) ELSE s
  BY DEF RemoveFirst, First, SelectInSeq
<1>2. /\ i \in 0..Len(s)
      /\ i # 0 => s[i] = e
      /\ i = 0 => \A j \in 1..Len(s) : s[j] # e
  BY SelectFinds
<1> HIDE DEF i
<1>3. CASE i = 0
  BY <1>1, <1>2, <1>3
<1>4. CASE i # 0
  <2>1. i \in 1..Len(s) /\ s[i] = e
    BY <1>2, <1>4
  <2> QED  BY <1>1, <1>2, <1>4, <2>1, RemoveAtKeeps
<1> QED  BY <1>3, <1>4

-----------------------------------------------------------------------------
(* The loop of unique up to its n-th item.                                  *)
IsUniqueLoop(items, f, n) ==
  f = [i \in 0..n |-> IF i = 0 THEN <<>>
                     ELSE IF Contains(f[i - 1], items[i]) THEN f[i - 1]
                     ELSE Append(f[i - 1], items[i])]

LEMMA UniqueLoopExists ==
  ASSUME NEW items, Len(items) \in Nat
  PROVE  \E f : IsUniqueLoop(items, f, Len(items))
<1> DEFINE S == {n \in Nat : \E f : IsUniqueLoop(items, f, n)}
<1>1. 0 \in S
  <2>1. IsUniqueLoop(items, [i \in 0..0 |-> <<>>], 0)
    BY DEF IsUniqueLoop
  <2> QED  BY <2>1
<1>2. ASSUME NEW n \in Nat, n \in S PROVE n + 1 \in S
  <2>1. PICK f : IsUniqueLoop(items, f, n)
    BY <1>2
  <2> DEFINE r == IF Contains(f[n], items[n + 1]) THEN f[n]
                  ELSE Append(f[n], items[n + 1])
             g == [i \in 0..(n + 1) |-> IF i = n + 1 THEN r ELSE f[i]]
             G(i) == IF i = 0 THEN <<>>
                     ELSE IF Contains(g[i - 1], items[i]) THEN g[i - 1]
                     ELSE Append(g[i - 1], items[i])
  <2>2. ASSUME NEW i \in 0..(n + 1) PROVE g[i] = G(i)
    <3>1. CASE i = n + 1
      <4>1. g[i] = r /\ i # 0 /\ i - 1 = n /\ n \in 0..(n + 1) /\ n # n + 1
        BY <3>1
      <4>2. g[n] = f[n]
        BY <4>1
      <4> HIDE DEF g
      <4> QED  BY <3>1, <4>1, <4>2
    <3>2. CASE i # n + 1 /\ i # 0
      <4>1. /\ i \in 0..n /\ i - 1 \in 0..n /\ i - 1 \in 0..(n + 1)
            /\ i - 1 # n + 1
        BY <3>2
      <4>2. g[i] = f[i] /\ g[i - 1] = f[i - 1]
        BY <4>1, <3>2
      <4>3. f[i] = IF Contains(f[i - 1], items[i]) THEN f[i - 1]
                   ELSE Append(f[i - 1], items[i])
        BY <2>1, <3>2, <4>1 DEF IsUniqueLoop
      <4> HIDE DEF g
      <4> QED  BY <3>2, <4>2, <4>3
    <3>3. CASE i = 0
      <4>1. g[i] = f[i] /\ 0 \in 0..n
        BY <3>3
      <4>2. f[0] = <<>>
        BY <2>1, <4>1 DEF IsUniqueLoop
      <4> HIDE DEF g
      <4> QED  BY <3>3, <4>1, <4>2
    <3> QED  BY <3>1, <3>2, <3>3
  <2>3. g = [i \in 0..(n + 1) |-> G(i)]
    <3>1. g = [i \in 0..(n + 1) |-> g[i]]
      OBVIOUS
    <3> HIDE DEF g
    <3> QED  BY <2>2, <3>1
  <2>4. IsUniqueLoop(items, g, n + 1)
    <3> HIDE DEF g
    <3> QED  BY <2>3 DEF IsUniqueLoop
  <2> QED  BY <2>4
<1> HIDE DEF S
<1>3. \A n \in Nat : n \in S
  BY <1>1, <1>2, SetInduction
<1> QED  BY <1>3 DEF S

LEMMA AppendKeeps ==
  ASSUME NEW T, NEW s \in Seq(T), NEW e \in T
  PROVE  ToSet(Append(s, e)) = ToSet(s) \cup {e}
<1> DEFINE r == Append(s, e)
<1>1. /\ Len(s) \in Nat /\ DOMAIN s = 1..Len(s)
      /\ DOMAIN r = 1..(Len(s) + 1)
      /\ \A j \in 1..Len(s) : r[j] = s[j]
      /\ r[Len(s) + 1] = e
  OBVIOUS
<1> HIDE DEF r
<1>2. 1..(Len(s) + 1) = (1..Len(s)) \cup {Len(s) + 1}
  BY <1>1
<1>3. ToSet(r) = {r[j] : j \in 1..Len(s)} \cup {r[Len(s) + 1]}
  BY <1>1, <1>2 DEF ToSet
<1>4. {r[j] : j \in 1..Len(s)} = {s[j] : j \in 1..Len(s)}
  BY <1>1
<1> QED  BY <1>1, <1>3, <1>4 DEF r, ToSet

(* unique keeps each item once or more.                                     *)
LEMMA UniqueKeeps ==
  ASSUME NEW T, NEW s \in Seq(T)
  PROVE  unique(s) \in Seq(T) /\ ToSet(unique(s)) = ToSet(s)
<1> DEFINE f == CHOOSE g : IsUniqueLoop(s, g, Len(s))
           Upto(n) == {s[j] : j \in 1..n}
           S == {n \in Nat : n <= Len(s) => /\ f[n] \in Seq(T)
                                           /\ ToSet(f[n]) = Upto(n)}
<1>0. Len(s) \in Nat
  OBVIOUS
<1>1. IsUniqueLoop(s, f, Len(s))
  BY <1>0, UniqueLoopExists
<1>2. unique(s) = f[Len(s)]
  BY <1>1 DEF unique, IsUniqueLoop
<1> HIDE DEF f
<1>3. 0 \in S
  <2>1. f[0] = <<>>
    BY <1>0, <1>1 DEF IsUniqueLoop
  <2>2. Upto(0) = {} /\ ToSet(<<>>) = {} /\ <<>> \in Seq(T)
    BY DEF ToSet
  <2> HIDE DEF Upto
  <2> QED  BY <2>1, <2>2
<1>4. ASSUME NEW n \in Nat, n \in S PROVE n + 1 \in S
  <2> SUFFICES ASSUME n + 1 <= Len(s)
               PROVE  /\ f[n + 1] \in Seq(T)
                      /\ ToSet(f[n + 1]) = Upto(n + 1)
    OBVIOUS
  <2>1. f[n] \in Seq(T) /\ ToSet(f[n]) = Upto(n)
    BY <1>0, <1>4
  <2>2. f[n + 1] = IF Contains(f[n], s[n + 1]) THEN f[n]
                   ELSE Append(f[n], s[n + 1])
    <3>1. n + 1 \in 0..Len(s) /\ n + 1 # 0 /\ (n + 1) - 1 = n
      BY <1>0
    <3> QED  BY <1>1, <3>1 DEF IsUniqueLoop
  <2>3. s[n + 1] \in T /\ Upto(n + 1) = Upto(n) \cup {s[n + 1]}
    <3>1. n + 1 \in 1..Len(s) /\ 1..(n + 1) = 1..n \cup {n + 1}
      BY <1>0
    <3> QED  BY <3>1
  <2> HIDE DEF Upto
  <2>4. CASE Contains(f[n], s[n + 1])
    BY <2>1, <2>2, <2>3, <2>4 DEF Contains, ToSet
  <2>5. CASE ~Contains(f[n], s[n + 1])
    <3>1. ToSet(Append(f[n], s[n + 1])) = ToSet(f[n]) \cup {s[n + 1]}
      BY <2>1, <2>3, AppendKeeps
    <3>2. Append(f[n], s[n + 1]) \in Seq(T)
      BY <2>1, <2>3
    <3>3. f[n + 1] = Append(f[n], s[n + 1])
      BY <2>2, <2>5
    <3> QED  BY <2>1, <2>3, <3>1, <3>2, <3>3
  <2> QED  BY <2>4, <2>5
<1> HIDE DEF S
<1>5. \A n \in Nat : n \in S
  BY <1>3, <1>4, SetInduction
<1>6. f[Len(s)] \in Seq(T) /\ ToSet(f[Len(s)]) = Upto(Len(s))
  <2> HIDE DEF Upto
  <2>1. Len(s) \in S /\ Len(s) <= Len(s)
    BY <1>0, <1>5
  <2> QED  BY <2>1 DEF S
<1>7. Upto(Len(s)) = ToSet(s)
  BY DEF ToSet
<1> QED  BY <1>2, <1>6, <1>7

-----------------------------------------------------------------------------
(* A bounded set of numbers has a greatest one.                             *)
LEMMA Greatest ==
  ASSUME NEW m \in Nat, NEW S \in SUBSET (0..m), S # {}
  PROVE  \E x \in S : \A n \in S : n <= x
<1> DEFINE T == {m - n : n \in S}
<1>1. T \in SUBSET Nat /\ T # {}
  <2>1. \A n \in S : m - n \in Nat
    OBVIOUS
  <2> QED  BY <2>1
<1>2. PICK y \in T : \A n \in T : y <= n
  <2> HIDE DEF T
  <2> QED  BY <1>1, Least
<1>3. PICK x \in S : y = m - x
  OBVIOUS
<1>4. ASSUME NEW n \in S PROVE n <= x
  <2>1. y <= m - n
    BY <1>2
  <2> QED  BY <1>3, <2>1
<1> QED  BY <1>4

(* The positions of smaller items, and of those that are not greater.       *)
Below(s, x) == {i \in DOMAIN s : s[i] < x}
UpTo(s, x)  == {i \in DOMAIN s : s[i] <= x}

LEMMA DomainSize ==
  ASSUME NEW s \in Seq(Nat)
  PROVE  IsFiniteSet(DOMAIN s) /\ Cardinality(DOMAIN s) = Len(s)
<1>1. DOMAIN s = 1..Len(s) /\ Len(s) \in Nat
  OBVIOUS
<1> DEFINE n == Len(s)
<1>2. n \in Int /\ 1 \in Int
  BY <1>1
<1>3. (IF 1 > n THEN 0 ELSE n - 1 + 1) = n
  BY <1>1
<1> HIDE DEF n
<1>4. IsFiniteSet(1..n) /\ Cardinality(1..n) = IF 1 > n THEN 0 ELSE n - 1 + 1
  BY <1>2, FS_Interval
<1>5. IsFiniteSet(1..n) /\ Cardinality(1..n) = n
  BY <1>3, <1>4
<1> QED  BY <1>1, <1>5 DEF n

LEMMA Ranks ==
  ASSUME NEW s \in Seq(Nat)
  PROVE  \A S \in SUBSET DOMAIN s :
            /\ Cardinality(S) \in 0..Len(s)
            /\ \A R \in SUBSET S :
                 /\ Cardinality(R) <= Cardinality(S)
                 /\ R # S => Cardinality(R) < Cardinality(S)
<1>1. DOMAIN s = 1..Len(s) /\ Len(s) \in Nat
  OBVIOUS
<1>2. IsFiniteSet(DOMAIN s) /\ Cardinality(DOMAIN s) = Len(s)
  BY DomainSize
<1>3. ASSUME NEW S \in SUBSET DOMAIN s
      PROVE  IsFiniteSet(S) /\ Cardinality(S) \in 0..Len(s)
  BY <1>1, <1>2, FS_Subset, FS_CardinalityType
<1>4. ASSUME NEW S \in SUBSET DOMAIN s, NEW R \in SUBSET S
      PROVE  /\ Cardinality(R) <= Cardinality(S)
             /\ R # S => Cardinality(R) < Cardinality(S)
  <2>1. IsFiniteSet(S) /\ Cardinality(S) \in Nat
    BY <1>1, <1>3
  <2>2. IsFiniteSet(R) /\ Cardinality(R) \in Nat
    BY <2>1, FS_Subset, FS_CardinalityType
  <2> QED  BY <2>1, <2>2, FS_Subset
<1> QED  BY <1>3, <1>4

(* Each position of the sorted list has an item for it.                     *)
LEMMA RankIsTaken ==
  ASSUME NEW s \in Seq(Nat), NEW k \in 1..Len(s)
  PROVE  \E x \in ToSet(s) : /\ Cardinality(Below(s, x)) < k
                            /\ k <= Cardinality(UpTo(s, x))
<1> DEFINE W == {x \in ToSet(s) : Cardinality(Below(s, x)) < k}
           C == {Cardinality(UpTo(s, x)) : x \in W}
<1>1. /\ ToSet(s) \in SUBSET Nat /\ ToSet(s) # {}
      /\ Len(s) \in Nat /\ k \in Nat /\ k <= Len(s) /\ 0 < k
      /\ DOMAIN s = 1..Len(s)
  <2>1. /\ DOMAIN s = 1..Len(s) /\ Len(s) \in Nat
        /\ \A i \in 1..Len(s) : s[i] \in Nat
    OBVIOUS
  <2>2. k \in DOMAIN s /\ k \in Nat /\ k <= Len(s) /\ 0 < k
    BY <2>1
  <2> QED  BY <2>1, <2>2 DEF ToSet
<1>2. \A x : Below(s, x) \in SUBSET DOMAIN s /\ UpTo(s, x) \in SUBSET DOMAIN s
  BY DEF Below, UpTo
<1>3. W # {}
  <2>1. PICK x \in ToSet(s) : \A y \in ToSet(s) : x <= y
    BY <1>1, Least
  <2>2. Below(s, x) = {}
    <3>1. \A i \in DOMAIN s : s[i] \in ToSet(s)
      BY DEF ToSet
    <3>2. \A i \in DOMAIN s : ~(s[i] < x)
      BY <1>1, <2>1, <3>1
    <3> QED  BY <3>2 DEF Below
  <2>3. Cardinality(Below(s, x)) = 0
    BY <2>2, FS_EmptySet
  <2> QED  BY <2>3, <1>1
<1>4. C \in SUBSET (0..Len(s)) /\ C # {}
  <2>1. \A x \in W : Cardinality(UpTo(s, x)) \in 0..Len(s)
    BY <1>2, Ranks
  <2> HIDE DEF W
  <2> QED  BY <2>1, <1>3
<1>5. PICK c \in C : \A d \in C : d <= c
  <2> HIDE DEF C
  <2> QED  BY <1>1, <1>4, Greatest
<1>6. PICK x \in W : c = Cardinality(UpTo(s, x))
  OBVIOUS
<1>7. c \in 0..Len(s)
  BY <1>4
<1>8. ASSUME c < k PROVE FALSE
  <2> DEFINE A == {s[i] : i \in {j \in DOMAIN s : s[j] > x}}
  <2>0. x \in Nat
    BY <1>1
  <2>1. PICK i \in DOMAIN s : ~(s[i] <= x)
    <3>1. UpTo(s, x) # DOMAIN s
      <4>1. Cardinality(DOMAIN s) = Len(s)
        BY DomainSize
      <4> QED  BY <1>1, <1>6, <1>7, <1>8, <4>1
    <3> QED  BY <3>1 DEF UpTo
  <2>2. A \in SUBSET Nat /\ A # {}
    <3>1. s[i] \in Nat /\ s[i] > x
      BY <2>0, <2>1
    <3> QED  BY <3>1
  <2>3. PICK y \in A : \A z \in A : y <= z
    <3> HIDE DEF A
    <3> QED  BY <2>2, Least
  <2>4. PICK j \in DOMAIN s : s[j] > x /\ y = s[j]
    OBVIOUS
  <2>5. Below(s, y) \in SUBSET UpTo(s, x)
    <3> SUFFICES ASSUME NEW l \in DOMAIN s, s[l] < y PROVE s[l] <= x
      BY DEF Below, UpTo
    <3>1. s[l] \in Nat /\ y \in Nat
      BY <2>2
    <3>2. s[l] > x => s[l] \in A
      OBVIOUS
    <3>3. s[l] \in A => y <= s[l]
      BY <2>3
    <3> HIDE DEF A
    <3> QED  BY <2>0, <3>1, <3>2, <3>3
  <2>6. y \in W
    <3>1. Cardinality(Below(s, y)) <= Cardinality(UpTo(s, x))
      BY <1>2, <2>5, Ranks
    <3>2. Cardinality(Below(s, y)) \in 0..Len(s)
      BY <1>2, Ranks
    <3>3. Cardinality(Below(s, y)) < k
      BY <1>1, <1>6, <1>7, <1>8, <3>1, <3>2
    <3> QED  BY <2>4, <3>3 DEF ToSet
  <2>7. UpTo(s, x) \in SUBSET UpTo(s, y) /\ UpTo(s, x) # UpTo(s, y)
    <3>1. y \in Nat /\ y > x
      BY <2>2, <2>4
    <3>2. \A l \in DOMAIN s : s[l] \in Nat
      OBVIOUS
    <3>3. j \in UpTo(s, y) /\ j \notin UpTo(s, x)
      BY <2>0, <2>4, <3>1 DEF UpTo
    <3> QED  BY <2>0, <3>1, <3>2, <3>3 DEF UpTo
  <2>8. Cardinality(UpTo(s, x)) < Cardinality(UpTo(s, y))
    BY <1>2, <2>7, Ranks
  <2>9. Cardinality(UpTo(s, y)) \in C /\ Cardinality(UpTo(s, y)) \in 0..Len(s)
    BY <1>2, <2>6, Ranks
  <2> HIDE DEF C, W
  <2> QED  BY <1>5, <1>6, <1>7, <2>8, <2>9
<1> QED  BY <1>1, <1>6, <1>7, <1>8

(* Sorting keeps the items.                                                 *)
LEMMA SortedKeeps ==
  ASSUME NEW T \in SUBSET Nat, NEW s \in Seq(T)
  PROVE  Sorted(s) \in Seq(T) /\ ToSet(Sorted(s)) = ToSet(s)
<1> DEFINE Here(k, x) == /\ Cardinality(Below(s, x)) < k
                         /\ k <= Cardinality(UpTo(s, x))
<1>1. /\ DOMAIN s = 1..Len(s) /\ Len(s) \in Nat /\ s \in Seq(Nat)
      /\ \A i \in DOMAIN s : s[i] \in T
  <2>1. \A i \in DOMAIN s : s[i] \in T
    OBVIOUS
  <2>2. s \in [1..Len(s) -> T] /\ Len(s) \in Nat
    OBVIOUS
  <2>3. s \in [1..Len(s) -> Nat]
    BY <2>2
  <2> QED  BY <2>1, <2>2, <2>3
<1>2. Sorted(s) = [k \in 1..Len(s) |-> CHOOSE x \in ToSet(s) : Here(k, x)]
  BY <1>1 DEF Sorted, Below, UpTo
<1>3. \A k \in 1..Len(s) : \E x \in ToSet(s) : Here(k, x)
  BY <1>1, RankIsTaken
<1>4. \A x : Below(s, x) \in SUBSET DOMAIN s /\ UpTo(s, x) \in SUBSET DOMAIN s
  BY DEF Below, UpTo
<1> HIDE DEF Here
<1>5. \A k \in 1..Len(s) : Sorted(s)[k] \in ToSet(s) /\ Here(k, Sorted(s)[k])
  BY <1>2, <1>3
<1>6. /\ Sorted(s) \in Seq(T)
      /\ DOMAIN Sorted(s) = 1..Len(s)
  <2>1. \A k \in 1..Len(s) : Sorted(s)[k] \in T
    BY <1>1, <1>5 DEF ToSet
  <2>2. Sorted(s) \in [1..Len(s) -> T]
    BY <1>2, <2>1
  <2> QED  BY <1>1, <2>2
<1>7. ToSet(Sorted(s)) \subseteq ToSet(s)
  BY <1>5, <1>6 DEF ToSet
<1>8. ASSUME NEW i \in DOMAIN s PROVE s[i] \in ToSet(Sorted(s))
  <2> DEFINE v == s[i]
             k == Cardinality(UpTo(s, v))
             x == Sorted(s)[k]
  <2>1. v \in Nat /\ \A l \in DOMAIN s : s[l] \in Nat
    BY <1>1
  <2>2. Cardinality(Below(s, v)) < k /\ k \in 1..Len(s)
    <3>1. Below(s, v) \in SUBSET UpTo(s, v)
      BY <2>1 DEF Below, UpTo
    <3>2. i \in UpTo(s, v) /\ i \notin Below(s, v)
      BY <2>1 DEF Below, UpTo
    <3>3. Cardinality(Below(s, v)) < k
      BY <1>1, <1>4, <3>1, <3>2, Ranks
    <3>4. Cardinality(Below(s, v)) \in 0..Len(s) /\ k \in 0..Len(s)
      BY <1>1, <1>4, Ranks
    <3> HIDE DEF k
    <3> QED  BY <1>1, <3>3, <3>4
  <2>3. x \in ToSet(s) /\ Here(k, x)
    BY <1>5, <2>2
  <2>4. x \in Nat
    BY <2>1, <2>3 DEF ToSet
  <2> HIDE DEF x
  <2>5. ASSUME x < v PROVE FALSE
    <3>1. UpTo(s, x) \in SUBSET Below(s, v)
      <4> SUFFICES ASSUME NEW l \in DOMAIN s, s[l] <= x PROVE s[l] < v
        BY DEF Below, UpTo
      <4> HIDE DEF v
      <4> QED  BY <2>1, <2>4, <2>5
    <3>2. Cardinality(UpTo(s, x)) <= Cardinality(Below(s, v))
      BY <1>1, <1>4, <3>1, Ranks
    <3>3. /\ Cardinality(UpTo(s, x)) \in 0..Len(s)
          /\ Cardinality(Below(s, v)) \in 0..Len(s)
      BY <1>1, <1>4, Ranks
    <3>4. k <= Cardinality(UpTo(s, x))
      BY <2>3 DEF Here
    <3> HIDE DEF k
    <3> QED  BY <1>1, <2>2, <3>2, <3>3, <3>4
  <2>6. ASSUME v < x PROVE FALSE
    <3>1. UpTo(s, v) \in SUBSET Below(s, x)
      <4> SUFFICES ASSUME NEW l \in DOMAIN s, s[l] <= v PROVE s[l] < x
        BY DEF Below, UpTo
      <4> HIDE DEF v
      <4> QED  BY <2>1, <2>4, <2>6
    <3>2. k <= Cardinality(Below(s, x))
      BY <1>1, <1>4, <3>1, Ranks
    <3>3. Cardinality(Below(s, x)) \in 0..Len(s)
      BY <1>1, <1>4, Ranks
    <3>4. Cardinality(Below(s, x)) < k
      BY <2>3 DEF Here
    <3> HIDE DEF k
    <3> QED  BY <1>1, <2>2, <3>2, <3>3, <3>4
  <2>7. x = v
    <3> HIDE DEF v
    <3> QED  BY <2>1, <2>4, <2>5, <2>6
  <2> QED  BY <1>6, <2>2, <2>7 DEF ToSet, x
<1> QED  BY <1>6, <1>7, <1>8 DEF ToSet

(* Without the bare endpoints in it, the sorted list is what was there.     *)
LEMMA SubsliceKeeps ==
  ASSUME NEW T \in SUBSET Nat, NEW s \in Seq(T), NEW e
  PROVE  /\ subslice(s, <<e>>) \in Seq(T)
         /\ ToSet(subslice(s, <<e>>)) \subseteq ToSet(s)
         /\ ToSet(s) \subseteq ToSet(subslice(s, <<e>>)) \cup {e}
<1> DEFINE IsLoop(f) == f = [n \in 0..Len(<<e>>) |->
                               IF n = 0 THEN Sorted(s)
                               ELSE RemoveFirst(f[n - 1], <<e>>[n])]
           g == [n \in 0..1 |-> IF n = 0 THEN Sorted(s)
                               ELSE RemoveFirst(Sorted(s), e)]
           h == CHOOSE f : IsLoop(f)
<1>1. IsLoop(g)
  <2>1. \A n \in 0..1 : g[n] = IF n = 0 THEN Sorted(s)
                               ELSE RemoveFirst(g[n - 1], <<e>>[n])
    <3>1. g[0] = Sorted(s) /\ g[1] = RemoveFirst(Sorted(s), e)
      OBVIOUS
    <3>2. <<e>>[1] = e /\ \A n \in 0..1 : n = 0 \/ (n = 1 /\ n - 1 = 0)
      OBVIOUS
    <3> HIDE DEF g
    <3> QED  BY <3>1, <3>2
  <2>2. g = [n \in 0..1 |-> g[n]]
    OBVIOUS
  <2>3. Len(<<e>>) = 1
    OBVIOUS
  <2> HIDE DEF g
  <2> QED  BY <2>1, <2>2, <2>3
<1>2. IsLoop(h)
  <2> HIDE DEF g
  <2> QED  BY <1>1
<1>3. subslice(s, <<e>>) = h[Len(<<e>>)]
  BY DEF subslice
<1> HIDE DEF h
<1>4. h[1] = RemoveFirst(h[0], e) /\ h[0] = Sorted(s) /\ Len(<<e>>) = 1
  BY <1>2
<1> QED  BY <1>3, <1>4, SortedKeeps, RemoveFirstKeeps

(* The upgrade of a configuration keeps its devices, whatever they are.     *)
LEMMA UpgradeKeeps ==
  ASSUME NEW subs \in Seq(Regs), NEW urls \in Seq(Endpoints)
  PROVE  LET up == upgradeSubscribers(subs, urls)
         IN  /\ up \in Seq(Endpoints)
             /\ ToSet(up) \ {Bare} = (ToSet(urls) \cup ToSet(subs)) \ {Bare}
<1> DEFINE all == urls \o subs
           cut == subslice(all, <<Bare>>)
<1>1. Endpoints \in SUBSET Nat
  BY PushAssumption DEF Endpoints, Bare
<1>2. subs \in Seq(Endpoints)
  <2>1. Regs \subseteq Endpoints
    BY DEF Endpoints
  <2>2. subs \in [1..Len(subs) -> Regs] /\ Len(subs) \in Nat
    OBVIOUS
  <2>3. subs \in [1..Len(subs) -> Endpoints]
    BY <2>1, <2>2
  <2> QED  BY <2>2, <2>3
<1>3. all \in Seq(Endpoints) /\ ToSet(all) = ToSet(urls) \cup ToSet(subs)
  <2>1. all \in Seq(Endpoints)
    BY <1>2
  <2>2. /\ Len(urls) \in Nat /\ Len(subs) \in Nat
        /\ DOMAIN urls = 1..Len(urls) /\ DOMAIN subs = 1..Len(subs)
        /\ DOMAIN all = 1..(Len(urls) + Len(subs))
        /\ \A i \in DOMAIN all :
              all[i] = IF i <= Len(urls) THEN urls[i] ELSE subs[i - Len(urls)]
    BY <1>2
  <2> HIDE DEF all
  <2>3. \A i \in DOMAIN urls : i \in DOMAIN all /\ all[i] = urls[i]
    BY <2>2
  <2>4. \A i \in DOMAIN subs : /\ i + Len(urls) \in DOMAIN all
                              /\ all[i + Len(urls)] = subs[i]
    BY <2>2
  <2>5. \A i \in DOMAIN all : \/ i \in DOMAIN urls /\ all[i] = urls[i]
                             \/ /\ i - Len(urls) \in DOMAIN subs
                                /\ all[i] = subs[i - Len(urls)]
    BY <2>2
  <2> QED  BY <2>1, <2>3, <2>4, <2>5 DEF ToSet
<1> HIDE DEF all
<1>4. /\ cut \in Seq(Endpoints)
      /\ ToSet(cut) \subseteq ToSet(all)
      /\ ToSet(all) \subseteq ToSet(cut) \cup {Bare}
  BY <1>1, <1>3, SubsliceKeeps
<1>5. upgradeSubscribers(subs, urls) = unique(cut)
  BY DEF upgradeSubscribers, all
<1> HIDE DEF cut
<1> QED  BY <1>3, <1>4, <1>5, UniqueKeeps

-----------------------------------------------------------------------------
(* What a handler and its task hold.                                        *)
NotifyTask == [kind : {"notify"}, n : Nat]
UserTask   == [kind : {"ping-user"}, uid : Users, n : Nat]
MatchTask  == [kind : {"match"}, uid : Users, n : Nat, urls : Seq(Endpoints)]
ScheduleTask ==
  [kind : {"schedule"}, uid : Users, n : Nat, rest : SUBSET Endpoints, i : Nat]
DeviceTask ==
  [kind : {"ping-device", "delete"}, uid : Users, url : Endpoints, n : Nat]
UpdateTask ==
  [kind : {"update"}, uid : Users, url : Regs, n : Nat, nurl : Regs]

Task == NotifyTask \cup UserTask \cup MatchTask \cup ScheduleTask
          \cup DeviceTask \cup UpdateTask

(* A handler that is past ReadPushInfo has a user without registration IDs: *)
(* deletePushEndpoint takes none of them with the endpoint.  It only takes  *)
(* what is gone, and updatePushEndpoint what GCM has replaced for good.     *)
Grounded(t) ==
  /\ t.kind \in {"match", "schedule", "ping-device", "delete", "update"} =>
       info[t.uid].subs = <<>>
  /\ t.kind = "delete" => t.url \in gone \cup {Bare}
  /\ t.kind = "update" => t.nurl = canon[t.url] /\ canon[t.url] # t.url

(* Inductive.                                                               *)
Inv ==
  /\ TypeOK
  /\ \A t \in tasks : t \in Task /\ Grounded(t)

(* What no step takes back.                                                 *)
Lasts ==
  /\ \A u \in Users : info[u].subs = <<>> => info'[u].subs = <<>>
  /\ gone \subseteq gone'
  /\ \A r \in Regs : canon[r] # r => canon'[r] = canon[r]
  /\ faults \in Nat /\ faults' \in Nat /\ faults <= faults'

LEMMA TaskKinds ==
  ASSUME NEW t \in Task
  PROVE  /\ t.n \in Nat
         /\ t.kind \in Kinds
         /\ t.kind = "notify" => t \in NotifyTask
         /\ t.kind = "ping-user" => t \in UserTask
         /\ t.kind = "match" => t \in MatchTask
         /\ t.kind = "schedule" => t \in ScheduleTask
         /\ t.kind \in {"ping-device", "delete"} => t \in DeviceTask
         /\ t.kind = "update" => t \in UpdateTask
         /\ t.kind # "notify" => t.uid \in Users
BY DEF Task, NotifyTask, UserTask, MatchTask, ScheduleTask, DeviceTask,
       UpdateTask, Kinds

(* What a task relies on stays.                                             *)
LEMMA GroundedStays ==
  ASSUME NEW t \in Task, Grounded(t), Lasts
  PROVE  Grounded(t)'
<1>1. t' = t
  OBVIOUS
<1>2. CASE t.kind \in {"match", "schedule", "ping-device", "delete"}
  BY <1>2, TaskKinds DEF Grounded, Lasts
<1>3. CASE t.kind = "update"
  <2>1. t.uid \in Users /\ t.url \in Regs
    BY <1>3, TaskKinds DEF UpdateTask
  <2> QED  BY <1>3, <2>1 DEF Grounded, Lasts
<1>4. CASE t.kind \notin {"match", "schedule", "ping-device", "delete",
                         "update"}
  BY <1>4 DEF Grounded
<1> QED  BY <1>2, <1>3, <1>4

(* A step has to show its new tasks.                                        *)
LEMMA TasksStay ==
  ASSUME Inv, Lasts, NEW more, tasks' \subseteq tasks \cup more,
         \A t \in more : t \in Task /\ Grounded(t)' /\ t.n <= faults'
  PROVE  \A t \in tasks' : /\ t \in Task /\ Grounded(t)'
                         /\ t.kind \in Kinds /\ t.n \in 0..faults'
<1> TAKE t \in tasks'
<1>1. CASE t \in more
  <2>1. t.n \in Nat /\ t.kind \in Kinds
    BY <1>1, TaskKinds
  <2> QED  BY <1>1, <2>1 DEF Lasts
<1>2. CASE t \in tasks
  <2>1. t \in Task /\ Grounded(t) /\ t.kind \in Kinds /\ t.n \in 0..faults
    BY <1>2 DEF Inv, TypeOK
  <2>2. t.n \in 0..faults'
    BY <2>1 DEF Lasts
  <2> QED  BY <2>1, <2>2, GroundedStays
<1> QED  BY <1>1, <1>2

(* A task that is queued again.                                             *)
LEMMA QueuedFits ==
  ASSUME NEW t \in Task, Grounded(t)', NEW k \in Nat, t.n + 1 <= k
  PROVE  /\ Queued(t) \in Task
         /\ Grounded(Queued(t))'
         /\ Queued(t).n <= k
<1>1. CASE t.kind = "notify"
  <2>1. t \in NotifyTask
    BY <1>1, TaskKinds
  <2>2. Queued(t) = [kind |-> "notify", n |-> t.n + 1]
    BY <1>1, <2>1 DEF Queued, NotifyTask
  <2> QED  BY <2>1, <2>2 DEF Task, NotifyTask, Grounded
<1>2. CASE t.kind \in {"ping-user", "match", "schedule"}
  <2>1. t.uid \in Users /\ t.n \in Nat
    BY <1>2, TaskKinds
  <2>2. Queued(t) = [kind |-> "ping-user", uid |-> t.uid, n |-> t.n + 1]
    BY <1>2 DEF Queued, PingUser
  <2> QED  BY <2>1, <2>2 DEF Task, UserTask, Grounded
<1>3. CASE t.kind \in {"ping-device", "update", "delete"}
  <2>1. t.uid \in Users /\ t.n \in Nat /\ t.url \in Endpoints
    BY <1>3, TaskKinds DEF DeviceTask, UpdateTask, Endpoints
  <2>2. Queued(t) = [kind |-> "ping-device", uid |-> t.uid, url |-> t.url,
                     n |-> t.n + 1]
    BY <1>3 DEF Queued, PingDevice
  <2>3. (info[t.uid].subs = <<>>)'
    BY <1>3 DEF Grounded
  <2>4. Queued(t) \in DeviceTask
    BY <2>1, <2>2 DEF DeviceTask
  <2>5. Grounded(Queued(t))'
    BY <2>2, <2>3 DEF Grounded
  <2> QED  BY <2>2, <2>4, <2>5 DEF Task
<1> QED  BY <1>1, <1>2, <1>3, TaskKinds DEF Kinds

-----------------------------------------------------------------------------
(* The steps                                                                *)

(* DevicesAreKept, of a step.                                               *)
Kept ==
  \A u \in Users : \A e \in Devices(info[u]) \ Devices(info'[u]) :
     \/ e \in gone
     \/ e \in Regs /\ canon[e] # e /\ canon[e] \in Devices(info'[u])

Counted == \/ faults' = faults
           \/ faults < MaxFaults /\ faults' = faults + 1

LEMMA InvInit == Init => Inv
<1> SUFFICES ASSUME Init PROVE Inv
  OBVIOUS
<1>1. info \in [Users -> userPush]
  BY PushAssumption DEF Init
<1>2. 0 \in 0..MaxFaults /\ 0 \in 0..0
  BY PushAssumption
<1>3. canon \in [Regs -> Regs] /\ gone = {} /\ pinged = {}
  BY DEF Init
<1> DEFINE t == [kind |-> "notify", n |-> 0]
<1>4. tasks = {t} /\ t \in NotifyTask /\ t.kind = "notify" /\ t.n = 0
  BY DEF Init, NotifyTask
<1> HIDE DEF t
<1>5. t \in Task /\ Grounded(t)
  BY <1>4 DEF Task, Grounded
<1> QED  BY <1>1, <1>2, <1>3, <1>4, <1>5 DEF Init, Inv, TypeOK, Kinds

(* Steps that leave the configurations alone.                               *)
LEMMA QuietStep ==
  ASSUME Inv, Counted, UNCHANGED <<info, index, pinged, service>>,
         NEW more, tasks' \subseteq tasks \cup more,
         \A m \in more : m \in Task /\ Grounded(m)' /\ m.n <= faults'
  PROVE  Inv' /\ Kept
<1>1. faults \in 0..MaxFaults /\ faults' \in 0..MaxFaults /\ faults <= faults'
  BY PushAssumption DEF Inv, TypeOK, Counted
<1>2. Lasts
  BY <1>1 DEF Lasts, service
<1>3. \A m \in tasks' : /\ m \in Task /\ Grounded(m)'
                       /\ m.kind \in Kinds /\ m.n \in 0..faults'
  BY <1>2, TasksStay
<1>4. Inv'
  BY <1>1, <1>3 DEF Inv, TypeOK, service
<1>5. Kept
  BY DEF Kept
<1> QED  BY <1>4, <1>5

(* A task that stays where it is may be queued again.                       *)
LEMMA AgainFits ==
  ASSUME Inv, NEW t \in tasks, Lasts, NEW f, Fault(f)
  PROVE  Queued(t) \in Task /\ Grounded(Queued(t))' /\ Queued(t).n <= faults'
<1>1. t \in Task /\ Grounded(t) /\ t.n \in 0..faults
  BY DEF Inv, TypeOK
<1>2. faults' \in Nat /\ t.n + 1 <= faults'
  BY <1>1 DEF Fault, Lasts
<1>3. Grounded(t)'
  BY <1>1, GroundedStays
<1> QED  BY <1>1, <1>2, <1>3, QueuedFits

LEMMA CountedFaults ==
  ASSUME Inv
  PROVE  /\ NoFault => Counted
         /\ \A f : Fault(f) => Counted
         /\ Counted /\ UNCHANGED <<info, service>> => Lasts
<1>1. faults \in 0..MaxFaults /\ MaxFaults \in Nat
  BY PushAssumption DEF Inv, TypeOK
<1> QED  BY <1>1 DEF NoFault, Fault, Counted, Lasts, service

LEMMA DropStep ==
  ASSUME Inv, NEW t \in tasks, Drop(t)
  PROVE  Inv' /\ Kept
<1>1. Counted /\ UNCHANGED <<info, index, pinged, service>>
  BY CountedFaults DEF Drop
<1> DEFINE more == {}
<1>2. tasks' \subseteq tasks \cup more
  BY DEF Drop, Done
<1>3. \A m \in more : m \in Task /\ Grounded(m)' /\ m.n <= faults'
  OBVIOUS
<1> HIDE DEF more
<1> QED  BY <1>1, <1>2, <1>3, QuietStep

LEMMA CrashStep ==
  ASSUME Inv, NEW t \in tasks, Crash(t)
  PROVE  Inv' /\ Kept
<1>1. Counted /\ UNCHANGED <<info, index, pinged, service>> /\ Lasts
  BY CountedFaults DEF Crash
<1> DEFINE more == {Queued(t)}
<1>2. tasks' \subseteq tasks \cup more
  BY DEF Crash, Again, Done
<1>3. Queued(t) \in Task /\ Grounded(Queued(t))' /\ Queued(t).n <= faults'
  BY <1>1, AgainFits DEF Crash
<1>4. \A m \in more : m \in Task /\ Grounded(m)' /\ m.n <= faults'
  BY <1>3
<1> HIDE DEF more
<1> QED  BY <1>1, <1>2, <1>4, QuietStep

LEMMA PingUserFits ==
  ASSUME NEW u \in Users, faults' \in Nat
  PROVE  /\ PingUser(u) \in Task /\ Grounded(PingUser(u))'
         /\ PingUser(u).n <= faults'
BY DEF PingUser, Task, UserTask, Grounded

LEMMA NotifyStep ==
  ASSUME Inv, NEW t \in tasks, NotifySubscribers(t)
  PROVE  Inv' /\ Kept
<1> DEFINE Pings == {PingUser(u) : u \in Users}
<1>1. UNCHANGED <<info, index, pinged, service>> /\ index \subseteq Users
  BY DEF NotifySubscribers, Inv, TypeOK
<1>2. Counted /\ Lasts /\ faults' \in Nat
  <2>1. NoFault \/ \E f : Fault(f)
    BY DEF NotifySubscribers
  <2> QED  BY <1>1, <2>1, CountedFaults DEF Lasts
<1>3. \A m \in Pings : m \in Task /\ Grounded(m)' /\ m.n <= faults'
  BY <1>2, PingUserFits
<1>4. CASE tasks' \subseteq tasks \cup Pings
  <2> HIDE DEF Pings
  <2> QED  BY <1>1, <1>2, <1>3, <1>4, QuietStep
<1>5. CASE /\ tasks' \subseteq tasks \cup (Pings \cup {Queued(t)})
           /\ \E f : Fault(f)
  <2>1. Queued(t) \in Task /\ Grounded(Queued(t))' /\ Queued(t).n <= faults'
    BY <1>2, <1>5, AgainFits
  <2>2. \A m \in Pings \cup {Queued(t)} :
           m \in Task /\ Grounded(m)' /\ m.n <= faults'
    <3> HIDE DEF Pings
    <3> QED  BY <1>3, <2>1
  <2> HIDE DEF Pings
  <2> QED  BY <1>1, <1>2, <1>5, <2>2, QuietStep
<1>6. \/ tasks' \subseteq tasks \cup Pings
      \/ /\ tasks' \subseteq tasks \cup (Pings \cup {Queued(t)})
         /\ \E f : Fault(f)
  <2>1. \A U \in SUBSET index : {PingUser(u) : u \in U} \subseteq Pings
    BY <1>1
  <2> HIDE DEF Pings
  <2>2. CASE Done(t, {PingUser(u) : u \in index})
    BY <2>1, <2>2 DEF Done
  <2>3. CASE \E U \in SUBSET index : Done(t, {PingUser(u) : u \in U})
    BY <2>1, <2>3 DEF Done
  <2>4. CASE Fault("rpc") /\ Again(t)
    BY <2>4 DEF Again, Done
  <2>5. CASE /\ Fault("crash")
             /\ \E U \in SUBSET index :
                  Done(t, {PingUser(u) : u \in U} \cup {Queued(t)})
    BY <2>1, <2>5 DEF Done
  <2> QED  BY <2>2, <2>3, <2>4, <2>5 DEF NotifySubscribers
<1> QED  BY <1>4, <1>5, <1>6

LEMMA MatchStep ==
  ASSUME Inv, NEW t \in tasks, MatchBookmarks(t)
  PROVE  Inv' /\ Kept
<1> DEFINE m == Scheduling(t, ToSet(t.urls), 1)
<1>1. /\ t.kind = "match" /\ t \in MatchTask /\ Grounded(t)
      /\ t.n \in 0..faults
  BY TaskKinds DEF MatchBookmarks, Inv, TypeOK
<1>2. UNCHANGED <<info, index, pinged, service>>
  BY DEF MatchBookmarks
<1>3. Counted /\ Lasts
  <2>1. NoFault \/ \E f : Fault(f)
    BY DEF MatchBookmarks
  <2> QED  BY <1>2, <2>1, CountedFaults
<1>4. m \in Task /\ Grounded(m)' /\ m.n <= faults'
  <2>1. t.uid \in Users /\ t.n \in Nat /\ t.urls \in Seq(Endpoints)
    BY <1>1 DEF MatchTask
  <2>2. ToSet(t.urls) \in SUBSET Endpoints
    BY <2>1 DEF ToSet
  <2>3. m \in ScheduleTask
    BY <2>1, <2>2 DEF ScheduleTask, Scheduling
  <2>4. (info[t.uid].subs = <<>>)'
    BY <1>1, <1>2 DEF Grounded
  <2>5. m.kind = "schedule" /\ m.uid = t.uid /\ m.n = t.n
    BY DEF Scheduling
  <2> HIDE DEF m
  <2>6. m.n <= faults'
    BY <1>1, <1>3, <2>5 DEF Lasts
  <2> QED  BY <2>3, <2>4, <2>5, <2>6 DEF Task, Grounded
<1> HIDE DEF m
<1>5. CASE tasks' \subseteq tasks \cup {m}
  <2> DEFINE more == {m}
  <2>1. \A x \in more : x \in Task /\ Grounded(x)' /\ x.n <= faults'
    BY <1>4
  <2>2. tasks' \subseteq tasks \cup more
    BY <1>5
  <2> HIDE DEF more
  <2> QED  BY <1>2, <1>3, <2>1, <2>2, QuietStep
<1>6. CASE tasks' \subseteq tasks \cup {Queued(t)} /\ \E f : Fault(f)
  <2> DEFINE more == {Queued(t)}
  <2>1. \A x \in more : x \in Task /\ Grounded(x)' /\ x.n <= faults'
    BY <1>3, <1>6, AgainFits
  <2>2. tasks' \subseteq tasks \cup more
    BY <1>6
  <2> HIDE DEF more
  <2> QED  BY <1>2, <1>3, <2>1, <2>2, QuietStep
<1>7. \/ tasks' \subseteq tasks \cup {m}
      \/ tasks' \subseteq tasks \cup {Queued(t)} /\ \E f : Fault(f)
  BY DEF MatchBookmarks, Again, Done, m
<1> QED  BY <1>5, <1>6, <1>7

LEMMA PingDeviceFits ==
  ASSUME NEW u \in Users, NEW e \in Endpoints, faults' \in Nat,
         (info[u].subs = <<>>)'
  PROVE  /\ PingDevice(u, e) \in Task /\ Grounded(PingDevice(u, e))'
         /\ PingDevice(u, e).n <= faults'
<1>1. PingDevice(u, e) \in DeviceTask
  BY DEF PingDevice, DeviceTask
<1> QED  BY <1>1 DEF PingDevice, Task, Grounded

LEMMA ScheduleStep ==
  ASSUME Inv, NEW t \in tasks, SchedulePings(t)
  PROVE  Inv' /\ Kept
<1> DEFINE Left(E) == Scheduling(t, E, t.i + 1)
           more == {PingDevice(t.uid, e) : e \in t.rest}
                     \cup {Left(E) : E \in SUBSET t.rest}
<1>1. /\ t.kind = "schedule" /\ t \in ScheduleTask /\ Grounded(t)
      /\ t.n \in 0..faults
  BY TaskKinds DEF SchedulePings, Inv, TypeOK
<1>2. UNCHANGED <<info, index, pinged, service>>
  BY DEF SchedulePings
<1>3. Counted /\ Lasts
  <2>1. NoFault \/ \E f : Fault(f)
    BY DEF SchedulePings
  <2> QED  BY <1>2, <2>1, CountedFaults
<1>4. /\ t.uid \in Users /\ t.rest \subseteq Endpoints
      /\ (info[t.uid].subs = <<>>)'
  BY <1>1, <1>2 DEF ScheduleTask, Grounded
<1>5. ASSUME NEW E \in SUBSET t.rest
      PROVE  /\ Left(E) \in Task /\ Grounded(Left(E))'
             /\ Left(E).n <= faults'
  <2>1. /\ Left(E) \in ScheduleTask
        /\ Left(E).kind = "schedule" /\ Left(E).uid = t.uid
        /\ Left(E).n = t.n
    <3>1. t.i \in Nat /\ t.i + 1 \in Nat /\ E \subseteq Endpoints /\ t.n \in Nat
      BY <1>1, <1>4 DEF ScheduleTask
    <3> QED  BY <1>4, <3>1 DEF ScheduleTask, Scheduling
  <2> HIDE DEF Left
  <2>2. Left(E).n <= faults'
    BY <1>1, <1>3, <2>1 DEF Lasts
  <2> QED  BY <1>4, <2>1, <2>2 DEF Task, Grounded
<1>6. \A e \in t.rest :
        /\ PingDevice(t.uid, e) \in Task /\ Grounded(PingDevice(t.uid, e))'
        /\ PingDevice(t.uid, e).n <= faults'
  BY <1>3, <1>4, PingDeviceFits DEF Lasts
<1>7. \A m \in more : m \in Task /\ Grounded(m)' /\ m.n <= faults'
  <2> HIDE DEF Left
  <2> QED  BY <1>5, <1>6
<1>8. tasks' \subseteq tasks \cup more
  <2> HIDE DEF Left
  <2>1. CASE Done(t, {PingDevice(t.uid, e) : e \in t.rest})
    BY <2>1 DEF Done
  <2>2. CASE \E left \in SUBSET t.rest \ {{}} :
               Done(t, {PingDevice(t.uid, e) : e \in t.rest \ left} \cup
                       (IF t.i < Schedules THEN {Left(left)} ELSE {}))
    BY <2>2 DEF Done
  <2>3. CASE Done(t, {})
    BY <2>3 DEF Done
  <2> QED  BY <2>1, <2>2, <2>3 DEF SchedulePings, Left
<1> HIDE DEF more
<1> QED  BY <1>2, <1>3, <1>7, <1>8, QuietStep

(* Steps that change the configurations.                                    *)
LEMMA InfoStep ==
  ASSUME Inv, Counted, UNCHANGED <<index, service>>,
         info' \in [Users -> userPush],
         \A u \in Users : info[u].subs = <<>> => info'[u].subs = <<>>,
         pinged' \subseteq Users \X (Endpoints \ {Bare}),
         NEW more, tasks' \subseteq tasks \cup more,
         \A m \in more : m \in Task /\ Grounded(m)' /\ m.n <= faults'
  PROVE  Inv'
<1>1. faults \in 0..MaxFaults /\ faults' \in 0..MaxFaults /\ faults <= faults'
  BY PushAssumption DEF Inv, TypeOK, Counted
<1>2. Lasts
  BY <1>1 DEF Lasts, service
<1>3. \A m \in tasks' : /\ m \in Task /\ Grounded(m)'
                       /\ m.kind \in Kinds /\ m.n \in 0..faults'
  BY <1>2, TasksStay
<1> QED  BY <1>1, <1>3 DEF Inv, TypeOK, service

LEMMA ReadStep ==
  ASSUME Inv, NEW t \in tasks, ReadPushInfo(t)
  PROVE  Inv' /\ Kept
<1> DEFINE pi == info[t.uid]
           up == IF pi.subs = <<>> THEN pi
                 ELSE [pi EXCEPT !.urls = upgradeSubscribers(pi.subs, pi.urls),
                                 !.subs = <<>>]
           m == [kind |-> "match", uid |-> t.uid, n |-> t.n, urls |-> up.urls]
<1>1. /\ t.kind = "ping-user" /\ t.uid \in Users /\ t \in Task
      /\ t.n \in 0..faults /\ info \in [Users -> userPush]
      /\ pi \in userPush
  BY TaskKinds DEF ReadPushInfo, Starting, Inv, TypeOK
<1>2. UNCHANGED <<index, pinged, service>>
  BY DEF ReadPushInfo
<1>3. Counted /\ faults \in Nat
  <2>1. NoFault \/ \E f : Fault(f)
    BY DEF ReadPushInfo
  <2> QED  BY <2>1, CountedFaults DEF Inv, TypeOK
<1>4. CASE Fault("rpc") /\ Again(t) /\ UNCHANGED info
  <2> DEFINE more == {Queued(t)}
  <2>1. Lasts
    BY <1>2, <1>3, <1>4, CountedFaults
  <2>2. \A x \in more : x \in Task /\ Grounded(x)' /\ x.n <= faults'
    BY <1>4, <2>1, AgainFits
  <2>3. tasks' \subseteq tasks \cup more
    BY <1>4 DEF Again, Done
  <2> HIDE DEF more
  <2> QED  BY <1>2, <1>3, <1>4, <2>2, <2>3, QuietStep
<1>5. CASE /\ info' = [info EXCEPT ![t.uid] = up]
           /\ Done(t, IF up.on THEN {m} ELSE {})
  <2>1. /\ up \in userPush /\ up.subs = <<>>
        /\ Devices(pi) = Devices(up)
    <3>1. /\ pi.subs \in Seq(Regs) /\ pi.urls \in Seq(Endpoints)
          /\ pi.on \in BOOLEAN
      BY <1>1 DEF userPush
    <3>2. CASE pi.subs = <<>>
      BY <1>1, <3>2
    <3>3. CASE pi.subs # <<>>
      <4> DEFINE urls == upgradeSubscribers(pi.subs, pi.urls)
      <4>1. /\ urls \in Seq(Endpoints)
            /\ ToSet(urls) \ {Bare} =
                 (ToSet(pi.urls) \cup ToSet(pi.subs)) \ {Bare}
        BY <3>1, UpgradeKeeps
      <4>2. up = [pi EXCEPT !.urls = urls, !.subs = <<>>]
        BY <3>3
      <4> HIDE DEF urls, pi
      <4>3. up = [on |-> pi.on, urls |-> urls, subs |-> <<>>]
        BY <1>1, <4>2 DEF userPush
      <4> HIDE DEF up
      <4>4. up \in userPush
        BY <3>1, <4>1, <4>3 DEF userPush
      <4>5. ToSet(up.subs) = {} /\ up.urls = urls
        BY <4>3 DEF ToSet
      <4> QED  BY <4>1, <4>3, <4>4, <4>5 DEF Devices
    <3> QED  BY <3>2, <3>3
  <2>0. PICK new : new = m
    OBVIOUS
  <2> DEFINE more == {new}
  <2>2. tasks' \subseteq tasks \cup more
    <3> HIDE DEF m
    <3> QED  BY <1>5, <2>0 DEF Done
  <2> HIDE DEF up
  <2>3. /\ info' \in [Users -> userPush]
        /\ info'[t.uid] = up
        /\ \A u \in Users : u # t.uid => info'[u] = info[u]
    BY <1>1, <1>5, <2>1
  <2>4. \A u \in Users : /\ info[u].subs = <<>> => info'[u].subs = <<>>
                        /\ Devices(info[u]) = Devices(info'[u])
    BY <2>1, <2>3
  <2>5. new \in Task /\ Grounded(new)' /\ new.n <= faults'
    <3>1. t.n \in Nat /\ t.n <= faults' /\ up.urls \in Seq(Endpoints)
      BY <1>1, <1>3, <2>1 DEF Counted, userPush
    <3>2. new \in MatchTask
      BY <1>1, <2>0, <3>1 DEF MatchTask
    <3>3. new.kind = "match" /\ new.uid = t.uid /\ new.n = t.n
      BY <2>0
    <3> QED  BY <2>1, <2>3, <3>1, <3>2, <3>3 DEF Task, Grounded
  <2>6. pinged' \subseteq Users \X (Endpoints \ {Bare})
    BY <1>2 DEF Inv, TypeOK
  <2>7. \A x \in more : x \in Task /\ Grounded(x)' /\ x.n <= faults'
    BY <2>5
  <2> HIDE DEF more
  <2>8. Inv'
    BY <1>2, <1>3, <2>2, <2>3, <2>4, <2>6, <2>7, InfoStep
  <2> QED  BY <2>4, <2>8 DEF Kept
<1> QED  BY <1>4, <1>5 DEF ReadPushInfo

LEMMA PushStep ==
  ASSUME Inv, NEW t \in tasks, Push(t)
  PROVE  Inv' /\ Kept
<1> DEFINE del == [t EXCEPT !.kind = "delete"]
           upd == [kind |-> "update", uid |-> t.uid, url |-> t.url, n |-> t.n,
                   nurl |-> canon[t.url]]
<1>1. /\ t.kind = "ping-device" /\ t \in DeviceTask /\ t \in Task /\ Grounded(t)
      /\ t.n \in 0..faults /\ canon \in [Regs -> Regs]
      /\ t.uid \in Users /\ t.url \in Endpoints /\ t.n \in Nat
      /\ info \in [Users -> userPush]
  <2>1. t.kind = "ping-device" /\ t \in DeviceTask
    BY TaskKinds DEF Push, Starting, Inv
  <2> QED  BY <2>1 DEF Inv, TypeOK, DeviceTask
<1>2. UNCHANGED <<info, index, service>> /\ gone' = gone /\ canon' = canon
  BY DEF Push, service
<1>3. Counted /\ Lasts /\ faults' \in Nat /\ t.n <= faults'
  <2>1. NoFault \/ \E f : Fault(f)
    BY DEF Push
  <2>2. Counted /\ Lasts
    BY <1>2, <2>1, CountedFaults
  <2> QED  BY <1>1, <2>2 DEF Lasts
<1>4. (info[t.uid].subs = <<>>)'
  BY <1>1, <1>2 DEF Grounded
<1>5. pinged' \subseteq Users \X (Endpoints \ {Bare})
  <2>1. pinged \subseteq Users \X (Endpoints \ {Bare})
    BY DEF Inv, TypeOK
  <2>2. \/ pinged' = pinged
        \/ /\ pinged' = pinged \cup {<<t.uid, t.url>>}
           /\ t.url # Bare
    BY DEF Push
  <2> QED  BY <1>1, <2>1, <2>2
<1>6. PICK new : /\ tasks' \subseteq tasks \cup {new}
                 /\ new \in Task /\ Grounded(new)' /\ new.n <= faults'
  <2>1. PICK rest : tasks' = (tasks \ {t}) \cup rest
    BY DEF Push, Done, Again
  <2>2. CASE t.url \in gone \cup {Bare} /\ Done(t, {del})
    <3>1. del = [kind |-> "delete", uid |-> t.uid, url |-> t.url, n |-> t.n]
      BY <1>1 DEF DeviceTask
    <3> HIDE DEF del
    <3>2. del \in DeviceTask
      BY <1>1, <3>1 DEF DeviceTask
    <3>3. /\ del.kind = "delete" /\ del.uid = t.uid
          /\ del.url = t.url /\ del.n = t.n
      BY <3>1
    <3>4. del \in Task /\ Grounded(del)' /\ del.n <= faults'
      BY <1>2, <1>3, <1>4, <2>2, <3>2, <3>3 DEF Task, Grounded
    <3> QED  BY <2>2, <3>4 DEF Done
  <2>3. CASE /\ t.url \in Regs /\ canon[t.url] # t.url
             /\ Done(t, {upd})
    <3>1. PICK new : new = upd
      OBVIOUS
    <3>2. new \in UpdateTask
      BY <1>1, <2>3, <3>1 DEF UpdateTask
    <3>3. /\ new.kind = "update" /\ new.uid = t.uid /\ new.url = t.url
          /\ new.n = t.n /\ new.nurl = canon[t.url]
      BY <3>1
    <3>4. new \in Task /\ Grounded(new)' /\ new.n <= faults'
      BY <1>2, <1>3, <1>4, <2>3, <3>2, <3>3 DEF Task, Grounded
    <3> HIDE DEF upd
    <3> QED  BY <2>3, <3>1, <3>4 DEF Done
  <2>4. CASE Done(t, {})
    <3>1. Grounded(t)'
      BY <1>1, <1>3, GroundedStays
    <3> QED  BY <1>1, <1>3, <2>4, <3>1 DEF Done
  <2>5. CASE Done(t, {PingDevice(t.uid, t.url)})
    BY <1>1, <1>3, <1>4, <2>5, PingDeviceFits DEF Done
  <2>6. CASE (\E f : Fault(f)) /\ Again(t)
    BY <1>3, <2>6, AgainFits DEF Again, Done
  <2>7. \/ t.url \in gone \cup {Bare} /\ Done(t, {del})
        \/ t.url \in Regs /\ canon[t.url] # t.url /\ Done(t, {upd})
        \/ Done(t, {})
        \/ Done(t, {PingDevice(t.uid, t.url)})
        \/ (\E f : Fault(f)) /\ Again(t)
    <3> HIDE DEF del, upd
    <3> QED  BY DEF Push, del, upd
  <2> HIDE DEF del, upd
  <2> QED  BY <2>2, <2>3, <2>4, <2>5, <2>6, <2>7
<1> DEFINE more == {new}
<1>7. /\ tasks' \subseteq tasks \cup more
      /\ \A x \in more : x \in Task /\ Grounded(x)' /\ x.n <= faults'
  BY <1>6
<1> HIDE DEF more
<1>8. Inv'
  BY <1>1, <1>2, <1>3, <1>5, <1>7, InfoStep
<1> QED  BY <1>2, <1>8 DEF Kept

(* Replacing an item keeps the others.                                      *)
LEMMA ReplaceAtKeeps ==
  ASSUME NEW T, NEW s \in Seq(T), NEW i \in 1..Len(s), NEW e \in T
  PROVE  /\ ReplaceAt(s, i, e) \in Seq(T)
         /\ e \in ToSet(ReplaceAt(s, i, e))
         /\ ToSet(s) \subseteq ToSet(ReplaceAt(s, i, e)) \cup {s[i]}
<1> DEFINE r == ReplaceAt(s, i, e)
<1>1. /\ r \in Seq(T) /\ DOMAIN r = DOMAIN s /\ r[i] = e /\ i \in DOMAIN s
      /\ \A j \in DOMAIN s : j # i => r[j] = s[j]
  BY DEF ReplaceAt
<1> HIDE DEF r
<1>2. e \in ToSet(r) /\ ToSet(s) \subseteq ToSet(r) \cup {s[i]}
  BY <1>1 DEF ToSet
<1> QED  BY <1>1, <1>2 DEF r

(* A step of a handler that ends it, and changes its user at most.          *)
LEMMA UserStep ==
  ASSUME Inv, Counted, UNCHANGED <<index, pinged, service>>,
         tasks' \subseteq tasks,
         NEW u \in Users, NEW pi \in userPush,
         info' = [info EXCEPT ![u] = pi],
         info[u].subs = <<>> => pi.subs = <<>>
  PROVE  /\ Inv'
         /\ \A v \in Users : info'[v] = IF v = u THEN pi ELSE info[v]
<1>1. /\ info \in [Users -> userPush]
      /\ pinged \subseteq Users \X (Endpoints \ {Bare})
  BY DEF Inv, TypeOK
<1>2. /\ info' \in [Users -> userPush]
      /\ \A v \in Users : info'[v] = IF v = u THEN pi ELSE info[v]
  BY <1>1
<1>3. \A v \in Users : info[v].subs = <<>> => info'[v].subs = <<>>
  BY <1>2
<1> DEFINE more == {}
<1>4. /\ tasks' \subseteq tasks \cup more
      /\ \A m \in more : m \in Task /\ Grounded(m)' /\ m.n <= faults'
  OBVIOUS
<1> HIDE DEF more
<1>5. Inv'
  BY <1>1, <1>2, <1>3, <1>4, InfoStep
<1> QED  BY <1>2, <1>5

LEMMA UpdateStep ==
  ASSUME Inv, NEW t \in tasks, UpdatePushEndpoint(t)
  PROVE  Inv' /\ Kept
<1> DEFINE urls == info[t.uid].urls
           i    == First(urls, t.url)
<1>1. /\ t.kind = "update" /\ t \in UpdateTask /\ Grounded(t)
      /\ info \in [Users -> userPush]
      /\ t.uid \in Users /\ t.url \in Regs /\ t.nurl \in Regs
      /\ t.nurl = canon[t.url] /\ canon[t.url] # t.url
  <2>1. t.kind = "update" /\ t \in UpdateTask /\ Grounded(t)
    BY TaskKinds DEF UpdatePushEndpoint, Inv
  <2> QED  BY <2>1 DEF Inv, TypeOK, UpdateTask, Grounded
<1>2. UNCHANGED <<index, pinged, service>> /\ tasks' \subseteq tasks /\ Counted
  <2>1. NoFault \/ \E f : Fault(f)
    BY DEF UpdatePushEndpoint
  <2> QED  BY <2>1, CountedFaults DEF UpdatePushEndpoint, Done
<1>3. /\ t.nurl \in Endpoints /\ t.nurl # Bare
      /\ info[t.uid] \in userPush /\ urls \in Seq(Endpoints)
  BY <1>1, PushAssumption DEF Endpoints, userPush
<1>4. /\ i \in 0..Len(urls)
      /\ i # 0 => urls[i] = t.url
  BY <1>3, SelectFinds
<1>5. info' = info \/ (i # 0 /\
        info' = [info EXCEPT ![t.uid].urls = ReplaceAt(urls, i, t.nurl)])
  BY DEF UpdatePushEndpoint, First, SelectInSeq
<1>6. CASE info' = info
  <2> DEFINE more == {}
  <2>1. /\ tasks' \subseteq tasks \cup more
        /\ \A m \in more : m \in Task /\ Grounded(m)' /\ m.n <= faults'
    BY <1>2
  <2> HIDE DEF more
  <2> QED  BY <1>2, <1>6, <2>1, QuietStep
<1>7. CASE /\ i # 0
           /\ info' = [info EXCEPT ![t.uid].urls = ReplaceAt(urls, i, t.nurl)]
  <2> DEFINE pi == [info[t.uid] EXCEPT !.urls = ReplaceAt(urls, i, t.nurl)]
  <2>1. i \in 1..Len(urls)
    BY <1>3, <1>4, <1>7
  <2>2. /\ ReplaceAt(urls, i, t.nurl) \in Seq(Endpoints)
        /\ t.nurl \in ToSet(ReplaceAt(urls, i, t.nurl))
        /\ ToSet(urls) \subseteq ToSet(ReplaceAt(urls, i, t.nurl)) \cup {t.url}
    BY <1>3, <1>4, <1>7, <2>1, ReplaceAtKeeps
  <2>3. pi \in userPush /\ pi.subs = info[t.uid].subs
        /\ pi.urls = ReplaceAt(urls, i, t.nurl)
    <3> HIDE DEF i, urls
    <3> QED  BY <1>3, <2>2 DEF userPush
  <2>4. info' = [info EXCEPT ![t.uid] = pi]
    <3> HIDE DEF i, urls
    <3> QED  BY <1>1, <1>7
  <2> HIDE DEF pi
  <2>5. PICK new : new = pi
    OBVIOUS
  <2>6. /\ new \in userPush /\ info' = [info EXCEPT ![t.uid] = new]
        /\ info[t.uid].subs = <<>> => new.subs = <<>>
    BY <2>3, <2>4, <2>5
  <2>7. /\ Inv'
        /\ \A v \in Users : info'[v] = IF v = t.uid THEN new ELSE info[v]
    BY <1>1, <1>2, <2>6, UserStep
  <2>8. /\ t.nurl \in Devices(new)
        /\ Devices(info[t.uid]) \subseteq Devices(new) \cup {t.url}
    <3> HIDE DEF i
    <3> QED  BY <1>3, <2>2, <2>3, <2>5 DEF Devices
  <2>9. Kept
    BY <1>1, <2>7, <2>8 DEF Kept
  <2> QED  BY <2>7, <2>9
<1> HIDE DEF i, urls
<1> QED  BY <1>5, <1>6, <1>7

LEMMA DeleteStep ==
  ASSUME Inv, NEW t \in tasks, DeletePushEndpoint(t)
  PROVE  Inv' /\ Kept
<1> DEFINE urls == info[t.uid].urls
           i    == First(urls, t.url)
<1>1. /\ t.kind = "delete" /\ t \in DeviceTask /\ t.uid \in Users
      /\ info \in [Users -> userPush]
      /\ t.url \in gone \cup {Bare}
      /\ info[t.uid].subs = <<>>
  <2>1. t.kind = "delete" /\ t \in DeviceTask /\ Grounded(t)
    BY TaskKinds DEF DeletePushEndpoint, Inv
  <2> QED  BY <2>1 DEF Inv, TypeOK, DeviceTask, Grounded
<1>2. UNCHANGED <<index, pinged, service>> /\ tasks' \subseteq tasks /\ Counted
  <2>1. NoFault \/ \E f : Fault(f)
    BY DEF DeletePushEndpoint
  <2> QED  BY <2>1, CountedFaults DEF DeletePushEndpoint, Done
<1>3. info[t.uid] \in userPush /\ urls \in Seq(Endpoints)
  BY <1>1 DEF userPush
<1>4. /\ i \in 0..Len(urls)
      /\ i # 0 => urls[i] = t.url
  BY <1>3, SelectFinds
<1> DEFINE left == RemoveAt(urls, i)
           pi   == [on |-> info[t.uid].on, urls |-> left, subs |-> <<>>]
           both == [on |-> info[t.uid].on, urls |-> left,
                    subs |-> IF i <= Len(info[t.uid].subs)
                               THEN RemoveAt(info[t.uid].subs, i)
                               ELSE info[t.uid].subs]
<1>5. info' = info \/ (i # 0 /\ info' = [info EXCEPT ![t.uid] = pi])
  <2>1. CASE info' = info
    BY <2>1
  <2>2. CASE /\ i # 0
             /\ info' = [info EXCEPT ![t.uid] = both]
    <3>1. ~(i <= Len(info[t.uid].subs))
      BY <1>1, <1>3, <1>4, <2>2
    <3> HIDE DEF i, left
    <3>2. both = pi
      BY <1>3, <1>1, <3>1 DEF userPush
    <3> HIDE DEF both, pi
    <3> QED  BY <2>2, <3>2
  <2> QED  BY <2>1, <2>2 DEF DeletePushEndpoint, First, SelectInSeq
<1>6. CASE info' = info
  <2> DEFINE more == {}
  <2>1. /\ tasks' \subseteq tasks \cup more
        /\ \A m \in more : m \in Task /\ Grounded(m)' /\ m.n <= faults'
    BY <1>2
  <2> HIDE DEF more
  <2> QED  BY <1>2, <1>6, <2>1, QuietStep
<1>7. CASE i # 0 /\ info' = [info EXCEPT ![t.uid] = pi]
  <2>1. i \in 1..Len(urls)
    BY <1>3, <1>4, <1>7
  <2>2. /\ left \in Seq(Endpoints)
        /\ ToSet(urls) \subseteq ToSet(left) \cup {t.url}
    BY <1>3, <1>4, <1>7, <2>1, RemoveAtKeeps
  <2> HIDE DEF left
  <2>3. pi \in userPush /\ pi.subs = <<>> /\ pi.urls = left
    BY <1>3, <2>2 DEF userPush
  <2> HIDE DEF pi
  <2>4. PICK new : new = pi
    OBVIOUS
  <2>5. /\ new \in userPush /\ info' = [info EXCEPT ![t.uid] = new]
        /\ info[t.uid].subs = <<>> => new.subs = <<>>
    BY <1>7, <2>3, <2>4
  <2>6. /\ Inv'
        /\ \A v \in Users : info'[v] = IF v = t.uid THEN new ELSE info[v]
    BY <1>1, <1>2, <2>5, UserStep
  <2>7. Devices(info[t.uid]) \ Devices(new) \subseteq {t.url} \ {Bare}
    BY <1>1, <2>2, <2>3, <2>4 DEF Devices, ToSet
  <2>8. Kept
    BY <1>1, <2>6, <2>7 DEF Kept
  <2> QED  BY <2>6, <2>8
<1> HIDE DEF i, urls, pi, both
<1> QED  BY <1>5, <1>6, <1>7

LEMMA PatchStep ==
  ASSUME Inv, NEW u \in Users, PatchNotifySettings(u)
  PROVE  Inv' /\ Kept
<1>1. /\ info \in [Users -> userPush] /\ info[u] \in userPush
      /\ info[u].urls \in Seq(Endpoints)
  BY DEF Inv, TypeOK, userPush
<1>2. UNCHANGED <<index, pinged, service>> /\ tasks' \subseteq tasks /\ Counted
  BY DEF PatchNotifySettings, Counted
<1>3. PICK on \in BOOLEAN,
           new \in {<<>>} \cup {<<e>> : e \in Endpoints \ (gone \cup {Bare})} :
        info' = [info EXCEPT ![u] =
                   [on |-> on, subs |-> @.subs,
                    urls |-> IF ToSet(new) \subseteq ToSet(info[u].urls)
                               THEN info[u].urls ELSE info[u].urls \o new]]
  BY DEF PatchNotifySettings
<1> DEFINE urls == IF ToSet(new) \subseteq ToSet(info[u].urls) THEN info[u].urls
                   ELSE info[u].urls \o new
           pi   == [on |-> on, urls |-> urls, subs |-> info[u].subs]
<1>4. urls \in Seq(Endpoints) /\ ToSet(info[u].urls) \subseteq ToSet(urls)
  <2>1. new \in Seq(Endpoints)
    <3>1. CASE new = <<>>
      BY <3>1
    <3>2. CASE \E e \in Endpoints : new = <<e>>
      BY <3>2
    <3> QED  BY <3>1, <3>2
  <2>2. info[u].urls \o new \in Seq(Endpoints)
    BY <1>1, <2>1
  <2>3. \A i \in DOMAIN info[u].urls :
          /\ i \in DOMAIN (info[u].urls \o new)
          /\ (info[u].urls \o new)[i] = info[u].urls[i]
    BY <1>1, <2>1
  <2> QED  BY <1>1, <2>2, <2>3 DEF ToSet
<1> HIDE DEF urls
<1>5. info' = [info EXCEPT ![u] = pi]
  BY <1>1, <1>3 DEF urls
<1>6. pi \in userPush /\ pi.subs = info[u].subs /\ pi.urls = urls
  BY <1>1, <1>4 DEF userPush
<1> HIDE DEF pi
<1>7. PICK p : p = pi
  OBVIOUS
<1>8. /\ p \in userPush /\ info' = [info EXCEPT ![u] = p]
      /\ info[u].subs = <<>> => p.subs = <<>>
  BY <1>5, <1>6, <1>7
<1>9. /\ Inv'
      /\ \A v \in Users : info'[v] = IF v = u THEN p ELSE info[v]
  BY <1>2, <1>8, UserStep
<1>10. Devices(info[u]) \subseteq Devices(p)
  BY <1>4, <1>6, <1>7 DEF Devices
<1> QED  BY <1>9, <1>10 DEF Kept

LEMMA WorldStep ==
  ASSUME Inv,
         (\E u \in Users : IndexCatchesUp(u)) \/ DeviceLeaves \/ DeviceMoves
  PROVE  Inv' /\ Kept
<1>1. UNCHANGED <<info, tasks, note, pinged, faults>>
  BY DEF IndexCatchesUp, DeviceLeaves, DeviceMoves
<1>2. /\ index' \subseteq Users /\ gone' \subseteq Endpoints \ {Bare}
      /\ canon' \in [Regs -> Regs]
      /\ gone \subseteq gone'
      /\ \A r \in Regs : canon[r] # r => canon'[r] = canon[r]
  <2>1. /\ index \subseteq Users /\ gone \subseteq Endpoints \ {Bare}
        /\ canon \in [Regs -> Regs]
    BY DEF Inv, TypeOK
  <2>2. CASE \E u \in Users : IndexCatchesUp(u)
    BY <2>1, <2>2 DEF IndexCatchesUp, service
  <2>3. CASE DeviceLeaves
    BY <2>1, <2>3 DEF DeviceLeaves
  <2>4. CASE DeviceMoves
    BY <2>1, <2>4 DEF DeviceMoves
  <2> QED  BY <2>2, <2>3, <2>4
<1>3. faults \in Nat /\ Lasts
  <2>1. faults \in Nat
    BY PushAssumption DEF Inv, TypeOK
  <2> QED  BY <1>1, <1>2, <2>1 DEF Lasts
<1>4. \A t \in tasks' : t \in Task /\ Grounded(t)'
  BY <1>1, <1>3, GroundedStays DEF Inv
<1>5. TypeOK'
  BY <1>1, <1>2 DEF Inv, TypeOK
<1> QED  BY <1>1, <1>4, <1>5 DEF Inv, Kept

LEMMA StepKeeps == Inv /\ [Next]_vars => Inv' /\ (Next => Kept)
<1> SUFFICES ASSUME Inv, [Next]_vars PROVE Inv' /\ (Next => Kept)
  OBVIOUS
<1>1. ASSUME NEW t \in tasks, Run(t) \/ Crash(t) PROVE Inv' /\ Kept
  BY <1>1, DropStep, NotifyStep, ReadStep, MatchStep, ScheduleStep, PushStep,
     UpdateStep, DeleteStep, CrashStep DEF Run
<1>2. CASE UNCHANGED vars /\ ~Next
  BY <1>2 DEF vars, Inv, TypeOK, Grounded
<1>3. CASE Next
  BY <1>1, <1>3, PatchStep, WorldStep DEF Next
<1> QED  BY <1>2, <1>3

-----------------------------------------------------------------------------
(* TypeOK: whatever tasks overlap, the push configurations are lists of     *)
(* endpoints, and only a user's real endpoints are pinged.                  *)
THEOREM TypeCorrect == Spec => []TypeOK
<1>1. Inv => TypeOK
  BY DEF Inv
<1> QED  BY <1>1, InvInit, StepKeeps, PTL DEF Spec

(* DevicesAreKept: no overlap of pings, repairs and patches, and no fault,  *)
(* takes a device from a user that its push service has not dropped or      *)
(* replaced: upgradeSubscribers and deletePushEndpoint (backend/push.go,    *)
(* backend/db_gae.go) lose none.                                            *)
THEOREM KeepsDevices == Spec => DevicesAreKept
<1>1. Inv /\ [Next]_vars => [Kept]_vars
  BY StepKeeps
<1> QED  BY <1>1, InvInit, StepKeeps, PTL DEF Spec, DevicesAreKept, Kept

-----------------------------------------------------------------------------
(* NobodyElseIsPinged                                                       *)

NotForHim(u) == ~info[u].on \/ ~Matches(u)

(* Inductive while the user is not to be notified: his tasks get no further *)
(* than the bookmarks.                                                      *)
Spared(u) ==
  /\ \A t \in tasks : t.kind \notin {"notify", "ping-user"} /\ t.uid = u =>
                        t.kind = "match" /\ ~Matches(u)
  /\ \A e \in Endpoints : <<u, e>> \notin pinged

(* What a handler may queue for this user.                                  *)
Harmless(m, u) == \/ m.kind \in {"notify", "ping-user"}
                  \/ m.uid # u
                  \/ m.kind = "match" /\ ~Matches(u)

LEMMA QueuedHarmless ==
  ASSUME Inv, NEW u \in Users, Spared(u), NEW t \in tasks
  PROVE  Harmless(Queued(t), u)
<1>1. CASE t.kind = "notify"
  <2>1. t \in NotifyTask
    BY <1>1, TaskKinds DEF Inv
  <2>2. Queued(t) = [kind |-> "notify", n |-> t.n + 1]
    BY <1>1, <2>1 DEF Queued, NotifyTask
  <2> QED  BY <2>2 DEF Harmless
<1>2. CASE t.kind \in {"ping-user", "match", "schedule"}
  <2>1. Queued(t) = [kind |-> "ping-user", uid |-> t.uid, n |-> t.n + 1]
    BY <1>2 DEF Queued, PingUser
  <2> QED  BY <2>1 DEF Harmless
<1>3. CASE t.kind \in {"ping-device", "update", "delete"}
  <2>1. Queued(t) = [kind |-> "ping-device", uid |-> t.uid, url |-> t.url,
                     n |-> t.n + 1]
    BY <1>3 DEF Queued, PingDevice
  <2> QED  BY <1>3, <2>1 DEF Harmless, Spared
<1> QED  BY <1>1, <1>2, <1>3, TaskKinds DEF Kinds, Inv

LEMMA RunSpares ==
  ASSUME Inv, NEW u \in Users, Spared(u), NotForHim(u)',
         NEW t \in tasks, Run(t) \/ Crash(t)
  PROVE  /\ \A m \in tasks' \ tasks : Harmless(m, u)
         /\ \A e \in Endpoints : <<u, e>> \notin pinged'
         /\ note' = note
<1>1. t \in Task /\ t.kind \in Kinds /\ Harmless(Queued(t), u)
  BY QueuedHarmless DEF Inv, TypeOK
<1>2. /\ t.kind \notin {"notify", "ping-user"} /\ t.uid = u =>
           t.kind = "match" /\ ~Matches(u)
      /\ \A e \in Endpoints : <<u, e>> \notin pinged
  BY DEF Spared
<1>3. CASE Drop(t) \/ Crash(t)
  BY <1>1, <1>2, <1>3 DEF Drop, Crash, Again, Done
<1>4. CASE NotifySubscribers(t)
  <2>1. \A v : Harmless(PingUser(v), u)
    BY DEF Harmless, PingUser
  <2>2. PICK U : \A m \in tasks' \ tasks :
                    m \in {PingUser(v) : v \in U} \/ m = Queued(t)
    <3>1. CASE Done(t, {PingUser(v) : v \in index})
      BY <3>1 DEF Done
    <3>2. CASE \E U \in SUBSET index : Done(t, {PingUser(v) : v \in U})
      BY <3>2 DEF Done
    <3>3. CASE Again(t)
      BY <3>3 DEF Again, Done
    <3>4. CASE \E U \in SUBSET index :
                 Done(t, {PingUser(v) : v \in U} \cup {Queued(t)})
      BY <3>4 DEF Done
    <3> QED  BY <1>4, <3>1, <3>2, <3>3, <3>4 DEF NotifySubscribers
  <2> QED  BY <1>1, <1>2, <1>4, <2>1, <2>2 DEF NotifySubscribers
<1>5. CASE ReadPushInfo(t)
  <2> DEFINE pi == info[t.uid]
             up == IF pi.subs = <<>> THEN pi
                   ELSE [pi EXCEPT
                           !.urls = upgradeSubscribers(pi.subs, pi.urls),
                           !.subs = <<>>]
             m  == [kind |-> "match", uid |-> t.uid, n |-> t.n,
                    urls |-> up.urls]
  <2>0. pinged' = pinged /\ note' = note
    BY <1>5 DEF ReadPushInfo
  <2>1. CASE Again(t)
    BY <1>1, <1>2, <2>0, <2>1 DEF Again, Done
  <2>2. CASE /\ info' = [info EXCEPT ![t.uid] = up]
             /\ Done(t, IF up.on THEN {m} ELSE {})
    <3>1. /\ t.kind = "ping-user" /\ t.uid \in Users
          /\ info \in [Users -> userPush]
      BY <1>1, <1>5, TaskKinds DEF ReadPushInfo, Starting, Inv, TypeOK
    <3> HIDE DEF up
    <3>2. info'[t.uid] = up
      BY <2>2, <3>1
    <3>3. t.uid = u /\ up.on => ~Matches(u)
      BY <2>0, <3>2 DEF NotForHim, Matches
    <3>4. \A x \in tasks' \ tasks : up.on /\ x = m
      BY <2>2 DEF Done
    <3>5. m.kind = "match" /\ m.uid = t.uid
      OBVIOUS
    <3> HIDE DEF m
    <3>6. up.on => Harmless(m, u)
      BY <3>3, <3>5 DEF Harmless
    <3> QED  BY <1>2, <2>0, <3>4, <3>6
  <2> QED  BY <1>5, <2>1, <2>2 DEF ReadPushInfo
<1>6. CASE MatchBookmarks(t)
  <2>1. t.kind = "match" /\ (t.uid = u => ~Matches(u))
    BY <1>2, <1>6 DEF MatchBookmarks
  <2>2. \A m \in tasks' \ tasks :
          \/ m = Queued(t)
          \/ Matches(t.uid) /\ m = Scheduling(t, ToSet(t.urls), 1)
    <3>1. CASE Again(t)
      BY <3>1 DEF Again, Done
    <3>2. CASE Done(t, {})
      BY <3>2 DEF Done
    <3>3. CASE Done(t, IF Matches(t.uid) THEN {Scheduling(t, ToSet(t.urls), 1)}
                       ELSE {})
      BY <3>3 DEF Done
    <3> QED  BY <1>6, <3>1, <3>2, <3>3 DEF MatchBookmarks
  <2>3. Scheduling(t, ToSet(t.urls), 1).uid = t.uid
    BY DEF Scheduling
  <2> QED  BY <1>1, <1>2, <1>6, <2>1, <2>2, <2>3 DEF Harmless, MatchBookmarks
<1>7. CASE SchedulePings(t)
  <2>1. t.kind = "schedule" /\ t.uid # u
    BY <1>2, <1>7 DEF SchedulePings
  <2>2. \A e : PingDevice(t.uid, e).uid = t.uid
    BY DEF PingDevice
  <2>3. \A E, i : Scheduling(t, E, i).uid = t.uid
    BY DEF Scheduling
  <2>4. \A m \in tasks' \ tasks : \/ \E e : m = PingDevice(t.uid, e)
                                 \/ \E E, i : m = Scheduling(t, E, i)
    <3>1. CASE Done(t, {PingDevice(t.uid, e) : e \in t.rest})
      BY <3>1 DEF Done
    <3>2. CASE \E left \in SUBSET t.rest \ {{}} :
                 Done(t, {PingDevice(t.uid, e) : e \in t.rest \ left} \cup
                         (IF t.i < Schedules THEN {Scheduling(t, left, t.i + 1)}
                          ELSE {}))
      BY <3>2 DEF Done
    <3>3. CASE Done(t, {})
      BY <3>3 DEF Done
    <3> QED  BY <1>7, <3>1, <3>2, <3>3 DEF SchedulePings
  <2> QED  BY <1>2, <1>7, <2>1, <2>2, <2>3, <2>4 DEF Harmless, SchedulePings
<1>8. CASE Push(t)
  <2>1. t.kind = "ping-device" /\ t.uid # u
    BY <1>2, <1>8 DEF Push, Starting
  <2>2. t \in DeviceTask
    BY <1>1, <2>1, TaskKinds
  <2> DEFINE del == [t EXCEPT !.kind = "delete"]
             upd == [kind |-> "update", uid |-> t.uid, url |-> t.url, n |-> t.n,
                     nurl |-> canon[t.url]]
  <2>3. /\ del.uid = t.uid /\ upd.uid = t.uid
        /\ PingDevice(t.uid, t.url).uid = t.uid
    BY <2>2 DEF DeviceTask, PingDevice
  <2> HIDE DEF del, upd
  <2>4. \A m \in tasks' \ tasks :
          m \in {del, upd, PingDevice(t.uid, t.url), Queued(t)}
    BY <1>8 DEF Push, Done, Again, del, upd
  <2>5. \A e \in Endpoints : <<u, e>> \notin pinged'
    <3>1. pinged' = pinged \/ pinged' = pinged \cup {<<t.uid, t.url>>}
      BY <1>8 DEF Push
    <3> QED  BY <1>2, <2>1, <3>1
  <2> QED  BY <1>1, <1>8, <2>1, <2>3, <2>4, <2>5 DEF Harmless, Push
<1>9. CASE UpdatePushEndpoint(t) \/ DeletePushEndpoint(t)
  BY <1>2, <1>9 DEF UpdatePushEndpoint, DeletePushEndpoint, Done
<1> QED  BY <1>3, <1>4, <1>5, <1>6, <1>7, <1>8, <1>9 DEF Run

LEMMA StepSpares ==
  ASSUME NEW u \in Users
  PROVE  Inv /\ Spared(u) /\ NotForHim(u)' /\ [Next]_vars => Spared(u)'
<1> SUFFICES ASSUME Inv, Spared(u), NotForHim(u)', [Next]_vars PROVE Spared(u)'
  OBVIOUS
<1>1. /\ \A m \in tasks' \ tasks : Harmless(m, u)
      /\ \A e \in Endpoints : <<u, e>> \notin pinged'
      /\ note' = note
  <2>1. CASE UNCHANGED vars
    BY <2>1 DEF vars, Spared
  <2>2. CASE \E t \in tasks : Run(t) \/ Crash(t)
    BY <2>2, RunSpares
  <2>3. CASE \E v \in Users : PatchNotifySettings(v) \/ IndexCatchesUp(v)
    BY <2>3 DEF PatchNotifySettings, IndexCatchesUp, Spared
  <2>4. CASE DeviceLeaves \/ DeviceMoves
    BY <2>4 DEF DeviceLeaves, DeviceMoves, Spared
  <2> QED  BY <2>1, <2>2, <2>3, <2>4 DEF Next
<1>2. Matches(u)' <=> Matches(u)
  BY <1>1 DEF Matches
<1>3. ASSUME NEW m \in tasks', m.kind \notin {"notify", "ping-user"}, m.uid = u
      PROVE  m.kind = "match" /\ ~Matches(u)
  BY <1>1, <1>3 DEF Spared, Harmless
<1> QED  BY <1>1, <1>2, <1>3 DEF Spared

LEMMA InitSpares ==
  ASSUME NEW u \in Users
  PROVE  Init => Spared(u)
BY DEF Init, Spared

(* NobodyElseIsPinged: who has notifications off, or has bookmarked none of *)
(* the sessions, is not pinged by any overlap, retry or repeat of           *)
(* handleNotifySubscribers, handlePingUser and handlePingDevice, also when  *)
(* the datastore's index still lists them.                                  *)
THEOREM OthersAreSpared == Spec => NobodyElseIsPinged
<1>1. ASSUME NEW u \in Users
      PROVE  Spec => ([](~info[u].on \/ ~Matches(u)) =>
                        [](\A e \in Endpoints : <<u, e>> \notin pinged))
  <2>1. NotForHim(u) <=> (~info[u].on \/ ~Matches(u))
    BY DEF NotForHim
  <2>2. Spared(u) => \A e \in Endpoints : <<u, e>> \notin pinged
    BY DEF Spared
  <2> QED  BY <2>1, <2>2, InvInit, StepKeeps, InitSpares, StepSpares, PTL
           DEF Spec
<1> QED  BY <1>1 DEF NobodyElseIsPinged
===============================================================================
