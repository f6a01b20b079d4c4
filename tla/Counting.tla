------------------------------ MODULE Counting ------------------------------
(***************************************************************************)
(* Facts about rows and their numbers that the proofs of both backends     *)
(* use: rows are counted through their keys, a non-empty set of numbers    *)
(* has a least element, which serves as induction, and rows that carry the *)
(* newest numbers of a counter stand for a queue.                          *)
(***************************************************************************)
EXTENDS Naturals, Sequences, FiniteSetTheorems, TLAPS

(* Rows whose keys are the numbers a .. b, each once, are as many as these. *)
LEMMA CountByKey ==
    ASSUME NEW S, NEW a \in Int, NEW b \in Int, NEW f \in [S -> a .. b],
           \A x, y \in S : f[x] = f[y] => x = y,
           \A k \in a .. b : \E x \in S : f[x] = k
    PROVE  /\ IsFiniteSet(S)
           /\ Cardinality(S) = IF a > b THEN 0 ELSE b - a + 1
<1>1. f \in Injection(S, a .. b)
  BY DEF Injection, IsInjective
<1>2. f \in Surjection(S, a .. b)
  BY DEF Surjection
<1>3. IsFiniteSet(a .. b) /\ Cardinality(a .. b) = IF a > b THEN 0 ELSE b - a + 1
  BY FS_Interval
<1>4. /\ IsFiniteSet(S)
      /\ Cardinality(S) = Cardinality(a .. b) <=> f \in Surjection(S, a .. b)
  BY <1>1, <1>3, FS_Injection
<1> QED
  BY <1>2, <1>3, <1>4

(* Two sets that one function pairs have the same number of elements. *)
LEMMA CountBoth ==
    ASSUME NEW S, NEW T, NEW f \in [S -> T], IsFiniteSet(T),
           \A x, y \in S : f[x] = f[y] => x = y,
           \A k \in T : \E x \in S : f[x] = k
    PROVE  IsFiniteSet(S) /\ Cardinality(S) = Cardinality(T)
<1>1. f \in Injection(S, T)
  BY DEF Injection, IsInjective
<1>2. f \in Surjection(S, T)
  BY DEF Surjection
<1> QED
  BY <1>1, <1>2, FS_Injection

(* A non-empty set of numbers has a least element. *)
LEMMA LeastElement ==
    ASSUME NEW T \in SUBSET Nat, T # {}
    PROVE  \E x \in T : \A y \in T : x <= y
<1> DEFINE U == {0 .. n : n \in T}
<1>1. IsWellFoundedOn(StrictSubsetOrdering(Nat), FiniteSubsetsOf(Nat))
  BY FS_StrictSubsetOrderingWellFounded
<1>2. U \subseteq FiniteSubsetsOf(Nat) /\ U # {}
  <2>1. \A n \in Nat : 0 .. n \in SUBSET Nat /\ IsFiniteSet(0 .. n)
    BY FS_Interval
  <2> QED
    BY Zenon, <2>1 DEF FiniteSubsetsOf
<1> HIDE DEF U
<1>3. PICK x \in U : \A y \in U : ~(<<y, x>> \in StrictSubsetOrdering(Nat))
  BY <1>1, <1>2, WFMin
<1>4. PICK m \in T : x = 0 .. m
  BY DEF U
<1>5. ASSUME NEW n \in T, n < m
      PROVE  FALSE
  <2>1. 0 .. n \in U
    BY DEF U
  <2>2. 0 .. n \subseteq 0 .. m /\ 0 .. n # 0 .. m
    <3>1. m \in 0 .. m /\ m \notin 0 .. n
      BY <1>5
    <3> QED
      BY <1>5, <3>1
  <2>3. <<0 .. n, 0 .. m>> \in StrictSubsetOrdering(Nat)
    BY <2>2 DEF StrictSubsetOrdering
  <2> QED
    BY <1>3, <1>4, <2>1, <2>3
<1> QED
  BY <1>5

----------------------------------------------------------------------------
(***************************************************************************)
(* Rows that wait in line: the rows R of one queue in which the sequence   *)
(* numbers 1 .. n were given out                                           *)
(***************************************************************************)
(* The sequence number before the first one that waits *)
Gone(R, n) == n - Cardinality(R)

InLine(R, n) ==
    /\ n \in Nat /\ IsFiniteSet(R) /\ Cardinality(R) <= n
    /\ \A r \in R : r.sequence \in Gone(R, n) + 1 .. n
    /\ \A s \in Gone(R, n) + 1 .. n : \E r \in R : r.sequence = s
    /\ \A r, e \in R : r.sequence = e.sequence => r = e

(* s is the number after n *)
Follows(s, n) == s = n + 1

Item(r) == [id |-> r.id, attempts |-> r.attempts]

RowAtPlace(R, s) == CHOOSE r \in R : r.sequence = s

(* The queue that the rows stand for *)
LineOf(R, n) == [k \in 1 .. Cardinality(R) |-> Item(RowAtPlace(R, Gone(R, n) + k))]

(* How many numbers are gone is what has to be known. *)
LEMMA LineCount ==
    ASSUME NEW R, NEW n \in Nat, NEW g \in 0 .. n,
           \A r \in R : r.sequence \in g + 1 .. n,
           \A s \in g + 1 .. n : \E r \in R : r.sequence = s,
           \A r, e \in R : r.sequence = e.sequence => r = e
    PROVE  InLine(R, n) /\ Gone(R, n) = g /\ Cardinality(R) = n - g
<1> DEFINE f == [r \in R |-> r.sequence]
<1>1. g + 1 \in Int /\ n \in Int /\ f \in [R -> g + 1 .. n]
  OBVIOUS
<1>2. /\ \A x, y \in R : f[x] = f[y] => x = y
      /\ \A k \in g + 1 .. n : \E x \in R : f[x] = k
  OBVIOUS
<1> HIDE DEF f
<1>3. IsFiniteSet(R) /\ Cardinality(R) = IF g + 1 > n THEN 0 ELSE n - (g + 1) + 1
  BY <1>1, <1>2, CountByKey
<1>4. Cardinality(R) = n - g
  BY <1>3
<1>5. Gone(R, n) = g
  BY <1>4 DEF Gone
<1> QED
  BY <1>3, <1>4, <1>5 DEF InLine

(* The item at place k is the row that carries the k-th number waiting. *)
LEMMA LineItem ==
    ASSUME NEW R, NEW n, InLine(R, n)
    PROVE  /\ n \in Nat /\ Gone(R, n) \in 0 .. n /\ Cardinality(R) \in Nat
           /\ Cardinality(R) = n - Gone(R, n)
           /\ Len(LineOf(R, n)) = Cardinality(R)
           /\ \A k \in 1 .. Cardinality(R) : \E r \in R :
                 r.sequence = Gone(R, n) + k /\ LineOf(R, n)[k] = Item(r)
           /\ \A r \in R : /\ r.sequence - Gone(R, n) \in 1 .. Cardinality(R)
                           /\ LineOf(R, n)[r.sequence - Gone(R, n)] = Item(r)
<1> DEFINE g == Gone(R, n)
           c == Cardinality(R)
<1>1. n \in Nat /\ g \in 0 .. n /\ c \in Nat /\ c = n - g
  BY FS_CardinalityType DEF InLine, Gone
<1>2. Len(LineOf(R, n)) = c
  BY <1>1 DEF LineOf
<1>3. ASSUME NEW r \in R
      PROVE  /\ r.sequence \in g + 1 .. n
             /\ RowAtPlace(R, r.sequence) = r
  BY DEF InLine, RowAtPlace
<1>4. ASSUME NEW r \in R
      PROVE  /\ r.sequence - g \in 1 .. c
             /\ LineOf(R, n)[r.sequence - g] = Item(r)
  <2>1. r.sequence - g \in 1 .. c /\ g + (r.sequence - g) = r.sequence
    BY <1>1, <1>3
  <2> QED
    BY <1>3, <2>1 DEF LineOf
<1>5. ASSUME NEW k \in 1 .. c
      PROVE  \E r \in R : r.sequence = g + k /\ LineOf(R, n)[k] = Item(r)
  <2>1. g + k \in g + 1 .. n
    BY <1>1
  <2>2. PICK r \in R : r.sequence = g + k
    BY <2>1 DEF InLine
  <2>3. r.sequence - g = k
    BY <1>1, <2>2
  <2> QED
    BY <1>4, <2>2, <2>3
<1> QED
  BY <1>1, <1>2, <1>4, <1>5

(* ... which determines the queue. *)
LEMMA LineIs ==
    ASSUME NEW R, NEW n, InLine(R, n), NEW S, NEW s \in Seq(S), Len(s) = Cardinality(R),
           \A r \in R : s[r.sequence - Gone(R, n)] = Item(r)
    PROVE  LineOf(R, n) = s
<1>1. \A k \in 1 .. Cardinality(R) : LineOf(R, n)[k] = s[k]
  <2> SUFFICES ASSUME NEW k \in 1 .. Cardinality(R) PROVE LineOf(R, n)[k] = s[k]
    OBVIOUS
  <2>1. PICK r \in R : r.sequence = Gone(R, n) + k /\ LineOf(R, n)[k] = Item(r)
    BY LineItem
  <2>2. r.sequence - Gone(R, n) = k
    BY <2>1, LineItem
  <2> QED
    BY <2>1, <2>2
<1>2. LineOf(R, n) = [k \in 1 .. Cardinality(R) |-> LineOf(R, n)[k]]
  BY DEF LineOf
<1>3. s = [k \in 1 .. Cardinality(R) |-> s[k]]
  OBVIOUS
<1> QED
  BY <1>1, <1>2, <1>3

(* The queue is a sequence of whatever its items are. *)
LEMMA LineType ==
    ASSUME NEW R, NEW n, InLine(R, n), NEW S, \A r \in R : Item(r) \in S
    PROVE  LineOf(R, n) \in Seq(S) /\ Len(LineOf(R, n)) = Cardinality(R)
<1>1. \A k \in 1 .. Cardinality(R) : LineOf(R, n)[k] \in S
  BY LineItem
<1>2. LineOf(R, n) = [k \in 1 .. Cardinality(R) |-> LineOf(R, n)[k]]
  BY DEF LineOf
<1>3. LineOf(R, n) \in [1 .. Cardinality(R) -> S]
  BY <1>1, <1>2
<1>4. Cardinality(R) \in Nat
  BY LineItem
<1> QED
  BY <1>3, <1>4

(* A queue nothing was enqueued in *)
LEMMA LineEmpty == InLine({}, 0) /\ LineOf({}, 0) = <<>>
<1>1. IsFiniteSet({}) /\ Cardinality({}) = 0
  BY FS_EmptySet
<1> QED
  BY <1>1 DEF InLine, LineOf, Gone

(* The next number joins at the end. *)
LEMMA LineJoin ==
    ASSUME NEW R, NEW n, InLine(R, n),
           NEW x, Follows(x.sequence, n)
    PROVE  /\ InLine(R \cup {x}, x.sequence)
           /\ LineOf(R \cup {x}, x.sequence) = Append(LineOf(R, n), Item(x))
<1> DEFINE g == Gone(R, n)
           T == R \cup {x}
           s == LineOf(R, n)
           t == Append(s, Item(x))
           p == x.sequence
           S == {Item(r) : r \in R \cup {x}}
<1>1. /\ n \in Nat /\ g \in 0 .. n /\ Cardinality(R) = n - g
      /\ \A r \in R : r.sequence - g \in 1 .. n - g /\ s[r.sequence - g] = Item(r)
  BY LineItem
<1>0. p \in Nat /\ p = n + 1
  BY <1>1 DEF Follows
<1>2. \A r \in R : r.sequence \in g + 1 .. n
  BY DEF InLine
<1>3. \A k \in g + 1 .. n : \E r \in R : r.sequence = k
  BY DEF InLine
<1>4. \A r, e \in R : r.sequence = e.sequence => r = e
  BY DEF InLine
<1>5. s \in Seq(S) /\ Len(s) = n - g
  <2>1. \A r \in R : Item(r) \in S
    OBVIOUS
  <2> HIDE DEF S
  <2> QED
    BY <1>1, <2>1, LineType
<1>13. Item(x) \in S
  OBVIOUS
<1> HIDE DEF g, s, S
<1>6. g \in 0 .. p /\ \A r \in T : r.sequence \in g + 1 .. p
  BY <1>0, <1>1, <1>2
<1>7. \A k \in g + 1 .. p : \E r \in T : r.sequence = k
  <2> SUFFICES ASSUME NEW k \in g + 1 .. p PROVE \E r \in T : r.sequence = k
    OBVIOUS
  <2>1. CASE k = p
    BY <2>1
  <2>2. CASE k # p
    <3>1. k \in g + 1 .. n
      BY <1>0, <1>1, <2>2
    <3> QED
      BY <1>3, <3>1
  <2> QED
    BY <2>1, <2>2
<1>8. \A r, e \in T : r.sequence = e.sequence => r = e
  BY <1>0, <1>1, <1>2, <1>4
<1>9. InLine(T, p) /\ Gone(T, p) = g /\ Cardinality(T) = p - g
  <2> HIDE DEF T
  <2> QED
    BY <1>0, <1>6, <1>7, <1>8, LineCount
<1>10. t \in Seq(S) /\ Len(t) = n - g + 1 /\ t[p - g] = Item(x)
       /\ \A k \in 1 .. n - g : t[k] = s[k]
  BY <1>0, <1>1, <1>5, <1>13
<1> HIDE DEF t
<1>11. \A r \in T : t[r.sequence - g] = Item(r)
  BY Zenon, <1>0, <1>1, <1>10
<1>12. LineOf(T, p) = t
  <2>1. Len(t) = Cardinality(T)
    BY <1>0, <1>1, <1>9, <1>10
  <2> HIDE DEF T
  <2> QED
    BY <1>9, <1>10, <1>11, <2>1, LineIs
<1> QED
  BY Zenon, <1>9, <1>12 DEF t, s

(* The row with the least number is the head of the queue. *)
LEMMA LineFront ==
    ASSUME NEW R, NEW n, InLine(R, n), NEW x \in R, \A e \in R : x.sequence <= e.sequence
    PROVE  /\ x.sequence = Gone(R, n) + 1
           /\ Cardinality(R) >= 1
           /\ LineOf(R, n)[1] = Item(x)
<1>1. /\ n \in Nat /\ Gone(R, n) \in 0 .. n /\ Cardinality(R) \in Nat
      /\ x.sequence - Gone(R, n) \in 1 .. Cardinality(R)
      /\ LineOf(R, n)[x.sequence - Gone(R, n)] = Item(x)
      /\ Cardinality(R) = n - Gone(R, n)
  BY LineItem
<1>2. x.sequence \in Gone(R, n) + 1 .. n
  BY DEF InLine
<1>3. Gone(R, n) + 1 \in Gone(R, n) + 1 .. n
  BY <1>1, <1>2
<1>4. PICK e \in R : e.sequence = Gone(R, n) + 1
  BY <1>3 DEF InLine
<1>5. x.sequence = Gone(R, n) + 1
  BY <1>1, <1>2, <1>4
<1>6. x.sequence - Gone(R, n) = 1
  BY <1>1, <1>5
<1> QED
  BY <1>1, <1>5, <1>6

(* A line that is not empty has such a row. *)
LEMMA LineHasFront ==
    ASSUME NEW R, NEW n, InLine(R, n), R # {}
    PROVE  \E x \in R : \A e \in R : x.sequence <= e.sequence
<1>1. PICK r \in R : TRUE
  OBVIOUS
<1>2. /\ n \in Nat /\ Gone(R, n) \in 0 .. n
      /\ r.sequence \in Gone(R, n) + 1 .. n
      /\ \A e \in R : e.sequence \in Gone(R, n) + 1 .. n
  BY LineItem DEF InLine
<1>3. Gone(R, n) + 1 \in Gone(R, n) + 1 .. n
  BY <1>2
<1>4. PICK x \in R : x.sequence = Gone(R, n) + 1
  BY <1>3 DEF InLine
<1> QED
  BY <1>2, <1>4

(* The front leaves, the others keep their order. *)
LEMMA LineLeave ==
    ASSUME NEW R, NEW n, InLine(R, n),
           NEW x \in R, \A e \in R : x.sequence <= e.sequence
    PROVE  /\ InLine(R \ {x}, n)
           /\ LineOf(R \ {x}, n) = Tail(LineOf(R, n))
<1> DEFINE g == Gone(R, n)
           T == R \ {x}
           s == LineOf(R, n)
           t == Tail(s)
           S == {Item(r) : r \in R}
<1>1. /\ n \in Nat /\ g \in 0 .. n /\ Cardinality(R) = n - g
      /\ \A r \in R : r.sequence - g \in 1 .. n - g /\ s[r.sequence - g] = Item(r)
  BY LineItem
<1>2. \A r \in R : r.sequence \in g + 1 .. n
  BY DEF InLine
<1>3. \A k \in g + 1 .. n : \E r \in R : r.sequence = k
  BY DEF InLine
<1>4. \A r, e \in R : r.sequence = e.sequence => r = e
  BY DEF InLine
<1>5. s \in Seq(S) /\ Len(s) = n - g
  <2>1. \A r \in R : Item(r) \in S
    OBVIOUS
  <2> HIDE DEF S
  <2> QED
    BY <1>1, <2>1, LineType
<1>6. x.sequence = g + 1 /\ n - g >= 1
  BY <1>1, LineFront
<1> HIDE DEF g, s, S
<1>7. g + 1 \in 0 .. n /\ \A r \in T : r.sequence \in (g + 1) + 1 .. n
  BY <1>1, <1>2, <1>4, <1>6
<1>8. \A k \in (g + 1) + 1 .. n : \E r \in T : r.sequence = k
  BY <1>1, <1>3, <1>6
<1>9. InLine(T, n) /\ Gone(T, n) = g + 1 /\ Cardinality(T) = n - (g + 1)
  <2> DEFINE b == g + 1
  <2>1. /\ b \in 0 .. n /\ b = g + 1
        /\ \A r \in T : r.sequence \in b + 1 .. n
        /\ \A k \in b + 1 .. n : \E r \in T : r.sequence = k
        /\ \A r, e \in T : r.sequence = e.sequence => r = e
    BY <1>4, <1>7, <1>8
  <2> HIDE DEF T, b
  <2>2. InLine(T, n) /\ Gone(T, n) = b /\ Cardinality(T) = n - b
    BY <1>1, <2>1, LineCount
  <2> QED
    BY <2>1, <2>2
<1>10. t \in Seq(S) /\ Len(t) = n - g - 1 /\ \A k \in 1 .. n - g - 1 : t[k] = s[k + 1]
  BY <1>1, <1>5, <1>6
<1> HIDE DEF t
<1>11. ASSUME NEW r \in T PROVE t[r.sequence - (g + 1)] = Item(r)
  <2>1. /\ r.sequence - (g + 1) \in 1 .. n - g - 1
        /\ r.sequence - (g + 1) + 1 = r.sequence - g
    BY <1>1, <1>7
  <2> QED
    BY <1>1, <1>10, <2>1
<1>12. LineOf(T, n) = t
  <2>1. Len(t) = Cardinality(T)
    BY <1>1, <1>9, <1>10
  <2> HIDE DEF T
  <2> QED
    BY <1>9, <1>10, <1>11, <2>1, LineIs
<1> QED
  BY Zenon, <1>9, <1>12 DEF t, s

(* A row that changes keeps its place. *)
LEMMA LineStay ==
    ASSUME NEW R, NEW n, InLine(R, n),
           NEW x \in R, \A e \in R : x.sequence <= e.sequence,
           NEW y, y.sequence = x.sequence
    PROVE  /\ InLine((R \ {x}) \cup {y}, n)
           /\ LineOf((R \ {x}) \cup {y}, n) = [LineOf(R, n) EXCEPT ![1] = Item(y)]
<1> DEFINE g == Gone(R, n)
           T == (R \ {x}) \cup {y}
           s == LineOf(R, n)
           t == [s EXCEPT ![1] = Item(y)]
           S == {Item(r) : r \in R \cup {y}}
<1>1. /\ n \in Nat /\ g \in 0 .. n /\ Cardinality(R) = n - g
      /\ \A r \in R : r.sequence - g \in 1 .. n - g /\ s[r.sequence - g] = Item(r)
  BY LineItem
<1>2. \A r \in R : r.sequence \in g + 1 .. n
  BY DEF InLine
<1>3. \A k \in g + 1 .. n : \E r \in R : r.sequence = k
  BY DEF InLine
<1>4. \A r, e \in R : r.sequence = e.sequence => r = e
  BY DEF InLine
<1>5. s \in Seq(S) /\ Len(s) = n - g
  <2>1. \A r \in R : Item(r) \in S
    OBVIOUS
  <2> HIDE DEF S
  <2> QED
    BY <1>1, <2>1, LineType
<1>6. x.sequence = g + 1 /\ n - g >= 1
  BY <1>1, LineFront
<1>14. Item(y) \in S
  OBVIOUS
<1> HIDE DEF g, s, S
<1>7. \A r \in T : r.sequence \in g + 1 .. n
  BY <1>2
<1>8. \A k \in g + 1 .. n : \E r \in T : r.sequence = k
  BY <1>3
<1>9. \A r, e \in T : r.sequence = e.sequence => r = e
  BY <1>4
<1>10. InLine(T, n) /\ Gone(T, n) = g /\ Cardinality(T) = n - g
  BY <1>1, <1>7, <1>8, <1>9, LineCount
<1>11. /\ t \in Seq(S) /\ Len(t) = n - g /\ t[1] = Item(y)
       /\ \A k \in 2 .. n - g : t[k] = s[k]
  BY <1>1, <1>5, <1>6, <1>14
<1> HIDE DEF t
<1>12. ASSUME NEW r \in T PROVE t[r.sequence - g] = Item(r)
  <2>1. CASE r = y
    <3>1. r.sequence - g = 1
      BY <1>1, <1>6, <2>1
    <3> QED
      BY <1>11, <2>1, <3>1
  <2>2. CASE r # y
    <3>1. r \in R /\ r.sequence # g + 1
      BY <1>4, <1>6, <2>2
    <3>2. r.sequence - g \in 2 .. n - g
      BY <1>1, <1>2, <3>1
    <3> QED
      BY <1>1, <1>11, <3>1, <3>2
  <2> QED
    BY <2>1, <2>2
<1>13. LineOf(T, n) = t
  <2>1. Len(t) = Cardinality(T)
    BY <1>10, <1>11
  <2> HIDE DEF T
  <2> QED
    BY <1>10, <1>11, <1>12, <2>1, LineIs
<1> QED
  BY <1>10, <1>13 DEF t, s

----------------------------------------------------------------------------
(***************************************************************************)
(* Sequences                                                               *)
(***************************************************************************)
(* Sequences with the same elements are the same. *)
LEMMA SameElements ==
    ASSUME NEW S, NEW s \in Seq(S), NEW t \in Seq(S),
           Len(s) = Len(t), \A i \in 1 .. Len(s) : s[i] = t[i]
    PROVE  s = t
OBVIOUS

(* A sequence with one element replaced *)
LEMMA ElementReplaced ==
    ASSUME NEW S, NEW s \in Seq(S), NEW i \in 1 .. Len(s), NEW e \in S
    PROVE  /\ [s EXCEPT ![i] = e] \in Seq(S)
           /\ Len([s EXCEPT ![i] = e]) = Len(s)
           /\ \A j \in 1 .. Len(s) : [s EXCEPT ![i] = e][j] = IF j = i THEN e ELSE s[j]
OBVIOUS
=============================================================================
