--------------------------- MODULE RedbKeysProofs ---------------------------
(***************************************************************************)
(* The keys of the redb tables and the walks through them, for every base  *)
(* and width of the numbers.                                               *)
(*                                                                         *)
(* A number below the largest is written with leading zeros in a fixed     *)
(* width, so no two numbers have the same digits and the order of the      *)
(* strings is the order of the numbers.  The numbers are compared by their *)
(* most significant digit that differs; what stands above a digit is the   *)
(* quotient by a power of the base, a recursive function whose values are  *)
(* established by the least number without one.                            *)
(*                                                                         *)
(* From that: a walk from a key to the first one without the prefix        *)
(* reaches exactly the rows of the log from there on, and a page of        *)
(* fetch_messages is a slice of the log.                                   *)
(***************************************************************************)
EXTENDS RedbStore, Counting

(***************************************************************************)
(* Numbers and their digits                                                *)
(***************************************************************************)
(* The first n + 1 powers *)
Powers(g, n) == /\ g \in [0 .. n -> Nat \ {0}]
                /\ g[0] = 1
                /\ \A i \in 1 .. n : g[i] = Base * g[i - 1]

(* There are powers, as far as one wants, *)
LEMMA PowersExist == \A n \in Nat : \E g : Powers(g, n)
<1> DEFINE S == {n \in Nat : ~ \E g : Powers(g, n)}
<1>0. Base \in Nat \ {0}
  BY RedbAssumption
<1> SUFFICES ASSUME S # {} PROVE FALSE
  OBVIOUS
<1>1. PICK n \in S : \A m \in S : n <= m
  BY Zenon, LeastElement
<1>2. CASE n = 0
  <2> DEFINE g == [i \in 0 .. 0 |-> 1]
  <2>1. Powers(g, 0)
    BY DEF Powers
  <2> QED
    BY <1>2, <2>1
<1>3. CASE n # 0
  <2>1. n - 1 \in Nat /\ n - 1 \notin S
    BY <1>1, <1>3
  <2>2. PICK g : Powers(g, n - 1)
    BY <2>1
  <2> DEFINE h == [i \in 0 .. n |-> IF i = n THEN Base * g[n - 1] ELSE g[i]]
  <2>3. \A i \in 0 .. n - 1 : h[i] = g[i] /\ g[i] \in Nat \ {0}
    BY <2>1, <2>2 DEF Powers
  <2>4. h[n] = Base * g[n - 1] /\ Base * g[n - 1] \in Nat \ {0}
    BY <1>0, <2>1, <2>2 DEF Powers
  <2>5. h \in [0 .. n -> Nat \ {0}]
    BY <2>1, <2>2, <2>4 DEF Powers
  <2>6. \A i \in 1 .. n : h[i] = Base * h[i - 1]
    <3> SUFFICES ASSUME NEW i \in 1 .. n PROVE h[i] = Base * h[i - 1]
      BY Zenon
    <3>1. CASE i = n
      <4>1. n - 1 \in 0 .. n - 1
        BY <2>1
      <4> QED
        BY <2>3, <2>4, <3>1, <4>1
    <3>2. CASE i # n
      <4>1. i \in 0 .. n - 1 /\ i - 1 \in 0 .. n - 1 /\ i \in 1 .. n - 1
        BY <2>1, <3>2
      <4> QED
        BY <2>2, <2>3, <4>1 DEF Powers
    <3> QED
      BY <3>1, <3>2
  <2>7. h[0] = 1
    BY <2>1, <2>2, <2>3 DEF Powers
  <2> HIDE DEF h
  <2>8. Powers(h, n)
    BY <2>5, <2>6, <2>7 DEF Powers
  <2> QED
    BY <2>8
<1> QED
  BY <1>2, <1>3

(* ... and they are the same however far one goes. *)
LEMMA PowersAgree ==
    ASSUME NEW m \in Nat, NEW n \in Nat, NEW g, NEW h, Powers(g, m), Powers(h, n),
           NEW i \in Nat, i <= m, i <= n
    PROVE  g[i] = h[i]
<1> DEFINE S == {k \in Nat : k <= m /\ k <= n /\ g[k] # h[k]}
<1> SUFFICES ASSUME S # {} PROVE FALSE
  OBVIOUS
<1>1. PICK k \in S : \A j \in S : k <= j
  BY Zenon, LeastElement
<1>2. k # 0
  BY <1>1 DEF Powers
<1>3. k - 1 \in Nat /\ k - 1 \notin S /\ k - 1 <= m /\ k - 1 <= n
  BY <1>1, <1>2
<1>4. g[k - 1] = h[k - 1]
  BY <1>3
<1>5. g[k] = Base * g[k - 1] /\ h[k] = Base * h[k - 1]
  BY <1>1, <1>2 DEF Powers
<1> QED
  BY <1>1, <1>4, <1>5

(* So the recursive definition has the solution it means. *)
LEMMA PowerRec ==
    /\ Power \in [Nat -> Nat \ {0}]
    /\ Power[0] = 1
    /\ \A i \in Nat : Power[i + 1] = Base * Power[i]
<1> DEFINE G(n) == CHOOSE g : Powers(g, n)
           F == [i \in Nat |-> G(i)[i]]
<1>1. \A n \in Nat : Powers(G(n), n)
  BY PowersExist
<1> HIDE DEF G
<1>2. \A i \in Nat : F[i] \in Nat \ {0} /\ F[i] = G(i)[i]
  BY <1>1 DEF Powers
<1>3. F[0] = 1
  BY <1>1 DEF Powers
<1>4. ASSUME NEW i \in Nat, i # 0
      PROVE  F[i] = Base * F[i - 1]
  <2>1. i - 1 \in Nat /\ i \in 1 .. i
    BY <1>4
  <2>2. G(i)[i] = Base * G(i)[i - 1]
    BY <1>1, <2>1 DEF Powers
  <2>3. G(i)[i - 1] = G(i - 1)[i - 1]
    BY <1>1, <2>1, PowersAgree
  <2> QED
    BY <1>2, <2>1, <2>2, <2>3
<1>5. F = [i \in Nat |-> IF i = 0 THEN 1 ELSE Base * F[i - 1]]
  BY <1>3, <1>4
<1>6. \E f : f = [i \in Nat |-> IF i = 0 THEN 1 ELSE Base * f[i - 1]]
  BY Zenon, <1>5
<1>7. Power = [i \in Nat |-> IF i = 0 THEN 1 ELSE Base * Power[i - 1]]
  BY <1>6 DEF Power
<1> HIDE DEF F
<1>8. \A i \in Nat : Power[i] = F[i]
  <2> DEFINE S == {i \in Nat : Power[i] # F[i]}
  <2> SUFFICES ASSUME S # {} PROVE FALSE
    OBVIOUS
  <2>1. PICK k \in S : \A j \in S : k <= j
    BY Zenon, LeastElement
  <2>2. k # 0
    BY <1>3, <1>7, <2>1
  <2>3. k - 1 \in Nat /\ k - 1 \notin S
    BY <2>1, <2>2
  <2>4. Power[k - 1] = F[k - 1]
    BY <2>3
  <2>5. Power[k] = Base * Power[k - 1] /\ F[k] = Base * F[k - 1]
    BY <1>4, <1>7, <2>1, <2>2
  <2> QED
    BY <2>1, <2>4, <2>5
<1>9. Power \in [Nat -> Nat \ {0}] /\ Power[0] = 1
  BY Zenon, <1>2, <1>3, <1>7, <1>8
<1>10. ASSUME NEW i \in Nat PROVE Power[i + 1] = Base * Power[i]
  <2>1. i + 1 \in Nat /\ i + 1 # 0 /\ (i + 1) - 1 = i
    OBVIOUS
  <2> QED
    BY <1>7, <2>1
<1> QED
  BY <1>9, <1>10

(* A number that fits is below the power of the width. *)
LEMMA Widest == U64Max \in Nat /\ \A n \in 0 .. U64Max : n \in Nat /\ n < Power[Width]
<1>1. Power[Width] \in Nat \ {0}
  BY PowerRec, RedbAssumption
<1> QED
  BY <1>1 DEF U64Max

(* What is left of n when its last i digits are cut off *)
Quot(n, i) == n \div Power[i]

(* Cutting off one digit more *)
LEMMA QuotStep ==
    ASSUME NEW n \in Nat, NEW i \in Nat
    PROVE  /\ Quot(n, i) \in Nat /\ Quot(n, i + 1) \in Nat
           /\ Digit(n, i) \in 0 .. Base - 1
           /\ Quot(n, i) = Base * Quot(n, i + 1) + Digit(n, i)
<1> DEFINE p == Power[i]
           q == n \div p
<1>1. p \in Nat \ {0} /\ Base \in Nat \ {0} /\ Power[i + 1] = Base * p
  BY PowerRec, RedbAssumption
<1> HIDE DEF p
<1>2. q \in Nat /\ q \div Base \in Nat /\ q % Base \in 0 .. Base - 1
      /\ q = Base * (q \div Base) + (q % Base)
  BY <1>1
<1>3. q \div Base = n \div (Base * p)
  BY <1>1
<1>4. Quot(n, i) = q /\ Quot(n, i + 1) = q \div Base /\ Digit(n, i) = q % Base
  BY <1>1, <1>3 DEF Quot, Digit, p
<1> HIDE DEF q
<1> QED
  BY <1>2, <1>4

(* All digits, and none *)
LEMMA QuotEnds ==
    ASSUME NEW n \in 0 .. U64Max
    PROVE  Quot(n, 0) = n /\ Quot(n, Width) = 0
<1> DEFINE p == Power[Width]
<1>1. p \in Nat \ {0} /\ n \in Nat /\ n < p /\ Power[0] = 1
  BY Widest, PowerRec, RedbAssumption
<1> HIDE DEF p
<1>2. n \div p = 0 /\ n \div 1 = n
  BY <1>1
<1> QED
  BY <1>1, <1>2 DEF Quot, p

(* Cutting off digits keeps the order. *)
LEMMA QuotMonotone ==
    ASSUME NEW a \in Nat, NEW b \in Nat, a <= b, NEW i \in Nat
    PROVE  Quot(a, i) <= Quot(b, i)
<1> DEFINE p == Power[i]
<1>1. p \in Nat \ {0}
  BY PowerRec
<1> HIDE DEF p
<1>2. a \div p <= b \div p
  BY <1>1
<1> QED
  BY <1>2 DEF Quot, p

(* The first digit in which two numbers differ tells which is smaller. *)
LEMMA DigitOrder ==
    ASSUME NEW a \in 0 .. U64Max, NEW b \in 0 .. U64Max, a < b
    PROVE  \E i \in 0 .. Width - 1 :
              /\ Digit(a, i) < Digit(b, i)
              /\ \A k \in i + 1 .. Width - 1 : Digit(a, k) = Digit(b, k)
<1> DEFINE S == {j \in Nat : j <= Width /\ Quot(a, Width - j) # Quot(b, Width - j)}
<1>0. Width \in Nat \ {0} /\ a \in Nat /\ b \in Nat /\ a # b /\ a <= b
  BY Widest, RedbAssumption
<1>1. Width \in S
  BY <1>0, QuotEnds
<1>2. PICK j \in S : \A m \in S : j <= m
  BY Zenon, <1>1, LeastElement
<1>3. j # 0
  <2>1. Width - 0 = Width
    BY <1>0
  <2> QED
    BY <1>0, <1>2, <2>1, QuotEnds
<1> DEFINE i == Width - j
<1>4. i \in 0 .. Width - 1 /\ Quot(a, i) # Quot(b, i)
  BY <1>0, <1>2, <1>3
<1>5. \A k \in i + 1 .. Width : Quot(a, k) = Quot(b, k)
  <2> SUFFICES ASSUME NEW k \in i + 1 .. Width PROVE Quot(a, k) = Quot(b, k)
    OBVIOUS
  <2>1. Width - k \in Nat /\ Width - k < j /\ Width - (Width - k) = k /\ Width - k <= Width
    BY <1>0, <1>2, <1>3
  <2>2. Width - k \notin S
    <3>1. j \in Nat
      BY <1>2
    <3> HIDE DEF S
    <3>2. Width - k \in S => j <= Width - k
      BY <1>2
    <3> QED
      BY <2>1, <3>1, <3>2
  <2> QED
    BY <2>1, <2>2
<1> HIDE DEF i, S
<1>6. ASSUME NEW k \in i + 1 .. Width - 1
      PROVE  Digit(a, k) = Digit(b, k)
  <2>1. k \in i + 1 .. Width
    BY <1>0, <1>4
  <2> QED
    BY <1>5, <2>1 DEF Digit, Quot
<1>7. Digit(a, i) < Digit(b, i)
  <2>1. i \in Nat /\ i + 1 \in i + 1 .. Width
    BY <1>0, <1>4
  <2>2. Quot(a, i + 1) = Quot(b, i + 1)
    BY <1>5, <2>1
  <2>3. Quot(a, i) <= Quot(b, i)
    BY <1>0, <2>1, QuotMonotone
  <2> DEFINE t == Base * Quot(a, i + 1)
  <2>6. /\ Quot(a, i + 1) \in Nat /\ Digit(a, i) \in 0 .. Base - 1
        /\ Quot(a, i) = Base * Quot(a, i + 1) + Digit(a, i)
    BY Zenon, <1>0, <2>1, QuotStep
  <2>7. /\ Digit(b, i) \in 0 .. Base - 1
        /\ Quot(b, i) = Base * Quot(b, i + 1) + Digit(b, i)
    BY Zenon, <1>0, <2>1, QuotStep
  <2>4. t \in Nat
    BY <2>6, RedbAssumption
  <2>5. /\ Quot(a, i) = t + Digit(a, i) /\ Quot(b, i) = t + Digit(b, i)
        /\ Digit(a, i) \in Int /\ Digit(b, i) \in Int
    BY <2>2, <2>6, <2>7, RedbAssumption
  <2> HIDE DEF t
  <2> QED
    BY <1>4, <2>3, <2>4, <2>5
<1> QED
  BY <1>4, <1>6, <1>7

----------------------------------------------------------------------------
(***************************************************************************)
(* Keys                                                                    *)
(***************************************************************************)
LEMMA DigitsShape ==
    ASSUME NEW n \in Nat
    PROVE  /\ Digits(n) \in Seq(Nat) /\ Len(Digits(n)) = Width
           /\ \A p \in 1 .. Width : Digits(n)[p] = Digit(n, Width - p)
<1>1. Width \in Nat /\ Base \in Nat
  BY RedbAssumption
<1>2. \A p \in 1 .. Width : Width - p \in Nat
  BY <1>1
<1>3. \A p \in 1 .. Width : Digit(n, Width - p) \in Nat
  BY <1>1, <1>2, QuotStep
<1>4. Digits(n) \in [1 .. Width -> Nat]
  BY <1>3 DEF Digits
<1>5. Digits(n) \in Seq(Nat) /\ Len(Digits(n)) = Width
  BY <1>1, <1>4
<1> QED
  BY Zenon, <1>5 DEF Digits

(* Numbers that fit the width have different digits. *)
LEMMA DigitsUnique ==
    ASSUME NEW a \in 0 .. U64Max, NEW b \in 0 .. U64Max, Digits(a) = Digits(b)
    PROVE  a = b
<1>1. ASSUME NEW x \in 0 .. U64Max, NEW y \in 0 .. U64Max, x < y, Digits(x) = Digits(y)
      PROVE  FALSE
  <2>1. PICK i \in 0 .. Width - 1 : Digit(x, i) < Digit(y, i)
    BY <1>1, DigitOrder
  <2>2. Width - i \in 1 .. Width /\ Width - (Width - i) = i /\ i \in Nat
    BY RedbAssumption
  <2>3. x \in Nat /\ y \in Nat
    BY Widest
  <2>4. Digits(x)[Width - i] = Digit(x, i) /\ Digits(y)[Width - i] = Digit(y, i)
    BY Zenon, <2>2, <2>3, DigitsShape
  <2>5. Digit(x, i) \in 0 .. Base - 1
    BY <2>2, <2>3, QuotStep
  <2> QED
    BY <1>1, <2>1, <2>4, <2>5, RedbAssumption
<1>2. a \in Nat /\ b \in Nat
  BY Widest
<1> QED
  BY <1>1, <1>2

(* A key is the rank of its prefix and then the digits. *)
LEMMA KeyShape ==
    ASSUME NEW l \in Nat, NEW n \in Nat
    PROVE  /\ MessageKey(l, n) \in Seq(Nat) /\ Len(MessageKey(l, n)) = Width + 1
           /\ MessageKey(l, n)[1] = l
           /\ \A p \in 1 .. Width : MessageKey(l, n)[p + 1] = Digit(n, Width - p)
<1> DEFINE d == Digits(n)
<1>1. /\ d \in Seq(Nat) /\ Len(d) = Width /\ Width \in Nat
      /\ \A p \in 1 .. Width : d[p] = Digit(n, Width - p)
  BY Zenon, DigitsShape, RedbAssumption
<1>2. MessageKey(l, n) = <<l>> \o d
  BY DEF MessageKey, Prefix
<1> HIDE DEF d
<1>3. <<l>> \in Seq(Nat) /\ Len(<<l>>) = 1
  OBVIOUS
<1>4. /\ <<l>> \o d \in Seq(Nat) /\ Len(<<l>> \o d) = Width + 1
      /\ (<<l>> \o d)[1] = l
      /\ \A p \in 1 .. Width : (<<l>> \o d)[p + 1] = d[p]
  BY <1>1, <1>3
<1> QED
  BY <1>1, <1>2, <1>4

(* What two strings make when joined *)
LEMMA Joined ==
    ASSUME NEW s \in Seq(Nat), NEW t \in Seq(Nat)
    PROVE  /\ s \o t \in Seq(Nat) /\ Len(s \o t) = Len(s) + Len(t)
           /\ \A i \in 1 .. Len(s) : (s \o t)[i] = s[i]
           /\ \A i \in 1 .. Len(t) : (s \o t)[Len(s) + i] = t[i]
<1>1. /\ s \o t \in Seq(Nat) /\ Len(s \o t) = Len(s) + Len(t)
      /\ \A i \in 1 .. Len(s) : (s \o t)[i] = s[i]
  OBVIOUS
<1>2. ASSUME NEW i \in 1 .. Len(t) PROVE (s \o t)[Len(s) + i] = t[i]
  OBVIOUS
<1> QED
  BY <1>1, <1>2

(* Strings of known lengths can be told from what they make when joined. *)
LEMMA JoinUnique ==
    ASSUME NEW s \in Seq(Nat), NEW t \in Seq(Nat), NEW u \in Seq(Nat), NEW v \in Seq(Nat),
           Len(s) = Len(u), Len(t) = Len(v)
    PROVE  s \o t = u \o v => s = u /\ t = v
<1>1. /\ \A i \in 1 .. Len(s) : (s \o t)[i] = s[i]
      /\ \A i \in 1 .. Len(t) : (s \o t)[Len(s) + i] = t[i]
  BY Zenon, Joined
<1>2. /\ \A i \in 1 .. Len(s) : (u \o v)[i] = u[i]
      /\ \A i \in 1 .. Len(t) : (u \o v)[Len(s) + i] = v[i]
  <2>1. /\ \A i \in 1 .. Len(u) : (u \o v)[i] = u[i]
        /\ \A i \in 1 .. Len(v) : (u \o v)[Len(u) + i] = v[i]
    BY Joined
  <2> QED
    BY <2>1
<1>3. ASSUME s \o t = u \o v
      PROVE  (\A i \in 1 .. Len(s) : s[i] = u[i]) /\ (\A i \in 1 .. Len(t) : t[i] = v[i])
  BY <1>1, <1>2, <1>3, Zenon
<1>4. (\A i \in 1 .. Len(s) : s[i] = u[i]) => s = u
  BY SameElements
<1>5. (\A i \in 1 .. Len(t) : t[i] = v[i]) => t = v
  BY SameElements
<1> QED
  BY <1>3, <1>4, <1>5, Zenon

(* The key of a range is that of a message at its start, and its end. *)
LEMMA TombstoneKeyShape ==
    ASSUME NEW l \in Nat, NEW f \in Nat, NEW t \in Nat
    PROVE  /\ TombstoneKey(l, f, t) = MessageKey(l, f) \o Digits(t)
           /\ TombstoneKey(l, f, t) \in Seq(Nat) /\ Len(TombstoneKey(l, f, t)) >= 1
           /\ TombstoneKey(l, f, t)[1] = l
<1>0. Width \in Nat
  BY RedbAssumption
<1>1. PICK k \in Seq(Nat) : k = MessageKey(l, f) /\ Len(k) = Width + 1 /\ k[1] = l
  BY KeyShape
<1>2. PICK e \in Seq(Nat) : e = Digits(t) /\ Len(e) = Width
  BY DigitsShape
<1>3. TombstoneKey(l, f, t) = k \o e
  BY <1>1, <1>2 DEF TombstoneKey, MessageKey
<1>4. k \o e \in Seq(Nat) /\ Len(k \o e) = Len(k) + Len(e)
      /\ \A i \in 1 .. Len(k) : (k \o e)[i] = k[i]
  BY Joined
<1>5. Len(k \o e) >= 1 /\ 1 \in 1 .. Len(k)
  BY <1>0, <1>1, <1>2, <1>4
<1>6. (k \o e)[1] = l
  BY <1>1, <1>4, <1>5
<1> QED
  BY <1>1, <1>2, <1>3, <1>4, <1>5, <1>6

(* The order of strings is an order. *)
LEMMA BeforeOrder ==
    ASSUME NEW j \in Seq(Nat), NEW k \in Seq(Nat)
    PROVE  ~Before(k, k) /\ (Before(j, k) => ~Before(k, j))
<1>1. ~Before(k, k)
  BY DEF Before
<1>2. ASSUME Before(j, k), Before(k, j) PROVE FALSE
  <2>1. PICK i \in 1 .. Len(k) : /\ i <= Len(j) + 1 /\ \A d \in 1 .. i - 1 : j[d] = k[d]
                                 /\ i <= Len(j) => j[i] < k[i]
    BY <1>2 DEF Before
  <2>2. PICK h \in 1 .. Len(j) : /\ h <= Len(k) + 1 /\ \A d \in 1 .. h - 1 : k[d] = j[d]
                                 /\ h <= Len(k) => k[h] < j[h]
    BY <1>2 DEF Before
  <2>3. i \in Nat /\ h \in Nat /\ Len(j) \in Nat /\ Len(k) \in Nat
    OBVIOUS
  <2>4. CASE i < h
    <3>1. i \in 1 .. h - 1 /\ i <= Len(j)
      BY <2>3, <2>4
    <3>2. j[i] < k[i] /\ k[i] = j[i] /\ j[i] \in Nat
      BY <2>1, <2>2, <3>1
    <3> QED
      BY <3>2
  <2>5. CASE h < i
    <3>1. h \in 1 .. i - 1 /\ h <= Len(k)
      BY <2>3, <2>5
    <3>2. k[h] < j[h] /\ k[h] = j[h] /\ j[h] \in Nat
      BY <2>1, <2>2, <3>1
    <3> QED
      BY <3>2
  <2>6. CASE i = h
    <3>1. j[i] < k[i] /\ k[i] < j[i] /\ j[i] \in Nat /\ k[i] \in Nat
      BY <2>1, <2>2, <2>3, <2>6
    <3> QED
      BY <3>1
  <2> QED
    BY <2>3, <2>4, <2>5, <2>6
<1> QED
  BY <1>1, <1>2

(* Different prefixes decide. *)
LEMMA BeforePrefix ==
    ASSUME NEW j \in Seq(Nat), NEW k \in Seq(Nat), Len(j) >= 1, Len(k) >= 1
    PROVE  /\ j[1] < k[1] => Before(j, k)
           /\ Before(j, Prefix(k[1])) <=> j[1] < k[1]
           /\ StartsWith(j, Prefix(k[1])) <=> j[1] = k[1]
<1>0. Len(j) \in Nat /\ Len(k) \in Nat /\ j[1] \in Nat /\ k[1] \in Nat
  OBVIOUS
<1>1. j[1] < k[1] => Before(j, k)
  BY <1>0 DEF Before
<1>2. Before(j, Prefix(k[1])) <=> j[1] < k[1]
  BY <1>0 DEF Before, Prefix
<1>3. StartsWith(j, Prefix(k[1])) <=> j[1] = k[1]
  <2> DEFINE p == <<k[1]>>
  <2>0. p \in Seq(Nat) /\ Len(p) = 1 /\ p[1] = k[1]
    BY <1>0
  <2>1. ASSUME NEW s \in Seq(Nat), Len(s) >= 1
        PROVE  SubSeq(s, 1, 1) \in Seq(Nat) /\ Len(SubSeq(s, 1, 1)) = 1 /\ SubSeq(s, 1, 1)[1] = s[1]
    BY <2>1
  <2>2. Prefix(k[1]) = p
    BY DEF Prefix
  <2> HIDE DEF p
  <2>3. SubSeq(j, 1, 1) = p <=> j[1] = k[1]
    <3>1. SubSeq(j, 1, 1) \in Seq(Nat) /\ Len(SubSeq(j, 1, 1)) = 1 /\ SubSeq(j, 1, 1)[1] = j[1]
      BY <2>1
    <3>2. ASSUME NEW s \in Seq(Nat), NEW t \in Seq(Nat), Len(s) = 1, Len(t) = 1, s[1] = t[1]
          PROVE  s = t
      BY <3>2
    <3> QED
      BY <2>0, <3>1, <3>2
  <2> QED
    BY Zenon, <1>0, <2>0, <2>2, <2>3 DEF StartsWith
<1> QED
  BY <1>1, <1>2, <1>3

(* In the order of strings, keys are ordered by prefix and then by number. *)
LEMMA KeyOrder ==
    ASSUME NEW l \in Nat, NEW m \in Nat, NEW a \in 0 .. U64Max, NEW b \in 0 .. U64Max
    PROVE  Before(MessageKey(l, a), MessageKey(m, b)) <=> l < m \/ (l = m /\ a < b)
<1>0. U64Max \in Nat /\ a \in Nat /\ b \in Nat /\ Width \in Nat \ {0}
  BY Widest, RedbAssumption
<1>1. ASSUME NEW p \in Nat, NEW q \in Nat, NEW x \in 0 .. U64Max, NEW y \in 0 .. U64Max,
             p < q \/ (p = q /\ x < y)
      PROVE  Before(MessageKey(p, x), MessageKey(q, y))
  <2> DEFINE j == MessageKey(p, x)
             k == MessageKey(q, y)
  <2>0. x \in Nat /\ y \in Nat
    BY Widest
  <2>1. /\ j \in Seq(Nat) /\ Len(j) = Width + 1 /\ j[1] = p
        /\ \A d \in 1 .. Width : j[d + 1] = Digit(x, Width - d)
    BY <2>0, KeyShape
  <2>2. /\ k \in Seq(Nat) /\ Len(k) = Width + 1 /\ k[1] = q
        /\ \A d \in 1 .. Width : k[d + 1] = Digit(y, Width - d)
    BY <2>0, KeyShape
  <2> HIDE DEF j, k
  <2>3. CASE p < q
    BY <1>0, <2>1, <2>2, <2>3, BeforePrefix DEF j, k
  <2>4. CASE p = q /\ x < y
    <3>1. PICK i \in 0 .. Width - 1 :
              /\ Digit(x, i) < Digit(y, i)
              /\ \A d \in i + 1 .. Width - 1 : Digit(x, d) = Digit(y, d)
      BY <2>4, DigitOrder
    <3> DEFINE n == Width - i
    <3>2. n \in 1 .. Width /\ Width - n = i /\ n + 1 \in 1 .. Width + 1
      BY <1>0
    <3>3. j[n + 1] < k[n + 1]
      BY <2>1, <2>2, <3>1, <3>2
    <3>4. ASSUME NEW d \in 1 .. n PROVE j[d] = k[d]
      <4>1. CASE d = 1
        BY <2>1, <2>2, <2>4, <4>1
      <4>2. CASE d # 1
        <5>1. /\ d - 1 \in 1 .. Width /\ (d - 1) + 1 = d
              /\ Width - (d - 1) \in i + 1 .. Width - 1
          BY <1>0, <3>2, <4>2
        <5> QED
          BY <2>1, <2>2, <3>1, <5>1
      <4> QED
        BY <4>1, <4>2
    <3> HIDE DEF n
    <3>5. n + 1 \in 1 .. Len(k) /\ n + 1 <= Len(j) + 1 /\ (n + 1) - 1 = n
      BY <1>0, <2>1, <2>2, <3>2
    <3>6. Before(j, k)
      BY <3>3, <3>4, <3>5 DEF Before
    <3> QED
      BY <3>6 DEF j, k
  <2> QED
    BY <1>1, <2>3, <2>4
<1>2. MessageKey(l, a) \in Seq(Nat) /\ MessageKey(m, b) \in Seq(Nat)
  BY <1>0, KeyShape
<1>3. ASSUME ~(l < m \/ (l = m /\ a < b))
      PROVE  ~Before(MessageKey(l, a), MessageKey(m, b))
  <2>1. CASE l = m /\ a = b
    BY <1>2, <2>1, BeforeOrder
  <2>2. CASE m < l \/ (m = l /\ b < a)
    <3>1. Before(MessageKey(m, b), MessageKey(l, a))
      BY <1>1, <2>2
    <3> QED
      BY <1>2, <3>1, BeforeOrder
  <2> QED
    BY <1>0, <1>3, <2>1, <2>2
<1> QED
  BY <1>1, <1>3

(* No row is stored under the key of another. *)
LEMMA KeyUnique ==
    ASSUME NEW l \in Nat, NEW m \in Nat, NEW a \in 0 .. U64Max, NEW b \in 0 .. U64Max,
           MessageKey(l, a) = MessageKey(m, b)
    PROVE  l = m /\ a = b
<1>0. a \in Nat /\ b \in Nat
  BY Widest
<1>1. MessageKey(l, a) \in Seq(Nat)
  BY <1>0, KeyShape
<1>2. ~Before(MessageKey(l, a), MessageKey(m, b)) /\ ~Before(MessageKey(m, b), MessageKey(l, a))
  BY <1>1, BeforeOrder
<1>3. ~(l < m \/ (l = m /\ a < b)) /\ ~(m < l \/ (m = l /\ b < a))
  BY <1>2, KeyOrder
<1> QED
  BY <1>0, <1>3

(* No range is recorded under the key of another. *)
LEMMA TombstoneKeyUnique ==
    ASSUME NEW l \in Nat, NEW f \in 0 .. U64Max, NEW t \in 0 .. U64Max,
           NEW m \in Nat, NEW g \in 0 .. U64Max, NEW u \in 0 .. U64Max,
           TombstoneKey(l, f, t) = TombstoneKey(m, g, u)
    PROVE  l = m /\ f = g /\ t = u
<1>1. f \in Nat /\ t \in Nat /\ g \in Nat /\ u \in Nat
  BY Widest
<1>2. PICK k \in Seq(Nat) : k = MessageKey(l, f) /\ Len(k) = Width + 1
  BY <1>1, KeyShape
<1>3. PICK j \in Seq(Nat) : j = MessageKey(m, g) /\ Len(j) = Width + 1
  BY <1>1, KeyShape
<1>4. PICK d \in Seq(Nat) : d = Digits(t) /\ Len(d) = Width
  BY <1>1, DigitsShape
<1>5. PICK e \in Seq(Nat) : e = Digits(u) /\ Len(e) = Width
  BY <1>1, DigitsShape
<1>6. TombstoneKey(l, f, t) = k \o d /\ TombstoneKey(m, g, u) = j \o e
  BY Zenon, <1>1, <1>2, <1>3, <1>4, <1>5, TombstoneKeyShape
<1>7. Len(k) = Len(j) /\ Len(d) = Len(e)
  BY <1>2, <1>3, <1>4, <1>5
<1>8. k = j /\ d = e
  <2>1. k \o d = j \o e
    BY Zenon, <1>6
  <2> QED
    BY Zenon, <1>7, <2>1, JoinUnique
<1>9. MessageKey(l, f) = MessageKey(m, g) /\ Digits(t) = Digits(u)
  BY <1>2, <1>3, <1>4, <1>5, <1>8
<1>10. l = m /\ f = g
  BY <1>9, KeyUnique
<1> QED
  BY <1>9, <1>10, DigitsUnique

----------------------------------------------------------------------------
(***************************************************************************)
(* Walks through a table                                                   *)
(***************************************************************************)
(* Keys T can be walked through: each begins with a prefix. *)
Keys(T) == \A k \in DOMAIN T : k \in Seq(Nat) /\ Len(k) >= 1

(* A prefix comes before the keys that begin with it and after those with a
   smaller one. *)
LEMMA PrefixOrder ==
    ASSUME NEW l \in Nat, NEW j \in Seq(Nat), Len(j) >= 1
    PROVE  /\ Prefix(l) \in Seq(Nat) /\ Len(Prefix(l)) = 1 /\ Prefix(l)[1] = l
           /\ Before(j, Prefix(l)) <=> j[1] < l
           /\ StartsWith(j, Prefix(l)) <=> j[1] = l
<1>1. PICK k \in Seq(Nat) : k = Prefix(l) /\ Len(k) = 1 /\ k[1] = l
  <2>1. Prefix(l) \in Seq(Nat) /\ Len(Prefix(l)) = 1 /\ Prefix(l)[1] = l
    BY DEF Prefix
  <2> QED
    BY <2>1
<1>2. Len(k) >= 1
  BY <1>1
<1>3. /\ Before(j, Prefix(k[1])) <=> j[1] < k[1]
      /\ StartsWith(j, Prefix(k[1])) <=> j[1] = k[1]
  BY <1>2, BeforePrefix
<1> QED
  BY <1>1, <1>3

(* A loop that starts at a key with the prefix and breaks at the first one
   without it sees all that have the prefix from there on, and no others. *)
LEMMA WalkIs ==
    ASSUME NEW T, Keys(T), NEW l \in Nat, NEW s \in Seq(Nat), Len(s) >= 1, s[1] = l
    PROVE  Walk(T, Prefix(l), s) = {k \in DOMAIN T : k[1] = l /\ ~Before(k, s)}
<1> DEFINE range == RangeFrom(T, s)
<1>1. ASSUME NEW k \in range
      PROVE  k \in Seq(Nat) /\ Len(k) >= 1 /\ k[1] \in Nat /\ k[1] >= l
  <2>1. k \in Seq(Nat) /\ Len(k) >= 1 /\ ~Before(k, s)
    BY DEF RangeFrom, Keys
  <2>2. ~(k[1] < s[1])
    BY <2>1, BeforePrefix
  <2>3. k[1] \in Nat
    BY <2>1
  <2> QED
    BY <2>1, <2>2, <2>3
<1>2. \A k \in range : StartsWith(k, Prefix(l)) <=> k[1] = l
  BY <1>1, PrefixOrder
<1>3. ASSUME NEW k \in range, k[1] = l, NEW j \in range, ~Before(k, j)
      PROVE  j[1] = l
  <2>1. ~(k[1] < j[1])
    BY <1>1, <1>3, BeforePrefix
  <2> QED
    BY <1>1, <1>3, <2>1
<1>4. ASSUME NEW k \in range, \A j \in range : ~Before(k, j) => j[1] = l
      PROVE  k[1] = l
  <2>1. ~Before(k, k)
    BY <1>1, BeforeOrder
  <2> QED
    BY <1>4, <2>1
<1>5. range = {k \in DOMAIN T : ~Before(k, s)}
  BY DEF RangeFrom
<1>6. Walk(T, Prefix(l), s) = {k \in range : \A j \in range : ~Before(k, j) => j[1] = l}
  BY <1>2 DEF Walk
<1> HIDE DEF range
<1>7. {k \in range : \A j \in range : ~Before(k, j) => j[1] = l} = {k \in range : k[1] = l}
  BY <1>3, <1>4
<1> QED
  BY <1>5, <1>6, <1>7

----------------------------------------------------------------------------
(***************************************************************************)
(* The inductive invariant of the message tables: every row lies under its *)
(* own key, none above the head of its log and none missing below it;      *)
(* every range lies under its own key                                      *)
(***************************************************************************)
Filed(hs, ms) ==
    /\ hs \in [Log -> 0 .. MaxHead]
    /\ \A k \in DOMAIN ms : /\ ms[k] \in Row /\ ms[k].head_id <= hs[ms[k].log]
                            /\ k = MessageKey(ms[k].log, ms[k].head_id)
    /\ \A l \in Log : \A h \in 1 .. hs[l] : MessageKey(l, h) \in DOMAIN ms

RangeRow == [log : Log, from : Bounds, to : Bounds]

FiledRanges(ts) ==
    \A k \in DOMAIN ts : /\ ts[k] \in RangeRow
                         /\ k = TombstoneKey(ts[k].log, ts[k].from, ts[k].to)

(* Numbers that occur in keys have a key of their own. *)
LEMMA Numbers ==
    /\ U64Max \in Nat /\ MaxHead \in Nat /\ MaxHead + 1 \in 0 .. U64Max
    /\ \A h \in 0 .. MaxHead + 1 : h \in 0 .. U64Max
    /\ MaxSequence \in Nat /\ MaxSequence + 1 \in 0 .. U64Max
    /\ \A l \in Log : l \in Nat
    /\ \A q \in Queue : q \in Nat
BY Widest, RedbAssumption

(* A key leads to the row with its number, if there is one. *)
LEMMA RowUnder ==
    ASSUME NEW hs, NEW ms, Filed(hs, ms), NEW l \in Log
    PROVE  /\ hs[l] \in 0 .. MaxHead
           /\ \A h \in 1 .. hs[l] : LET k == MessageKey(l, h)
                                    IN  /\ k \in DOMAIN ms /\ ms[k] \in Row
                                        /\ ms[k].log = l /\ ms[k].head_id = h
           /\ \A h \in 0 .. U64Max : MessageKey(l, h) \in DOMAIN ms <=> h \in 1 .. hs[l]
<1>1. hs[l] \in 0 .. MaxHead
  BY DEF Filed
<1>2. ASSUME NEW h \in 0 .. U64Max, MessageKey(l, h) \in DOMAIN ms
      PROVE  /\ ms[MessageKey(l, h)] \in Row /\ h \in 1 .. hs[l]
             /\ ms[MessageKey(l, h)].log = l /\ ms[MessageKey(l, h)].head_id = h
  <2>1. PICK k \in DOMAIN ms : k = MessageKey(l, h)
    BY <1>2
  <2>2. /\ ms[k] \in Row /\ ms[k].head_id <= hs[ms[k].log]
        /\ k = MessageKey(ms[k].log, ms[k].head_id)
    BY DEF Filed
  <2>3. ms[k].log \in Log /\ ms[k].head_id \in 1 .. MaxHead
    BY <2>2 DEF Row
  <2>4. ms[k].log \in Nat /\ ms[k].head_id \in 0 .. U64Max /\ l \in Nat
    BY <2>3, Numbers
  <2>5. ms[k].log = l /\ ms[k].head_id = h
    BY <2>1, <2>2, <2>4, KeyUnique
  <2> QED
    BY <1>1, <2>1, <2>2, <2>3, <2>5, Numbers
<1>3. ASSUME NEW h \in 1 .. hs[l]
      PROVE  h \in 0 .. U64Max /\ MessageKey(l, h) \in DOMAIN ms
  BY <1>1, Numbers DEF Filed
<1> QED
  BY <1>1, <1>2, <1>3

(* The next row, or another one for a head id there is, leaves the tables as
   they should be. *)
LEMMA InsertRow ==
    ASSUME NEW hs, NEW ms, Filed(hs, ms), NEW x \in Row, x.head_id <= hs[x.log] + 1
    PROVE  Filed([hs EXCEPT ![x.log] = IF hs[x.log] < x.head_id THEN x.head_id ELSE hs[x.log]],
                 Insert(ms, MessageKey(x.log, x.head_id), x))
<1> DEFINE l == x.log
           h == x.head_id
           c == MessageKey(l, h)
           n == IF hs[l] < h THEN h ELSE hs[l]
           hn == [hs EXCEPT ![l] = n]
           mn == Insert(ms, c, x)
<1>1. l \in Log /\ h \in 1 .. MaxHead /\ MaxHead \in Nat
  BY RedbAssumption DEF Row
<1>2. hs[l] \in 0 .. MaxHead /\ hs \in [Log -> 0 .. MaxHead]
  BY <1>1 DEF Filed
<1>3. n \in 0 .. MaxHead /\ hs[l] <= n /\ h <= n
  BY <1>1, <1>2
<1>4. hn \in [Log -> 0 .. MaxHead] /\ hn[l] = n /\ \A m \in Log : m # l => hn[m] = hs[m]
  BY <1>1, <1>2, <1>3
<1>5. DOMAIN mn = DOMAIN ms \cup {c} /\ mn[c] = x /\ \A k \in DOMAIN ms : k # c => mn[k] = ms[k]
  BY DEF Insert
<1> HIDE DEF n, hn, mn
<1>6. ASSUME NEW k \in DOMAIN mn
      PROVE  /\ mn[k] \in Row /\ mn[k].head_id <= hn[mn[k].log]
             /\ k = MessageKey(mn[k].log, mn[k].head_id)
  <2>1. CASE k = c
    BY <1>3, <1>4, <1>5, <2>1
  <2>2. CASE k # c
    <3>1. /\ k \in DOMAIN ms /\ mn[k] = ms[k] /\ ms[k] \in Row
          /\ ms[k].head_id <= hs[ms[k].log] /\ k = MessageKey(ms[k].log, ms[k].head_id)
      BY <1>5, <2>2 DEF Filed
    <3>2. ms[k].log \in Log /\ ms[k].head_id \in Nat
      BY <3>1 DEF Row
    <3>3. hs[ms[k].log] <= hn[ms[k].log] /\ hs[ms[k].log] \in Nat /\ hn[ms[k].log] \in Nat
      BY <1>1, <1>2, <1>3, <1>4, <3>2
    <3> QED
      BY <3>1, <3>2, <3>3
  <2> QED
    BY <2>1, <2>2
<1>7. ASSUME NEW m \in Log, NEW g \in 1 .. hn[m]
      PROVE  MessageKey(m, g) \in DOMAIN mn
  <2>1. CASE m = l /\ g = h
    BY <1>5, <2>1
  <2>2. CASE ~(m = l /\ g = h)
    <3>1. g \in 1 .. hs[m]
      BY <1>1, <1>2, <1>4, <2>2 DEF n
    <3> QED
      BY <1>5, <3>1 DEF Filed
  <2> QED
    BY <2>1, <2>2
<1>8. Filed(hn, mn)
  BY <1>4, <1>6, <1>7 DEF Filed
<1> QED
  BY <1>8 DEF hn, n, mn

(* Rows that are only flagged stay where they are. *)
LEMMA FlagRows ==
    ASSUME Filed(heads, messages), NEW l, NEW f, NEW t
    PROVE  Filed(heads, Deleted(l, f, t))
<1> DEFINE mn == Deleted(l, f, t)
<1>1. ASSUME NEW k \in DOMAIN messages
      PROVE  /\ mn[k] \in Row /\ mn[k].log = messages[k].log
             /\ mn[k].head_id = messages[k].head_id
  <2>1. messages[k] \in Row
    BY DEF Filed
  <2> DEFINE d == messages[k].deleted \/ k \in Touched(l, f, t)
  <2>2. mn[k] = [messages[k] EXCEPT !.deleted = d] /\ d \in BOOLEAN
    BY DEF Deleted
  <2> HIDE DEF d, mn
  <2> QED
    BY <2>1, <2>2 DEF Row
<1>2. DOMAIN mn = DOMAIN messages
  BY DEF Deleted
<1> HIDE DEF mn
<1>3. Filed(heads, mn)
  BY <1>1, <1>2 DEF Filed
<1> QED
  BY <1>3 DEF mn

(* The key of a row comes before those of later rows, and after the prefixes
   of earlier logs. *)
LEMMA RowKey ==
    ASSUME NEW hs, NEW ms, Filed(hs, ms), NEW k \in DOMAIN ms
    PROVE  /\ k \in Seq(Nat) /\ Len(k) >= 1 /\ k[1] = ms[k].log
           /\ ms[k].log \in Log /\ ms[k].head_id \in 1 .. hs[ms[k].log] /\ ms[k].head_id \in Nat
           /\ \A l \in Nat, h \in 0 .. U64Max :
                 Before(k, MessageKey(l, h)) <=> ms[k].log < l \/ (ms[k].log = l /\ ms[k].head_id < h)
           /\ \A j \in DOMAIN ms :
                 /\ Before(k, j) <=> \/ ms[k].log < ms[j].log
                                     \/ ms[k].log = ms[j].log /\ ms[k].head_id < ms[j].head_id
                 /\ ms[k].log = ms[j].log /\ ms[k].head_id = ms[j].head_id => k = j
<1>1. \A j \in DOMAIN ms : /\ ms[j].log \in Log /\ ms[j].head_id \in 1 .. MaxHead
                           /\ ms[j].head_id <= hs[ms[j].log]
                           /\ j = MessageKey(ms[j].log, ms[j].head_id)
  BY DEF Filed, Row
<1>2. \A j \in DOMAIN ms : /\ ms[j].log \in Nat /\ ms[j].head_id \in Nat
                           /\ ms[j].head_id \in 0 .. U64Max
  BY <1>1, Numbers
<1>3. PICK l \in Nat, h \in 0 .. U64Max : /\ l = ms[k].log /\ h = ms[k].head_id
                                          /\ k = MessageKey(l, h) /\ h \in Nat
  BY <1>1, <1>2
<1>4. k \in Seq(Nat) /\ Len(k) >= 1 /\ k[1] = l
  <2>1. k \in Seq(Nat) /\ Len(k) = Width + 1 /\ k[1] = l
    BY <1>3, KeyShape
  <2> QED
    BY <2>1, RedbAssumption
<1>5. \A m \in Nat, g \in 0 .. U64Max : Before(k, MessageKey(m, g)) <=> l < m \/ (l = m /\ h < g)
  BY <1>3, KeyOrder
<1>6. ASSUME NEW j \in DOMAIN ms
      PROVE  Before(k, j) <=> l < ms[j].log \/ (l = ms[j].log /\ h < ms[j].head_id)
  BY <1>1, <1>2, <1>5
<1>7. hs[ms[k].log] \in Nat
  BY <1>1, Numbers DEF Filed
<1>8. ASSUME NEW j \in DOMAIN ms, ms[k].log = ms[j].log, ms[k].head_id = ms[j].head_id
      PROVE  k = j
  BY <1>1, <1>8
<1>9. ms[k].log \in Log /\ ms[k].head_id \in 1 .. hs[ms[k].log] /\ ms[k].head_id \in Nat
  BY <1>1, <1>2, <1>7
<1>10. \A m \in Nat, g \in 0 .. U64Max :
          Before(k, MessageKey(m, g)) <=> ms[k].log < m \/ (ms[k].log = m /\ ms[k].head_id < g)
  BY <1>3, <1>5
<1>11. \A j \in DOMAIN ms : Before(k, j) <=> \/ ms[k].log < ms[j].log
                                             \/ ms[k].log = ms[j].log /\ ms[k].head_id < ms[j].head_id
  BY <1>3, <1>6
<1>12. k[1] = ms[k].log
  BY Zenon, <1>3, <1>4
<1> QED
  BY <1>4, <1>8, <1>9, <1>10, <1>11, <1>12

(* The loop over range(key of f ..) sees the messages of the log from f on. *)
LEMMA WalkMessages ==
    ASSUME Filed(heads, messages), NEW l \in Log, NEW f \in 0 .. U64Max
    PROVE  Walk(messages, Prefix(l), MessageKey(l, f)) =
              {k \in DOMAIN messages : messages[k].log = l /\ f <= messages[k].head_id}
<1>1. Keys(messages)
  BY RowKey DEF Keys
<1>2. l \in Nat /\ f \in Nat /\ Width \in Nat
  BY Numbers, RedbAssumption
<1>3. PICK s \in Seq(Nat) : s = MessageKey(l, f) /\ Len(s) >= 1 /\ s[1] = l
  <2>1. /\ MessageKey(l, f) \in Seq(Nat) /\ Len(MessageKey(l, f)) = Width + 1
        /\ MessageKey(l, f)[1] = l
    BY <1>2, KeyShape
  <2> QED
    BY <1>2, <2>1
<1>4. Walk(messages, Prefix(l), s) = {k \in DOMAIN messages : k[1] = l /\ ~Before(k, s)}
  BY <1>1, <1>2, <1>3, WalkIs
<1>5. ASSUME NEW k \in DOMAIN messages
      PROVE  k[1] = l /\ ~Before(k, s) <=> messages[k].log = l /\ f <= messages[k].head_id
  <2>1. /\ k[1] = messages[k].log /\ messages[k].head_id \in Nat /\ messages[k].log \in Nat
        /\ Before(k, s) <=> messages[k].log < l \/ (messages[k].log = l /\ messages[k].head_id < f)
    BY <1>2, <1>3, RowKey, Numbers
  <2> QED
    BY <1>2, <2>1
<1> QED
  BY <1>3, <1>4, <1>5

(* tombstone_range visits the messages of the log in the range, and no others. *)
LEMMA TouchedIs ==
    ASSUME Filed(heads, messages), NEW l \in Log, NEW f \in 0 .. U64Max, NEW t \in Nat
    PROVE  Touched(l, f, t) =
              {k \in DOMAIN messages : /\ messages[k].log = l
                                       /\ f <= messages[k].head_id /\ messages[k].head_id <= t}
<1> DEFINE walk == Walk(messages, Prefix(l), MessageKey(l, f))
<1>1. walk = {k \in DOMAIN messages : messages[k].log = l /\ f <= messages[k].head_id}
  BY WalkMessages
<1>2. Touched(l, f, t) = {k \in walk : \A j \in walk : ~Before(k, j) => messages[j].head_id <= t}
  BY DEF Touched
<1> HIDE DEF walk
<1>3. ASSUME NEW k \in walk, NEW j \in walk
      PROVE  /\ Before(k, j) <=> messages[k].head_id < messages[j].head_id
             /\ messages[k].head_id \in Nat /\ messages[j].head_id \in Nat
  <2>1. /\ k \in DOMAIN messages /\ j \in DOMAIN messages
        /\ messages[k].log = l /\ messages[j].log = l /\ l \in Nat
    BY <1>1, Numbers
  <2> QED
    BY <2>1, RowKey
<1>4. ASSUME NEW k \in walk
      PROVE  (\A j \in walk : ~Before(k, j) => messages[j].head_id <= t)
                <=> messages[k].head_id <= t
  <2>1. ASSUME messages[k].head_id <= t, NEW j \in walk, ~Before(k, j)
        PROVE  messages[j].head_id <= t
    BY <1>3, <2>1
  <2>2. ~Before(k, k)
    BY <1>3
  <2> QED
    BY <2>1, <2>2
<1> QED
  BY <1>1, <1>2, <1>4

(* apply_tombstone_markers looks at the ranges of the message's log. *)
LEMMA WalkRanges ==
    ASSUME NEW ts, FiledRanges(ts), NEW l \in Log
    PROVE  Walk(ts, Prefix(l), Prefix(l)) = {k \in DOMAIN ts : ts[k].log = l}
<1>1. l \in Nat
  BY Numbers
<1>2. ASSUME NEW k \in DOMAIN ts
      PROVE  k \in Seq(Nat) /\ Len(k) >= 1 /\ k[1] = ts[k].log
  <2>1. PICK m \in Nat, f \in Nat, t \in Nat : k = TombstoneKey(m, f, t) /\ m = ts[k].log
    <3>1. /\ k = TombstoneKey(ts[k].log, ts[k].from, ts[k].to)
          /\ ts[k].log \in Log /\ ts[k].from \in Bounds /\ ts[k].to \in Bounds
      BY DEF FiledRanges, RangeRow
    <3>2. \A b \in Bounds : b \in Nat
      BY Widest, RedbAssumption
    <3> QED
      BY <3>1, <3>2, Numbers
  <2> QED
    BY Zenon, <2>1, TombstoneKeyShape
<1>3. Keys(ts)
  BY <1>2 DEF Keys
<1>4. PICK s \in Seq(Nat) : s = Prefix(l) /\ Len(s) >= 1 /\ s[1] = l
  <2>1. Prefix(l) \in Seq(Nat) /\ Len(Prefix(l)) >= 1 /\ Prefix(l)[1] = l
    BY <1>1 DEF Prefix
  <2> QED
    BY <2>1
<1>5. Walk(ts, Prefix(l), s) = {k \in DOMAIN ts : k[1] = l /\ ~Before(k, s)}
  BY <1>1, <1>3, <1>4, WalkIs
<1>6. ASSUME NEW k \in DOMAIN ts
      PROVE  k[1] = l /\ ~Before(k, s) <=> ts[k].log = l
  <2>1. Before(k, s) <=> k[1] < l
    BY <1>1, <1>2, <1>4, PrefixOrder
  <2> QED
    BY <1>1, <1>2, <2>1
<1> QED
  BY <1>4, <1>5, <1>6

(* Recording a range adds it to those of its log and takes none away. *)
LEMMA RecordRange ==
    ASSUME FiledRanges(tombstones), NEW l \in Log, NEW f \in Bounds, NEW t \in Bounds
    PROVE  /\ FiledRanges(Recorded(l, f, t))
           /\ \A r : (\E k \in DOMAIN Recorded(l, f, t) : Recorded(l, f, t)[k] = r) <=>
                        \/ r = [log |-> l, from |-> f, to |-> t]
                        \/ \E k \in DOMAIN tombstones : tombstones[k] = r
<1> DEFINE x == [log |-> l, from |-> f, to |-> t]
           c == TombstoneKey(l, f, t)
           tn == Recorded(l, f, t)
<1>1. /\ DOMAIN tn = DOMAIN tombstones \cup {c} /\ tn[c] = x
      /\ \A k \in DOMAIN tombstones : k # c => tn[k] = tombstones[k]
  BY DEF Recorded, Insert
<1>2. x \in RangeRow /\ x.log = l /\ x.from = f /\ x.to = t
  BY DEF RangeRow
<1> HIDE DEF tn
<1>3. FiledRanges(tn)
  <2> SUFFICES ASSUME NEW k \in DOMAIN tn
               PROVE  tn[k] \in RangeRow /\ k = TombstoneKey(tn[k].log, tn[k].from, tn[k].to)
    BY DEF FiledRanges
  <2>1. CASE k = c
    BY <1>1, <1>2, <2>1
  <2>2. CASE k # c
    BY <1>1, <2>2 DEF FiledRanges
  <2> QED
    BY <2>1, <2>2
<1>4. c \in DOMAIN tombstones => tombstones[c] = x
  <2> SUFFICES ASSUME c \in DOMAIN tombstones PROVE tombstones[c] = x
    OBVIOUS
  <2>1. /\ tombstones[c] \in RangeRow
        /\ c = TombstoneKey(tombstones[c].log, tombstones[c].from, tombstones[c].to)
    BY DEF FiledRanges
  <2>2. PICK m \in Log, g \in Bounds, u \in Bounds :
           tombstones[c] = [log |-> m, from |-> g, to |-> u]
    BY <2>1 DEF RangeRow
  <2>3. \A b \in Bounds : b \in 0 .. U64Max
    BY RedbAssumption
  <2>4. l = m /\ f = g /\ t = u
    <3>1. TombstoneKey(l, f, t) = TombstoneKey(m, g, u)
      BY <2>1, <2>2
    <3> QED
      BY <2>3, <3>1, Numbers, TombstoneKeyUnique
  <2> QED
    BY <2>2, <2>4
<1> HIDE DEF x, c
<1>5. ASSUME NEW r
      PROVE  (\E k \in DOMAIN tn : tn[k] = r) <=>
                r = x \/ \E k \in DOMAIN tombstones : tombstones[k] = r
  BY <1>1, <1>4
<1> QED
  BY <1>3, <1>5 DEF tn, x

(* A page of fetch_messages *)
LEMMA PageInOrder ==
    ASSUME Filed(heads, messages), NEW l \in Log, NEW from \in 1 .. MaxHead, NEW limit \in Nat
    PROVE  LET page == FetchMessages(l, from, limit)
               rest == heads[l] + 1 - from
           IN  /\ Len(page) = IF from > heads[l] THEN 0 ELSE IF rest < limit THEN rest ELSE limit
               /\ \A i \in 1 .. Len(page) : page[i].log = l /\ page[i].head_id = from + i - 1
<1> DEFINE walk == Walk(messages, Prefix(l), MessageKey(l, from))
           Nth(i) == CHOOSE k \in walk : Cardinality({j \in walk : Before(j, k)}) = i - 1
           n == heads[l]
           c == IF from > n THEN 0 ELSE n - from + 1
           b == Min({Cardinality(walk), limit})
<1>1. n \in Nat /\ from \in Nat \ {0} /\ n \in 0 .. MaxHead /\ from \in 0 .. U64Max /\ l \in Nat
  BY RowUnder, Numbers
<1>2. walk = {k \in DOMAIN messages : messages[k].log = l /\ from <= messages[k].head_id}
  BY <1>1, WalkMessages
<1>3. FetchMessages(l, from, limit) = [i \in 1 .. b |-> messages[Nth(i)]]
  BY DEF FetchMessages
<1> HIDE DEF walk
<1>4. ASSUME NEW k \in walk
      PROVE  /\ messages[k].log = l /\ messages[k].head_id \in from .. n
             /\ messages[k].head_id \in Nat
             /\ \A j \in walk : /\ Before(j, k) <=> messages[j].head_id < messages[k].head_id
                                /\ messages[j].head_id = messages[k].head_id => j = k
  <2>1. \A j \in walk : j \in DOMAIN messages /\ messages[j].log = l /\ from <= messages[j].head_id
    BY <1>2
  <2>2. messages[k].head_id \in 1 .. n /\ messages[k].head_id \in Nat
    BY <2>1, RowKey
  <2>3. ASSUME NEW j \in walk
        PROVE  /\ Before(j, k) <=> messages[j].head_id < messages[k].head_id
               /\ messages[j].head_id = messages[k].head_id => j = k
    <3>1. j \in DOMAIN messages /\ k \in DOMAIN messages
          /\ messages[j].log = l /\ messages[k].log = l /\ ~(l < l)
      BY <1>1, <2>1
    <3>2. /\ Before(j, k) <=> \/ messages[j].log < messages[k].log
                              \/ /\ messages[j].log = messages[k].log
                                 /\ messages[j].head_id < messages[k].head_id
          /\ /\ messages[j].log = messages[k].log
             /\ messages[j].head_id = messages[k].head_id
             => j = k
      BY <3>1, RowKey
    <3> QED
      BY <3>1, <3>2
  <2> QED
    BY <1>1, <2>1, <2>2, <2>3
<1>5. ASSUME NEW h \in from .. n
      PROVE  \E k \in walk : messages[k].head_id = h
  <2>1. h \in 1 .. heads[l] /\ from <= h
    BY <1>1
  <2>2. MessageKey(l, h) \in DOMAIN messages /\ messages[MessageKey(l, h)].log = l
        /\ messages[MessageKey(l, h)].head_id = h
    BY <2>1, RowUnder
  <2> QED
    BY <1>2, <2>1, <2>2
<1>6. ASSUME NEW m \in from - 1 .. n
      PROVE  LET S == {k \in walk : messages[k].head_id <= m}
             IN  IsFiniteSet(S) /\ Cardinality(S) = IF from > m THEN 0 ELSE m - from + 1
  <2> DEFINE S == {k \in walk : messages[k].head_id <= m}
             f == [k \in S |-> messages[k].head_id]
  <2>1. m \in Int /\ from \in Int /\ m <= n
    BY <1>1
  <2>2. f \in [S -> from .. m]
    BY <1>1, <1>4, <2>1
  <2>3. \A x, y \in S : f[x] = f[y] => x = y
    BY <1>4
  <2>4. \A h \in from .. m : \E x \in S : f[x] = h
    <3> SUFFICES ASSUME NEW h \in from .. m PROVE \E x \in S : f[x] = h
      OBVIOUS
    <3>1. h \in from .. n /\ h <= m
      BY <1>1, <2>1
    <3>2. PICK k \in walk : messages[k].head_id = h
      BY <1>5, <3>1
    <3> QED
      BY <3>1, <3>2
  <2> HIDE DEF S, f
  <2>5. IsFiniteSet(S) /\ Cardinality(S) = IF from > m THEN 0 ELSE m - from + 1
    BY <2>1, <2>2, <2>3, <2>4, CountByKey
  <2> QED
    BY <2>5 DEF S
<1>7. Cardinality(walk) = c
  <2>1. CASE from <= n
    <3>1. n \in from - 1 .. n
      BY <1>1, <2>1
    <3>2. {k \in walk : messages[k].head_id <= n} = walk
      BY <1>1, <1>4
    <3> QED
      BY Zenon, <1>6, <3>1, <3>2
  <2>2. CASE from > n
    <3>1. walk = {}
      BY <1>1, <1>4, <2>2
    <3> QED
      BY <2>2, <3>1, FS_EmptySet
  <2> QED
    BY <1>1, <2>1, <2>2
<1>8. ASSUME NEW k \in walk
      PROVE  Cardinality({j \in walk : Before(j, k)}) = messages[k].head_id - from
  <2> DEFINE h == messages[k].head_id
             m == h - 1
  <2>1. h \in from .. n /\ m \in from - 1 .. n /\ m \in Int /\ h \in Nat
    BY <1>1, <1>4
  <2>2. {j \in walk : Before(j, k)} = {j \in walk : messages[j].head_id <= m}
    BY <1>4, <2>1
  <2>3. Cardinality({j \in walk : messages[j].head_id <= m}) =
           IF from > m THEN 0 ELSE m - from + 1
    BY Zenon, <1>6, <2>1
  <2>4. (IF from > m THEN 0 ELSE m - from + 1) = h - from
    BY <1>1, <2>1
  <2> QED
    BY Zenon, <2>2, <2>3, <2>4
<1>9. ASSUME NEW i \in 1 .. c
      PROVE  Nth(i) \in walk /\ messages[Nth(i)].head_id = from + i - 1
  <2>1. from + i - 1 \in from .. n /\ i \in Nat
    BY <1>1
  <2>2. PICK k \in walk : messages[k].head_id = from + i - 1
    BY <1>5, <2>1
  <2>3. Cardinality({j \in walk : Before(j, k)}) = i - 1
    <3>1. Cardinality({j \in walk : Before(j, k)}) = messages[k].head_id - from
      BY <1>8
    <3>2. (from + i - 1) - from = i - 1
      BY <1>1, <2>1
    <3> QED
      BY <2>2, <3>1, <3>2
  <2>4. Nth(i) \in walk /\ Cardinality({j \in walk : Before(j, Nth(i))}) = i - 1
    BY Zenon, <2>3
  <2> HIDE DEF Nth
  <2>5. messages[Nth(i)].head_id - from = i - 1 /\ messages[Nth(i)].head_id \in Nat
    BY <1>4, <1>8, <2>4
  <2> QED
    BY <1>1, <2>1, <2>4, <2>5
<1>10. c \in Nat /\ b = IF c < limit THEN c ELSE limit
  <2>1. c \in Nat
    BY <1>1
  <2> DEFINE P == {c, limit}
             s == IF c < limit THEN c ELSE limit
  <2>2. s \in P /\ (\A y \in P : s <= y) /\ P \subseteq Nat
    BY <2>1
  <2>3. Min(P) = CHOOSE x \in P : \A y \in P : x <= y
    BY DEF Min
  <2> HIDE DEF P, s, c
  <2>4. Min(P) \in P /\ \A y \in P : Min(P) <= y
    BY Zenon, <2>2, <2>3
  <2>5. Min(P) = s
    <3>1. Min(P) \in Nat /\ s \in Nat /\ Min(P) <= s /\ s <= Min(P)
      BY Zenon, <2>2, <2>4
    <3> QED
      BY <3>1
  <2> QED
    BY <1>7, <2>1, <2>5 DEF P, s
<1> DEFINE page == [i \in 1 .. b |-> messages[Nth(i)]]
<1>11. b \in Nat /\ b <= c
  BY <1>10
<1>12. Len(page) = b /\ \A i \in 1 .. b : page[i] = messages[Nth(i)]
  <2> HIDE DEF Nth, b
  <2> QED
    BY <1>11
<1>13. \A i \in 1 .. b : page[i].log = l /\ page[i].head_id = from + i - 1
  <2> HIDE DEF Nth, b, page
  <2>1. \A i \in 1 .. b : i \in 1 .. c
    BY <1>10, <1>11
  <2> QED
    BY <1>4, <1>9, <1>12, <2>1
<1>14. b = IF from > n THEN 0 ELSE IF n + 1 - from < limit THEN n + 1 - from ELSE limit
  BY <1>1, <1>10
<1> HIDE DEF b, page, Nth
<1>15. FetchMessages(l, from, limit) = page
  BY <1>3 DEF page
<1> QED
  BY <1>12, <1>13, <1>14, <1>15
=============================================================================
