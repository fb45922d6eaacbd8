-------------------------- MODULE ConfigForm_proofs --------------------------
(***************************************************************************)
(* Proofs about ConfigForm, for any number of pages and tokens and whatever*)
(* people type: what the readings of addresses and ports return, the types,*)
(* that a page given its token before its settings undoes nobody's change, *)
(* that no form leaves the board without a name, a port or a password, and *)
(* that usual forms, and those nobody touched, are stored as they are      *)
(* shown.                                                                  *)
(***************************************************************************)
EXTENDS ConfigForm, FiniteSetTheorems, WellFoundedInduction, TLAPS

-----------------------------------------------------------------------------
(* Recursion *)

\* Induction, said of a set.
LEMMA SetInduction ==
  ASSUME NEW S, 0 \in S, \A n \in Nat : n \in S => n + 1 \in S
  PROVE  Nat \subseteq S
<1> DEFINE R == OpToRel(<, Nat)
           T == Nat \ S
<1>1. \A x, y \in Nat : x < y => <<x, y>> \in R
  BY DEF OpToRel
<1> SUFFICES ASSUME T # {} PROVE FALSE
  OBVIOUS
<1>2. IsWellFoundedOn(R, Nat)
  BY NatLessThanWellFounded, Zenon
<1>3. T \subseteq Nat
  OBVIOUS
<1> HIDE DEF R
<1>4. \E x \in T : \A y \in T : ~ (<<y, x>> \in R)
  BY <1>2, <1>3, WFMin
<1>5. PICK x \in T : \A y \in T : ~ (<<y, x>> \in R)
  BY <1>4
<1>6. x # 0 /\ x \in Nat
  BY <1>5
<1>7. x - 1 \in Nat /\ x - 1 < x
  BY <1>6
<1>8. x - 1 \in S
  BY <1>1, <1>5, <1>6, <1>7
<1>9. (x - 1) + 1 = x
  BY <1>6
<1> QED
  BY <1>5, <1>7, <1>8, <1>9

LEMMA NatStep ==
  ASSUME NEW v \in Nat, NEW base \in Nat, NEW d \in Nat
  PROVE  v * base + d \in Nat
OBVIOUS

\* value, the function Reading is defined by.
IsValue(v, base, group, n) ==
  v = [k \in 0 .. n |-> IF k = 0 THEN 0 ELSE v[k - 1] * base + group[k]]

\* What a group reads as, digit by digit.
LEMMA ReadingIs ==
  ASSUME NEW base \in Nat, NEW group \in Seq(Nat)
  PROVE  \E v : /\ v \in [0 .. Len(group) -> Nat]
                /\ v[0] = 0
                /\ \A n \in 1 .. Len(group) : v[n] = v[n - 1] * base + group[n]
                /\ Reading(base, group) = v[Len(group)]
<1> DEFINE N == Len(group)
<1>1. N \in Nat /\ \A n \in 1 .. N : group[n] \in Nat
  OBVIOUS
<1> DEFINE P(n) == \E f : f \in [0 .. n -> Nat] /\ IsValue(f, base, group, n)
           S == {n \in Nat : n <= N => P(n)}
<1>2. 0 \in S
  <2>1. [n \in 0 .. 0 |-> 0] \in [0 .. 0 -> Nat] /\ IsValue([n \in 0 .. 0 |-> 0], base, group, 0)
    BY DEF IsValue
  <2> QED
    BY <2>1
<1>3. ASSUME NEW n \in Nat, n \in S PROVE n + 1 \in S
  <2> SUFFICES ASSUME n + 1 <= N, P(n) PROVE P(n + 1)
    <3> HIDE DEF P, N
    <3> QED
      BY <1>1, <1>3
  <2>1. PICK f : f \in [0 .. n -> Nat] /\ IsValue(f, base, group, n)
    OBVIOUS
  <2> DEFINE last == f[n] * base + group[n + 1]
             g == [k \in 0 .. n + 1 |-> IF k = n + 1 THEN last ELSE f[k]]
  <2>2. last \in Nat
    BY <1>1, <2>1, NatStep
  <2>3. \A k \in 1 .. n : f[k] = f[k - 1] * base + group[k]
    <3>1. f = [k \in 0 .. n |-> IF k = 0 THEN 0 ELSE f[k - 1] * base + group[k]]
      BY ONLY <2>1, Zenon DEF IsValue
    <3>2. ASSUME NEW k \in 1 .. n PROVE k \in 0 .. n /\ k # 0
      BY ONLY <3>2, n \in Nat
    <3> QED
      BY ONLY <3>1, <3>2, Zenon
  <2>4. f[0] = 0
    BY <2>1 DEF IsValue
  <2>5. g \in [0 .. n + 1 -> Nat]
    <3> HIDE DEF last
    <3> QED
      BY <2>1, <2>2
  <2>6. ASSUME NEW k \in 0 .. n + 1
        PROVE  g[k] = IF k = 0 THEN 0 ELSE g[k - 1] * base + group[k]
    <3>1. CASE k = n + 1
      BY <3>1
    <3>2. CASE k = 0
      BY <2>4, <3>2
    <3>3. CASE k \in 1 .. n
      <4>1. g[k] = f[k] /\ g[k - 1] = f[k - 1] /\ k # 0
        <5> HIDE DEF last
        <5> QED
          BY <3>3
      <4>2. f[k] = f[k - 1] * base + group[k]
        BY <2>3, <3>3
      <4> HIDE DEF g
      <4> QED
        BY <4>1, <4>2
    <3> QED
      BY <3>1, <3>2, <3>3
  <2>7. IsValue(g, base, group, n + 1)
    <3> HIDE DEF last
    <3>1. g = [k \in 0 .. n + 1 |-> g[k]]
      OBVIOUS
    <3> HIDE DEF g
    <3> QED
      BY <2>6, <3>1, Zenon DEF IsValue
  <2> QED
    BY <2>5, <2>7
<1>4. N \in S
  <2> HIDE DEF S
  <2>1. \A n \in Nat : n \in S => n + 1 \in S
    BY <1>3
  <2> QED
    BY <1>1, <1>2, <2>1, SetInduction
<1> DEFINE v == CHOOSE f : IsValue(f, base, group, N)
<1>5. IsValue(v, base, group, N)
  <2>1. P(N)
    <3> HIDE DEF P, N
    <3> QED
      BY <1>1, <1>4
  <2> QED
    BY <2>1, Zenon
<1>6. Reading(base, group) = v[N]
  BY Zenon DEF Reading, IsValue
<1> HIDE DEF v
<1>7. v[0] = 0 /\ \A n \in 1 .. N : v[n] = v[n - 1] * base + group[n]
  <2> HIDE DEF N
  <2> QED
    BY <1>1, <1>5 DEF IsValue
<1> DEFINE T == {n \in Nat : n <= N => v[n] \in Nat}
<1>8. 0 \in T
  BY <1>7
<1>9. ASSUME NEW n \in Nat, n \in T PROVE n + 1 \in T
  <2> SUFFICES ASSUME n + 1 <= N PROVE v[n + 1] \in Nat
    OBVIOUS
  <2>1. n + 1 \in 1 .. N /\ (n + 1) - 1 = n /\ n <= N
    BY ONLY <1>1, n \in Nat, n + 1 <= N
  <2>2. v[n] \in Nat /\ group[n + 1] \in Nat
    BY ONLY <1>1, <1>9, <2>1
  <2>3. v[n + 1] = v[n] * base + group[n + 1]
    BY ONLY <1>7, <2>1, Zenon
  <2>4. v[n] * base + group[n + 1] \in Nat
    BY ONLY base \in Nat, <2>2, NatStep
  <2> QED
    BY ONLY <2>3, <2>4
<1>10. Nat \subseteq T
  <2> HIDE DEF T
  <2>1. \A n \in Nat : n \in T => n + 1 \in T
    BY <1>9
  <2> QED
    BY <1>8, <2>1, SetInduction
<1>11. v \in [0 .. N -> Nat]
  <2>1. \A n \in 0 .. N : v[n] \in Nat
    BY <1>1, <1>10
  <2>2. v = [n \in 0 .. N |-> v[n]]
    BY <1>5 DEF IsValue
  <2> HIDE DEF N
  <2> QED
    BY <2>1, <2>2
<1> QED
  BY <1>6, <1>7, <1>11

-----------------------------------------------------------------------------
(* Addresses *)

\* A group reads no higher in octal than in decimal.
LEMMA OctalIsLess ==
  ASSUME NEW group \in Seq(Nat)
  PROVE  /\ Reading(8, group) \in Nat /\ Reading(10, group) \in Nat
         /\ Reading(8, group) <= Reading(10, group)
<1> DEFINE N == Len(group)
<1>1. N \in Nat /\ \A n \in 1 .. N : group[n] \in Nat
  OBVIOUS
<1>2. PICK v : /\ v \in [0 .. N -> Nat]
               /\ v[0] = 0
               /\ \A n \in 1 .. N : v[n] = v[n - 1] * 8 + group[n]
               /\ Reading(8, group) = v[N]
  BY ReadingIs
<1>3. PICK w : /\ w \in [0 .. N -> Nat]
               /\ w[0] = 0
               /\ \A n \in 1 .. N : w[n] = w[n - 1] * 10 + group[n]
               /\ Reading(10, group) = w[N]
  BY ReadingIs
<1> HIDE DEF N
<1> DEFINE S == {n \in Nat : n <= N => v[n] <= w[n]}
<1>4. 0 \in S
  BY <1>2, <1>3
<1>5. ASSUME NEW n \in Nat, n \in S PROVE n + 1 \in S
  <2> SUFFICES ASSUME n + 1 <= N PROVE v[n + 1] <= w[n + 1]
    OBVIOUS
  <2>1. v[n] <= w[n] /\ v[n] \in Nat /\ w[n] \in Nat /\ group[n + 1] \in Nat
    BY <1>1, <1>2, <1>3, <1>5
  <2>2. v[n + 1] = v[n] * 8 + group[n + 1] /\ w[n + 1] = w[n] * 10 + group[n + 1]
    BY <1>1, <1>2, <1>3
  <2>3. v[n] * 8 + group[n + 1] <= w[n] * 10 + group[n + 1]
    BY ONLY <2>1
  <2> QED
    BY ONLY <2>2, <2>3
<1>6. Nat \subseteq S
  <2> HIDE DEF S
  <2>1. \A n \in Nat : n \in S => n + 1 \in S
    BY <1>5
  <2> QED
    BY <1>4, <2>1, SetInduction
<1> QED
  BY <1>1, <1>2, <1>3, <1>6

\* What is_valid_ip_address takes for a number of one byte is one to lwIP.
LEMMA PartIsByte ==
  ASSUME NEW group, group \in Seq(Nat), Reading(10, group) <= 255
  PROVE  Part(group) \in 0 .. 255
<1>1. /\ Reading(8, group) \in Nat /\ Reading(10, group) \in Nat
      /\ Reading(8, group) <= Reading(10, group)
      /\ Reading(10, group) <= 255
  BY OctalIsLess
<1>2. Part(group) = Reading(8, group) \/ Part(group) = Reading(10, group)
  BY DEF Part
<1> QED
  BY ONLY <1>1, <1>2

\* Whatever text is_valid_ip_address lets pass, lwIP makes four bytes of it.
THEOREM AddressIsFourBytes ==
  ASSUME NEW text, text \in Seq(Seq(Nat)), NEW behind, is_valid_ip_address(text, behind)
  PROVE  ipaddr_addr(text) \in [1 .. 4 -> 0 .. 255]
<1>1. ASSUME Parts(text), NEW k \in DOMAIN text PROVE Part(text[k]) \in 0 .. 255
  <2>1. k \in Groups(text)
    BY <1>1 DEF Groups, Parts
  <2>2. Reading(10, text[k]) <= 255
    BY <2>1 DEF is_valid_ip_address
  <2>3. text[k] \in Seq(Nat)
    OBVIOUS
  <2> QED
    BY <2>2, <2>3, PartIsByte
<1>2. CASE Parts(text) /\ Len(text) = 4
  <2>1. ipaddr_addr(text) = [k \in 1 .. 4 |-> Part(text[k])]
    BY <1>2 DEF ipaddr_addr
  <2>2. \A k \in 1 .. 4 : Part(text[k]) \in 0 .. 255
    <3>1. DOMAIN text = 1 .. 4
      BY <1>2
    <3> QED
      BY ONLY <1>1, <1>2, <3>1
  <2> QED
    BY ONLY <2>1, <2>2
<1>3. CASE Parts(text) /\ Len(text) = 3
  <2> DEFINE a == Part(text[1])
             b == Part(text[2])
             c == Part(text[3])
  <2>1. ipaddr_addr(text) = <<a, b, c \div 256, c % 256>>
    BY <1>3 DEF ipaddr_addr
  <2>2. a \in 0 .. 255 /\ b \in 0 .. 255 /\ c \in 0 .. 255
    BY <1>1, <1>3
  <2> HIDE DEF a, b, c
  <2>3. c \div 256 = 0 /\ c % 256 = c
    BY ONLY <2>2
  <2>4. ipaddr_addr(text) = <<a, b, 0, c>>
    BY ONLY <2>1, <2>3, Zenon
  <2>5. <<a, b, 0, c>> \in [1 .. 4 -> 0 .. 255]
    BY ONLY <2>2
  <2> QED
    BY ONLY <2>4, <2>5
<1>4. CASE ~(Parts(text) /\ Len(text) \in {3, 4})
  <2>1. ipaddr_addr(text) = IPADDR_NONE
    BY ONLY <1>4, Zenon DEF ipaddr_addr
  <2>2. IPADDR_NONE \in [1 .. 4 -> 0 .. 255]
    BY ONLY TRUE DEF IPADDR_NONE
  <2> QED
    BY ONLY <2>1, <2>2
<1> QED
  BY <1>2, <1>3, <1>4

\* length, the function Length is defined by.
IsLength(v, text, n) ==
  v = [k \in 0 .. n |-> IF k = 0 THEN 0
                        ELSE v[k - 1] + Len(text[k]) + (IF k = 1 THEN 0 ELSE 1)]

\* An address of four groups has three dots.
LEMMA LengthOfFour ==
  ASSUME NEW text, Len(text) = 4, \A k \in 1 .. 4 : Len(text[k]) \in Nat
  PROVE  Length(text) = Len(text[1]) + Len(text[2]) + Len(text[3]) + Len(text[4]) + 3
<1> DEFINE a == Len(text[1])
           b == Len(text[2])
           c == Len(text[3])
           d == Len(text[4])
           f == [k \in 0 .. 4 |-> CASE k = 0 -> 0
                                    [] k = 1 -> a
                                    [] k = 2 -> a + b + 1
                                    [] k = 3 -> a + b + c + 2
                                    [] k = 4 -> a + b + c + d + 3]
           v == CHOOSE g : IsLength(g, text, 4)
<1>1. a \in Nat /\ b \in Nat /\ c \in Nat /\ d \in Nat
  OBVIOUS
<1>2. IsLength(f, text, 4)
  BY <1>1 DEF IsLength
<1>3. IsLength(v, text, 4)
  <2> HIDE DEF f
  <2> QED
    BY <1>2, Zenon
<1>4. Length(text) = v[4]
  BY Zenon DEF Length, IsLength
<1> HIDE DEF v
<1>5. /\ v[0] = 0
      /\ v[1] = v[0] + a
      /\ v[2] = v[1] + b + 1
      /\ v[3] = v[2] + c + 1
      /\ v[4] = v[3] + d + 1
  BY <1>1, <1>3 DEF IsLength
<1> QED
  BY <1>1, <1>4, <1>5

\* What a group of up to three digits reads as.
LEMMA ThreeDigits ==
  ASSUME NEW x \in 1 .. 9, NEW y \in 0 .. 9, NEW z \in 0 .. 9
  PROVE  /\ <<x, y, z>> \in Seq(Nat) /\ <<x, y, z>> # <<>> /\ Len(<<x, y, z>>) = 3
         /\ IsNumber(<<x, y, z>>) /\ ~Octal(<<x, y, z>>)
         /\ Reading(10, <<x, y, z>>) = x * 100 + y * 10 + z
<1>1. /\ <<x, y, z>> \in Seq(Nat) /\ <<x, y, z>> # <<>> /\ Len(<<x, y, z>>) = 3
      /\ IsNumber(<<x, y, z>>) /\ ~Octal(<<x, y, z>>)
  BY DEF IsNumber, Octal
<1>2. PICK v : /\ v[0] = 0
               /\ \A k \in 1 .. Len(<<x, y, z>>) : v[k] = v[k - 1] * 10 + <<x, y, z>>[k]
               /\ Reading(10, <<x, y, z>>) = v[Len(<<x, y, z>>)]
  BY <1>1, ReadingIs
<1>3. v[1] = x /\ v[2] = x * 10 + y /\ v[3] = x * 100 + y * 10 + z
  BY <1>1, <1>2
<1> QED
  BY <1>1, <1>2, <1>3

LEMMA TwoDigits ==
  ASSUME NEW x \in 1 .. 9, NEW y \in 0 .. 9
  PROVE  /\ <<x, y>> \in Seq(Nat) /\ <<x, y>> # <<>> /\ Len(<<x, y>>) = 2
         /\ IsNumber(<<x, y>>) /\ ~Octal(<<x, y>>)
         /\ Reading(10, <<x, y>>) = x * 10 + y
<1>1. /\ <<x, y>> \in Seq(Nat) /\ <<x, y>> # <<>> /\ Len(<<x, y>>) = 2
      /\ IsNumber(<<x, y>>) /\ ~Octal(<<x, y>>)
  BY DEF IsNumber, Octal
<1>2. PICK v : /\ v[0] = 0
               /\ \A k \in 1 .. Len(<<x, y>>) : v[k] = v[k - 1] * 10 + <<x, y>>[k]
               /\ Reading(10, <<x, y>>) = v[Len(<<x, y>>)]
  BY <1>1, ReadingIs
<1>3. v[1] = x /\ v[2] = x * 10 + y
  BY <1>1, <1>2
<1> QED
  BY <1>1, <1>2, <1>3

LEMMA OneDigit ==
  ASSUME NEW x \in 0 .. 9
  PROVE  /\ <<x>> \in Seq(Nat) /\ <<x>> # <<>> /\ Len(<<x>>) = 1
         /\ IsNumber(<<x>>) /\ ~Octal(<<x>>)
         /\ Reading(10, <<x>>) = x
<1>1. /\ <<x>> \in Seq(Nat) /\ <<x>> # <<>> /\ Len(<<x>>) = 1
      /\ IsNumber(<<x>>) /\ ~Octal(<<x>>)
  BY DEF IsNumber, Octal
<1>2. PICK v : /\ v[0] = 0
               /\ \A k \in 1 .. Len(<<x>>) : v[k] = v[k - 1] * 10 + <<x>>[k]
               /\ Reading(10, <<x>>) = v[Len(<<x>>)]
  BY <1>1, ReadingIs
<1>3. v[1] = x
  BY <1>1, <1>2
<1> QED
  BY <1>1, <1>2, <1>3

\* A byte is shown with the digits it is read by.
LEMMA DigitsRead ==
  ASSUME NEW n \in 0 .. 255
  PROVE  /\ Digits(n) \in Seq(Nat) /\ Digits(n) # <<>>
         /\ IsNumber(Digits(n)) /\ ~Octal(Digits(n))
         /\ Len(Digits(n)) \in 1 .. 3 /\ (n < 100 => Len(Digits(n)) < 3)
         /\ Reading(10, Digits(n)) = n
<1>1. CASE n > 99
  <2>1. Digits(n) = <<n \div 100, (n \div 10) % 10, n % 10>>
    BY <1>1 DEF Digits
  <2>2. n \div 100 \in 1 .. 9 /\ (n \div 10) % 10 \in 0 .. 9 /\ n % 10 \in 0 .. 9
    BY <1>1
  <2>3. (n \div 100) * 100 + ((n \div 10) % 10) * 10 + (n % 10) = n
    BY <1>1
  <2>4. PICK x \in 1 .. 9, y \in 0 .. 9, z \in 0 .. 9 :
          Digits(n) = <<x, y, z>> /\ n = x * 100 + y * 10 + z
    BY <2>1, <2>2, <2>3
  <2>5. /\ Digits(n) \in Seq(Nat) /\ Digits(n) # <<>> /\ Len(Digits(n)) = 3
        /\ IsNumber(Digits(n)) /\ ~Octal(Digits(n))
        /\ Reading(10, Digits(n)) = n
    <3>1. /\ <<x, y, z>> \in Seq(Nat) /\ <<x, y, z>> # <<>> /\ Len(<<x, y, z>>) = 3
          /\ IsNumber(<<x, y, z>>) /\ ~Octal(<<x, y, z>>)
          /\ Reading(10, <<x, y, z>>) = x * 100 + y * 10 + z
      BY ONLY ThreeDigits
    <3> QED
      BY ONLY <2>4, <3>1, Zenon
  <2> QED
    BY <1>1, <2>5
<1>2. CASE n \in 10 .. 99
  <2>1. Digits(n) = <<n \div 10, n % 10>>
    BY <1>2 DEF Digits
  <2>2. n \div 10 \in 1 .. 9 /\ n % 10 \in 0 .. 9
    BY <1>2
  <2>3. (n \div 10) * 10 + (n % 10) = n
    BY <1>2
  <2>4. /\ Digits(n) \in Seq(Nat) /\ Digits(n) # <<>> /\ Len(Digits(n)) = 2
        /\ IsNumber(Digits(n)) /\ ~Octal(Digits(n))
        /\ Reading(10, Digits(n)) = n
    BY <2>1, <2>2, <2>3, TwoDigits
  <2> QED
    BY <2>4
<1>3. CASE n \in 0 .. 9
  <2>1. Digits(n) = <<n>>
    BY <1>3 DEF Digits
  <2> QED
    BY <1>3, <2>1, OneDigit
<1> QED
  BY <1>1, <1>2, <1>3

\* Four numbers of one byte that nobody could take for octal are the address
\* they are read as, whatever their length, and valid unless they fill the
\* buffer.
LEMMA UsualAddress ==
  ASSUME NEW text, NEW behind, Len(text) = 4, DOMAIN text = 1 .. 4,
         \A k \in 1 .. 4 : /\ text[k] # <<>> /\ IsNumber(text[k]) /\ ~Octal(text[k])
                           /\ Len(text[k]) \in Nat
                           /\ Reading(10, text[k]) <= 255
  PROVE  /\ ipaddr_addr(text) = Meaning(text)
         /\ Length(text) = Len(text[1]) + Len(text[2]) + Len(text[3]) + Len(text[4]) + 3
         /\ Length(text) < 15 => is_valid_ip_address(text, behind)
<1>1. ipaddr_addr(text) = Meaning(text)
  <2>1. Parts(text)
    BY DEF Parts
  <2>2. ipaddr_addr(text) = [k \in 1 .. 4 |-> Part(text[k])]
    BY <2>1 DEF ipaddr_addr
  <2>3. \A k \in 1 .. 4 : Part(text[k]) = Reading(10, text[k])
    BY DEF Part
  <2> QED
    BY <2>2, <2>3 DEF Meaning
<1>2. Length(text) = Len(text[1]) + Len(text[2]) + Len(text[3]) + Len(text[4]) + 3
  BY LengthOfFour
<1>3. ASSUME Length(text) < 15 PROVE is_valid_ip_address(text, behind)
  <2>1. Groups(text) = 1 .. 4
    BY DEF Groups
  <2>2. Cardinality(1 .. 4) = 4
    <3>1. Cardinality(1 .. 4) = IF 1 > 4 THEN 0 ELSE 4 - 1 + 1
      BY ONLY FS_Interval, 1 \in Int, 4 \in Int, Zenon
    <3> QED
      BY ONLY <3>1
  <2>3. Length(text) \in Nat
    BY <1>2
  <2>4. Length(text) <= 15 /\ Length(text) # 15
    BY ONLY <1>3, <2>3
  <2> QED
    BY <2>1, <2>2, <2>4 DEF is_valid_ip_address
<1> QED
  BY <1>1, <1>2, <1>3

\* An address comes back from the text it is shown as.
THEOREM AddressRoundTrip ==
  ASSUME NEW addr \in [1 .. 4 -> 0 .. 255], NEW text, text = AsText(addr)
  PROVE  /\ text \in Seq(Seq(Nat)) \ {<<>>}
         /\ ipaddr_addr(text) = addr
         /\ (\E k \in 1 .. 4 : addr[k] < 100) => is_valid_ip_address(text, FALSE)
<1>1. ASSUME NEW k \in 1 .. 4
      PROVE  /\ text[k] \in Seq(Nat) /\ text[k] # <<>>
             /\ IsNumber(text[k]) /\ ~Octal(text[k])
             /\ Len(text[k]) \in 1 .. 3 /\ (addr[k] < 100 => Len(text[k]) < 3)
             /\ Reading(10, text[k]) = addr[k] /\ Reading(10, text[k]) <= 255
  <2>1. PICK n \in 0 .. 255 : addr[k] = n /\ text[k] = Digits(n)
    BY DEF AsText
  <2>2. /\ Digits(n) \in Seq(Nat) /\ Digits(n) # <<>>
        /\ IsNumber(Digits(n)) /\ ~Octal(Digits(n))
        /\ Len(Digits(n)) \in 1 .. 3 /\ (n < 100 => Len(Digits(n)) < 3)
        /\ Reading(10, Digits(n)) = n
    BY ONLY DigitsRead
  <2>3. n <= 255
    BY ONLY TRUE
  <2> QED
    BY ONLY <2>1, <2>2, <2>3, Zenon
<1>2. text \in Seq(Seq(Nat)) /\ Len(text) = 4 /\ DOMAIN text = 1 .. 4 /\ text # <<>>
  BY <1>1 DEF AsText
<1>3. \A k \in 1 .. 4 : Len(text[k]) \in 1 .. 3
  BY ONLY <1>1, Zenon
<1>4. /\ ipaddr_addr(text) = Meaning(text)
      /\ Length(text) = Len(text[1]) + Len(text[2]) + Len(text[3]) + Len(text[4]) + 3
      /\ Length(text) < 15 => is_valid_ip_address(text, FALSE)
  <2>1. \A k \in 1 .. 4 : Len(text[k]) \in Nat
    BY ONLY <1>3
  <2> QED
    BY ONLY <1>1, <1>2, <2>1, UsualAddress
<1>5. Meaning(text) = addr
  BY <1>1, <1>2 DEF Meaning
<1>6. ASSUME NEW k \in 1 .. 4, addr[k] < 100 PROVE Length(text) < 15
  <2>1. PICK l1 \in 1 .. 3, l2 \in 1 .. 3, l3 \in 1 .. 3, l4 \in 1 .. 3 :
          /\ Len(text[1]) = l1 /\ Len(text[2]) = l2
          /\ Len(text[3]) = l3 /\ Len(text[4]) = l4
    <3>1. /\ Len(text[1]) \in 1 .. 3 /\ Len(text[2]) \in 1 .. 3
          /\ Len(text[3]) \in 1 .. 3 /\ Len(text[4]) \in 1 .. 3
      BY ONLY <1>3
    <3> QED
      BY ONLY <3>1, Zenon
  <2>2. l1 < 3 \/ l2 < 3 \/ l3 < 3 \/ l4 < 3
    <3>1. k = 1 \/ k = 2 \/ k = 3 \/ k = 4
      OBVIOUS
    <3> QED
      BY <1>1, <1>6, <2>1, <3>1
  <2> QED
    BY ONLY <1>4, <2>1, <2>2
<1> QED
  BY ONLY <1>2, <1>4, <1>5, <1>6, Zenon

-----------------------------------------------------------------------------
(* Tokens *)

PagesHaveTypes ==
  /\ token = [p \in Pages |-> token[p]]
  /\ form = [p \in Pages |-> form[p]]
  /\ tokenFirst \in [Pages -> BOOLEAN]
  /\ stale \in [Pages -> BOOLEAN]

\* No two pages have the same token.  A page that shows something that is no
\* longer so, and had its token by then, is not the last one that got a token.
TokenInv ==
  /\ PagesHaveTypes
  /\ \A p, q \in Pages : token[p] = token[q] => p = q \/ token[p] = NoToken
  /\ \A p \in Pages :
       /\ form[p] = NoForm => ~stale[p]
       /\ tokenFirst[p] => token[p] # NoToken
       /\ tokenFirst[p] /\ stale[p] => ~is_valid_token(p)

LEMMA TokenInit == Init => TokenInv
BY DEF Init, TokenInv, PagesHaveTypes

\* The page whose wish it is knows what it changed; the others that had their
\* token before their settings have another one.
LEMMA TokenChange ==
  ASSUME TokenInv, NEW p \in Pages, NEW c, is_valid_token(p), Change(p, c),
         UNCHANGED <<configToken, token, tokenFirst>>,
         form' = [q \in Pages |-> form'[q]],
         \A q \in Pages \ {p} : form'[q] = form[q]
  PROVE  TokenInv'
<1>1. stale' \in [Pages -> BOOLEAN] /\ ~stale'[p]
  BY DEF Change
<1>2. \A q \in Pages : stale'[q] => q # p /\ form[q] # NoForm
  BY DEF Change
<1>3. ASSUME NEW q \in Pages, tokenFirst[q], stale'[q]
      PROVE  token[q] # configToken
  <2>1. q # p /\ token[q] # NoToken
    BY <1>2, <1>3 DEF TokenInv
  <2> QED
    BY <2>1 DEF TokenInv, is_valid_token
<1> QED
  BY <1>1, <1>2, <1>3 DEF TokenInv, PagesHaveTypes, is_valid_token

LEMMA TokenNext == TokenInv /\ [Next]_vars => TokenInv'
<1> SUFFICES ASSUME TokenInv, [Next]_vars PROVE TokenInv'
  OBVIOUS
<1> USE DEF board, pages
<1>1. ASSUME NEW p \in Pages, Open(p) PROVE TokenInv'
  BY <1>1 DEF Open, TokenInv, PagesHaveTypes, is_valid_token
<1>2. ASSUME NEW p \in Pages, ServeToken(p) PROVE TokenInv'
  <2>1. /\ token[p] = NoToken /\ token' = [token EXCEPT ![p] = configToken']
        /\ \A q \in Pages : configToken' # token[q]
        /\ UNCHANGED <<form, tokenFirst, stale>>
    BY <1>2 DEF ServeToken
  <2>2. ~tokenFirst[p]
    BY <2>1 DEF TokenInv
  <2>3. \A q \in Pages : token'[q] = IF q = p THEN configToken' ELSE token[q]
    BY <2>1 DEF TokenInv, PagesHaveTypes
  <2> QED
    BY <2>1, <2>2, <2>3 DEF TokenInv, PagesHaveTypes, is_valid_token
<1>3. ASSUME NEW p \in Pages, ServeSettings(p) PROVE TokenInv'
  <2>1. /\ ~stale[p]
        /\ tokenFirst' = [tokenFirst EXCEPT ![p] = token[p] # NoToken]
        /\ form' = [form EXCEPT ![p] = Settings(config)]
        /\ UNCHANGED <<configToken, token, stale>>
    BY <1>3 DEF ServeSettings, TokenInv
  <2>2. tokenFirst' \in [Pages -> BOOLEAN]
    BY <2>1 DEF TokenInv, PagesHaveTypes
  <2>3. \A q \in Pages : q # p => tokenFirst'[q] = tokenFirst[q] /\ form'[q] = form[q]
    BY <2>1 DEF TokenInv, PagesHaveTypes
  <2>4. tokenFirst'[p] => token[p] # NoToken
    BY <2>1 DEF TokenInv, PagesHaveTypes
  <2> QED
    BY <2>1, <2>2, <2>3, <2>4 DEF TokenInv, PagesHaveTypes, is_valid_token
<1>4. ASSUME NEW p \in Pages, PostSome(p) PROVE TokenInv'
  <2>1. PICK sent, c :
          /\ is_valid_token(p) /\ Change(p, c)
          /\ form' = [form EXCEPT ![p] = sent]
          /\ UNCHANGED <<configToken, token, tokenFirst>>
    BY <1>4 DEF PostSome, MayPost, Post
  <2> QED
    BY <2>1, TokenChange DEF TokenInv, PagesHaveTypes
<1>5. ASSUME NEW p \in Pages, PassPost(p) PROVE TokenInv'
  <2>1. PICK c : is_valid_token(p) /\ Change(p, c)
    BY <1>5 DEF PassPost
  <2> QED
    BY <1>5, <2>1, TokenChange DEF PassPost, TokenInv, PagesHaveTypes
<1>6. ASSUME NEW p \in Pages, HardReset(p) PROVE TokenInv'
  BY <1>6, TokenChange DEF HardReset, TokenInv, PagesHaveTypes
<1>7. CASE Restart
  BY <1>7 DEF Restart, TokenInv, PagesHaveTypes, is_valid_token
<1>8. CASE UNCHANGED vars
  BY <1>8 DEF vars, TokenInv, PagesHaveTypes, is_valid_token
<1> QED
  BY <1>1, <1>2, <1>3, <1>4, <1>5, <1>6, <1>7, <1>8 DEF Next

\* A page that was given its token before its settings, and whose token is
\* still the board's, shows the fields as they are.
THEOREM NoUpdateIsLost == Spec => []NoLostUpdate
<1>1. TokenInv => NoLostUpdate
  BY DEF TokenInv, NoLostUpdate
<1> QED
  BY <1>1, TokenInit, TokenNext, PTL DEF Spec

-----------------------------------------------------------------------------
(* What every configuration has *)

\* The fields of the configuration, and of what pages show, are those of the
\* form.
FieldsInv ==
  /\ DOMAIN config = Fields \cup {"password"}
  /\ \A p \in Pages : form[p] # NoForm => DOMAIN form[p] = Fields

UsableInv == PagesHaveTypes /\ FieldsInv /\ BoardStaysUsable

\* What people save of a form, and what arrives of it, has its fields.
LEMMA FilledFields ==
  ASSUME NEW p \in Pages, DOMAIN form[p] = Fields, NEW sent \in Filled(p)
  PROVE  DOMAIN sent = Fields
<1>1. CASE form[p].devname = Empty
  <2> DEFINE With(n) == {[form[p] EXCEPT !.devname = text, !.mqtt_port = n] :
                           text \in TypedNames}
  <2>1. sent \in UNION {With(n) : n \in TypedPorts}
    BY <1>1, Zenon DEF Filled
  <2>2. PICK n \in TypedPorts : sent \in With(n)
    BY <2>1, Zenon
  <2>3. PICK text \in TypedNames :
          sent = [form[p] EXCEPT !.devname = text, !.mqtt_port = n]
    BY <2>2, Zenon
  <2> QED
    BY <2>3
<1>2. CASE form[p].devname # Empty
  BY <1>2 DEF Filled, TypedOver
<1> QED
  BY <1>1, <1>2

LEMMA BodyFields ==
  ASSUME NEW sent, DOMAIN sent = Fields, NEW body \in Bodies(sent)
  PROVE  DOMAIN body \subseteq Fields
<1>1. \A n \in 0 .. 4 : FirstFields(n) \subseteq Fields
  BY DEF FirstFields, Order, Fields
<1> QED
  BY <1>1 DEF Bodies

\* A form that is accepted leaves a name and a port, and the password alone.
LEMMA AcceptedKeeps ==
  ASSUME DOMAIN config = Fields \cup {"password"},
         config.devname # Empty, config.mqtt_port # 0,
         NEW body, DOMAIN body \subseteq Fields, NEW behind, Accepted(body, behind)
  PROVE  /\ NewConfig(body).devname # Empty
         /\ NewConfig(body).mqtt_port # 0
         /\ NewConfig(body).password = config.password
<1> DEFINE c == NewConfig(body)
<1>1. /\ c.devname = IF "devname" \in DOMAIN body THEN Value("devname", body["devname"])
                                                   ELSE config.devname
      /\ c.mqtt_port = IF "mqtt_port" \in DOMAIN body
                         THEN Value("mqtt_port", body["mqtt_port"]) ELSE config.mqtt_port
      /\ c.password = config.password
  BY DEF NewConfig, Fields
<1>2. "devname" \in DOMAIN body => Value("devname", body["devname"]) # Empty
  BY DEF Accepted, Valid, Value
<1>3. "mqtt_port" \in DOMAIN body => Value("mqtt_port", body["mqtt_port"]) # 0
  BY DEF Accepted, Valid, Value
<1> QED
  BY <1>1, <1>2, <1>3

LEMMA UsableInit == Init => UsableInv
BY ConstantsAssumption
DEF Init, UsableInv, PagesHaveTypes, FieldsInv, BoardStaysUsable, DefaultConfig, Fields, Fits

LEMMA UsableNext == UsableInv /\ TokenInv' /\ [Next]_vars => UsableInv'
<1> SUFFICES ASSUME UsableInv, TokenInv', [Next]_vars PROVE UsableInv'
  OBVIOUS
<1> USE DEF board, pages, UsableInv
<1>0. PagesHaveTypes'
  BY DEF TokenInv
<1>1. ASSUME NEW p \in Pages, Open(p) PROVE UsableInv'
  BY <1>0, <1>1 DEF Open, FieldsInv, BoardStaysUsable, PagesHaveTypes
<1>2. ASSUME NEW p \in Pages, ServeToken(p) PROVE UsableInv'
  BY <1>0, <1>2 DEF ServeToken, FieldsInv, BoardStaysUsable
<1>3. ASSUME NEW p \in Pages, ServeSettings(p) PROVE UsableInv'
  <2>1. DOMAIN Settings(config) = Fields
    BY DEF Settings, Fields
  <2> QED
    BY <1>0, <1>3, <2>1 DEF ServeSettings, FieldsInv, BoardStaysUsable, PagesHaveTypes
<1>4. ASSUME NEW p \in Pages, PostSome(p) PROVE UsableInv'
  <2>1. PICK sent \in Filled(p), behind \in BOOLEAN :
          \E body \in Bodies(sent) : Post(p, sent, body, behind)
    BY <1>4 DEF PostSome
  <2>2. PICK body \in Bodies(sent) : Post(p, sent, body, behind)
    BY <2>1
  <2>3. DOMAIN sent = Fields
    BY <1>4, <2>1, FilledFields DEF PostSome, MayPost, FieldsInv
  <2>4. DOMAIN body \subseteq Fields
    BY <2>2, <2>3, BodyFields
  <2>5. /\ Accepted(body, behind)
        /\ config' = NewConfig(body) /\ form' = [form EXCEPT ![p] = sent]
        /\ UNCHANGED blank
    BY <2>2 DEF Post, Change
  <2>6. DOMAIN config' = DOMAIN config
    BY <2>5 DEF NewConfig
  <2>7. FieldsInv'
    BY <2>3, <2>5, <2>6 DEF FieldsInv, PagesHaveTypes
  <2>8. BoardStaysUsable'
    BY <2>4, <2>5, AcceptedKeeps DEF BoardStaysUsable, FieldsInv, Fits
  <2> QED
    BY <1>0, <2>7, <2>8
<1>5. ASSUME NEW p \in Pages, PassPost(p) PROVE UsableInv'
  <2>1. PICK new : /\ Fits(new) /\ is_password_valid(new)
                   /\ config' = [config EXCEPT !.password = new]
    BY <1>5 DEF PassPost, Change
  <2>2. UNCHANGED <<form, blank>>
    BY <1>5 DEF PassPost
  <2> QED
    BY <1>0, <2>1, <2>2 DEF FieldsInv, BoardStaysUsable, is_password_valid, Fields
<1>6. ASSUME NEW p \in Pages, HardReset(p) PROVE UsableInv'
  <2>1. config' = DefaultConfig /\ UNCHANGED form
    BY <1>6 DEF HardReset, Change
  <2> QED
    BY <1>0, <2>1, ConstantsAssumption
    DEF FieldsInv, BoardStaysUsable, DefaultConfig, Fields, Fits
<1>7. CASE Restart
  <2>1. PICK kept \in BOOLEAN : /\ config' = IF kept THEN config ELSE ZeroConfig
                                /\ blank' = (~kept \/ blank)
    BY <1>7 DEF Restart
  <2>2. UNCHANGED form
    BY <1>7 DEF Restart
  <2>3. CASE kept
    BY <1>0, <2>1, <2>2, <2>3 DEF FieldsInv, BoardStaysUsable
  <2>4. CASE ~kept
    BY <1>0, <2>1, <2>2, <2>4 DEF FieldsInv, BoardStaysUsable, ZeroConfig, Fields
  <2> QED
    BY <2>3, <2>4
<1>8. CASE UNCHANGED vars
  BY <1>0, <1>8 DEF vars, FieldsInv, BoardStaysUsable
<1> QED
  BY <1>1, <1>2, <1>3, <1>4, <1>5, <1>6, <1>7, <1>8 DEF Next

\* Whatever arrives of whatever forms, the board keeps a name, a port and a
\* password that pass.cgi takes, unless it lost its configuration.
THEOREM AlwaysUsable == Spec => []BoardStaysUsable
<1>1. UsableInv => BoardStaysUsable
  BY DEF UsableInv
<1> QED
  BY <1>1, TokenInit, TokenNext, UsableInit, UsableNext, PTL DEF Spec

-----------------------------------------------------------------------------
(* Types *)

\* A port fits into a uint32_t, and is what was typed where that is one.
LEMMA PortType ==
  ASSUME NEW n \in Int
  PROVE  /\ Port(n) \in 0 .. 2 * LongMax + 1
         /\ n \in 1 .. LongMax => Port(n) = n
<1> DEFINE near == CASE n > LongMax -> LongMax
                     [] n < -(LongMax + 1) -> -(LongMax + 1)
                     [] OTHER -> n
           M == 2 * (LongMax + 1)
<1>1. LongMax \in Nat
  BY ConstantsAssumption
<1>2. near \in Int /\ (n \in 1 .. LongMax => near = n) /\ M \in Nat \ {0}
  BY <1>1
<1>3. Port(n) = near % M
  BY DEF Port
<1> HIDE DEF near
<1>4. near % M \in 0 .. M - 1
  <2> HIDE DEF M
  <2> QED
  BY <1>2
<1>5. n \in 1 .. LongMax => n % M = n
  <2>1. n \in 1 .. LongMax => n \in 0 .. M - 1
    BY <1>1
  <2> HIDE DEF M
  <2> QED
  BY <1>2, <2>1
<1> QED
  BY <1>1, <1>2, <1>3, <1>4, <1>5

\* What a body may hold: some fields, each with a text of its kind.
IsBody(body) ==
  /\ DOMAIN body \subseteq Fields
  /\ "devname" \in DOMAIN body => body["devname"] \in Names
  /\ "ip" \in DOMAIN body => body["ip"] \in AddressTexts
  /\ "mqtt_port" \in DOMAIN body => body["mqtt_port"] \in Int
  /\ "mqtt_password" \in DOMAIN body => body["mqtt_password"] \in Names

\* What is left of a field that was cut is a text of its kind.
LEMMA CutTypes ==
  ASSUME NEW n \in 1 .. 4, NEW sent \in Inputs, NEW part \in Cut(Order[n], sent[Order[n]])
  PROVE  IsBody([f \in FirstFields(n) |-> IF f = Order[n] THEN part ELSE sent[f]])
<1>1. /\ sent["devname"] \in Names /\ sent["ip"] \in AddressTexts
      /\ sent["mqtt_port"] \in Int /\ sent["mqtt_password"] \in Names
  BY DEF Inputs
<1>2. \A m \in 1 .. 4 : FirstFields(m) \subseteq Fields
  BY DEF FirstFields, Order, Fields
<1>3. Empty \in Names /\ Stub \in Names
  BY ConstantsAssumption DEF Names
<1>4. CASE n = 1 \/ n = 4
  <2>1. Order[n] \in {"devname", "mqtt_password"} /\ part \in Names
    BY <1>3, <1>4 DEF Order, Cut
  <2> QED
    BY <1>1, <1>2, <2>1 DEF IsBody
<1>5. CASE n = 2
  <2>1. Order[n] = "ip"
    BY <1>5 DEF Order
  <2>2. PICK text : text = sent["ip"] /\ text \in Seq(Seq(Nat)) /\ text # <<>>
    BY <1>1 DEF AddressTexts
  <2>3. Last(text) \in Seq(Nat) /\ Front(text) \in Seq(Seq(Nat))
    BY <2>2 DEF Last, Front
  <2>4. part = Append(Front(text), Front(Last(text))) /\ Last(text) # <<>>
    BY <2>1, <2>2 DEF Cut
  <2>5. Front(Last(text)) \in Seq(Nat)
    BY <2>3, <2>4 DEF Front
  <2>6. part \in AddressTexts
    BY <2>3, <2>4, <2>5 DEF AddressTexts
  <2> QED
    BY <1>1, <1>2, <2>1, <2>6 DEF IsBody
<1>6. CASE n = 3
  <2>1. Order[n] = "mqtt_port"
    BY <1>6 DEF Order
  <2>2. part \in Int
    BY <1>1, <2>1 DEF Cut
  <2> QED
    BY <1>1, <1>2, <2>1, <2>2 DEF IsBody
<1> QED
  BY <1>4, <1>5, <1>6

\* What arrives of a form.
LEMMA BodyTypes ==
  ASSUME NEW sent \in Inputs, NEW body \in Bodies(sent)
  PROVE  IsBody(body)
<1>1. /\ sent["devname"] \in Names /\ sent["ip"] \in AddressTexts
      /\ sent["mqtt_port"] \in Int /\ sent["mqtt_password"] \in Names
      /\ DOMAIN sent = Fields
  BY DEF Inputs, Fields
<1>2. \A m \in 0 .. 4 : FirstFields(m) \subseteq Fields
  BY DEF FirstFields, Order, Fields
<1>3. CASE body = sent
  BY <1>1, <1>3 DEF IsBody
<1>4. CASE \E n \in 0 .. 3 : body = [f \in FirstFields(n) |-> sent[f]]
  BY <1>1, <1>2, <1>4 DEF IsBody
<1>5. CASE \E n \in 1 .. 4 : \E part \in Cut(Order[n], sent[Order[n]]) :
             body = [f \in FirstFields(n) |-> IF f = Order[n] THEN part ELSE sent[f]]
  BY <1>5, CutTypes
<1> QED
  BY <1>3, <1>4, <1>5 DEF Bodies

\* What people save of a form.
LEMMA FilledTypes ==
  ASSUME NEW p \in Pages, form[p] \in Inputs, NEW sent \in Filled(p)
  PROVE  sent \in Inputs
<1>1. /\ TypedNames \subseteq Names /\ TypedAddresses \subseteq AddressTexts
      /\ TypedPorts \subseteq Int
  BY ConstantsAssumption DEF Names, AddressTexts
<1>2. CASE form[p].devname = Empty
  <2> DEFINE With(n) == {[form[p] EXCEPT !.devname = text, !.mqtt_port = n] :
                           text \in TypedNames}
  <2>1. sent \in UNION {With(n) : n \in TypedPorts}
    BY <1>2, Zenon DEF Filled
  <2>2. PICK n \in TypedPorts : sent \in With(n)
    BY <2>1, Zenon
  <2>3. PICK text \in TypedNames :
          sent = [form[p] EXCEPT !.devname = text, !.mqtt_port = n]
    BY <2>2, Zenon
  <2> QED
    BY <1>1, <2>3 DEF Inputs
<1>3. CASE form[p].devname # Empty
  <2> DEFINE Over(f, text) == [form[p] EXCEPT ![f] = text]
  <2>1. \/ sent = form[p]
        \/ \E text \in TypedNames : sent = Over("devname", text)
        \/ \E text \in TypedAddresses : sent = Over("ip", text)
        \/ \E text \in TypedPorts : sent = Over("mqtt_port", text)
        \/ \E text \in TypedNames : sent = Over("mqtt_password", text)
    BY <1>3 DEF Filled, TypedOver
  <2> QED
    BY <1>1, <2>1 DEF Inputs
<1> QED
  BY <1>2, <1>3

\* settings.json fills the inputs with texts of their kind.
LEMMA SettingsTypes ==
  ASSUME config \in Configs
  PROVE  Settings(config) \in Inputs
<1>1. config.ip \in [1 .. 4 -> 0 .. 255]
  BY DEF Configs
<1>2. AsText(config.ip) \in AddressTexts
  BY <1>1, AddressRoundTrip DEF AddressTexts
<1>3. /\ config.devname \in Texts \cup {Empty}
      /\ config.mqtt_port \in 0 .. 2 * LongMax + 1
  BY DEF Configs
<1>4. config.mqtt_port \in Int
  BY <1>3, ConstantsAssumption
<1> QED
  BY <1>2, <1>3, <1>4 DEF Settings, Inputs, Names

\* The fields of a configuration with what an accepted form puts there.
LEMMA NewConfigIs ==
  ASSUME config \in Configs, NEW body, DOMAIN body \subseteq Fields
  PROVE  NewConfig(body) =
           [devname |-> IF "devname" \in DOMAIN body THEN Seen(body["devname"])
                        ELSE config.devname,
            ip |-> IF "ip" \in DOMAIN body THEN ipaddr_addr(body["ip"]) ELSE config.ip,
            mqtt_port |-> IF "mqtt_port" \in DOMAIN body THEN Port(body["mqtt_port"])
                          ELSE config.mqtt_port,
            mqtt_password |-> IF "mqtt_password" \in DOMAIN body
                                THEN Seen(body["mqtt_password"]) ELSE config.mqtt_password,
            password |-> config.password]
<1>1. DOMAIN config = {"devname", "ip", "mqtt_port", "mqtt_password", "password"}
  BY DEF Configs
<1>2. "password" \notin DOMAIN body
  BY DEF Fields
<1> QED
  BY <1>1, <1>2 DEF NewConfig, Value

\* What a form that is accepted leaves is a configuration.
LEMMA AcceptedTypes ==
  ASSUME config \in Configs, NEW body, IsBody(body), NEW behind, Accepted(body, behind)
  PROVE  NewConfig(body) \in Configs
<1>1. "devname" \in DOMAIN body => Seen(body["devname"]) \in Texts
  BY ConstantsAssumption DEF Accepted, Valid, IsBody, Names, Seen
<1>2. "mqtt_password" \in DOMAIN body => Seen(body["mqtt_password"]) \in Texts \cup {Empty, Long}
  BY ConstantsAssumption DEF Accepted, Valid, IsBody, Names, Seen
<1>3. "ip" \in DOMAIN body => ipaddr_addr(body["ip"]) \in [1 .. 4 -> 0 .. 255]
  <2> SUFFICES ASSUME "ip" \in DOMAIN body
               PROVE  ipaddr_addr(body["ip"]) \in [1 .. 4 -> 0 .. 255]
    OBVIOUS
  <2>1. body["ip"] \in Seq(Seq(Nat))
    BY DEF IsBody, AddressTexts
  <2>2. is_valid_ip_address(body["ip"], behind)
    BY DEF Accepted, Valid
  <2> QED
    BY <2>1, <2>2, AddressIsFourBytes
<1>4. "mqtt_port" \in DOMAIN body => Port(body["mqtt_port"]) \in 0 .. 2 * LongMax + 1
  BY PortType DEF IsBody
<1>5. DOMAIN body \subseteq Fields
  BY DEF IsBody
<1>6. /\ config.devname \in Texts \cup {Empty}
      /\ config.ip \in [1 .. 4 -> 0 .. 255]
      /\ config.mqtt_port \in 0 .. 2 * LongMax + 1
      /\ config.mqtt_password \in Texts \cup {Empty, Long}
      /\ config.password \in Texts \cup {Empty}
  BY DEF Configs
<1> QED
  BY <1>1, <1>2, <1>3, <1>4, <1>5, <1>6, NewConfigIs DEF Configs

\* The defaults are a configuration.
LEMMA DefaultTypes == DefaultConfig \in Configs
<1>1. DefaultPort \in 0 .. 2 * LongMax + 1
  BY ConstantsAssumption
<1> QED
  BY <1>1, ConstantsAssumption DEF DefaultConfig, Configs

LEMMA TypeInit == Init => TypeOK
<1>1. 0 \in 0 .. MaxChanges
  BY ConstantsAssumption
<1> QED
  BY <1>1, DefaultTypes DEF Init, TypeOK

\* Whoever stores a configuration.
LEMMA ChangeTypes ==
  ASSUME TypeOK, NEW p \in Pages, NEW c \in Configs, Change(p, c)
  PROVE  /\ config' \in Configs /\ changes' \in 0 .. MaxChanges
         /\ stale' \in [Pages -> BOOLEAN]
<1>1. config' \in Configs /\ stale' \in [Pages -> BOOLEAN]
  BY DEF Change
<1>2. changes' \in 0 .. MaxChanges
  BY ConstantsAssumption DEF Change, TypeOK
<1> QED
  BY <1>1, <1>2

LEMMA TypeNext == TypeOK /\ [Next]_vars => TypeOK'
<1> SUFFICES ASSUME TypeOK, [Next]_vars PROVE TypeOK'
  OBVIOUS
<1> USE DEF board, pages
<1>1. ASSUME NEW p \in Pages, Open(p) PROVE TypeOK'
  BY <1>1 DEF Open, TypeOK
<1>2. ASSUME NEW p \in Pages, ServeToken(p) PROVE TypeOK'
  BY <1>2 DEF ServeToken, TypeOK
<1>3. ASSUME NEW p \in Pages, ServeSettings(p) PROVE TypeOK'
  <2>1. Settings(config) \in Inputs
    BY SettingsTypes DEF TypeOK
  <2> QED
    BY <1>3, <2>1 DEF ServeSettings, TypeOK
<1>4. ASSUME NEW p \in Pages, PostSome(p) PROVE TypeOK'
  <2>1. PICK sent \in Filled(p), behind \in BOOLEAN :
          \E body \in Bodies(sent) : Post(p, sent, body, behind)
    BY <1>4 DEF PostSome
  <2>2. PICK body \in Bodies(sent) : Post(p, sent, body, behind)
    BY <2>1
  <2>3. sent \in Inputs
    BY <1>4, <2>1, FilledTypes DEF PostSome, MayPost, TypeOK
  <2>4. IsBody(body) /\ Accepted(body, behind)
    BY <2>2, <2>3, BodyTypes DEF Post
  <2>5. NewConfig(body) \in Configs
    BY <2>4, AcceptedTypes DEF TypeOK
  <2>6. /\ config' \in Configs /\ changes' \in 0 .. MaxChanges
        /\ stale' \in [Pages -> BOOLEAN]
    BY <2>2, <2>5, ChangeTypes DEF Post
  <2> QED
    BY <2>2, <2>3, <2>6 DEF Post, TypeOK
<1>5. ASSUME NEW p \in Pages, PassPost(p) PROVE TypeOK'
  <2>1. PICK new \in Texts : Change(p, [config EXCEPT !.password = new])
    BY <1>5 DEF PassPost, Fits, is_password_valid
  <2>2. [config EXCEPT !.password = new] \in Configs
    BY DEF TypeOK, Configs
  <2>3. /\ config' \in Configs /\ changes' \in 0 .. MaxChanges
        /\ stale' \in [Pages -> BOOLEAN]
    BY <2>1, <2>2, ChangeTypes
  <2> QED
    BY <1>5, <2>3 DEF PassPost, TypeOK
<1>6. ASSUME NEW p \in Pages, HardReset(p) PROVE TypeOK'
  <2>1. DefaultConfig \in Configs
    BY DefaultTypes
  <2>2. /\ config' \in Configs /\ changes' \in 0 .. MaxChanges
        /\ stale' \in [Pages -> BOOLEAN]
    BY <1>6, <2>1, ChangeTypes DEF HardReset
  <2> QED
    BY <1>6, <2>2 DEF HardReset, TypeOK
<1>7. CASE Restart
  <2>1. ZeroConfig \in Configs
    BY ConstantsAssumption DEF ZeroConfig, Configs
  <2>2. config' \in Configs
    BY <1>7, <2>1 DEF Restart, TypeOK
  <2>3. changes' \in 0 .. MaxChanges
    BY <1>7, ConstantsAssumption DEF Restart, TypeOK
  <2> QED
    BY <1>7, <2>2, <2>3 DEF Restart, TypeOK
<1>8. CASE UNCHANGED vars
  BY <1>8 DEF vars, TypeOK
<1> QED
  BY <1>1, <1>2, <1>3, <1>4, <1>5, <1>6, <1>7, <1>8 DEF Next

\* Every variable has its type; in particular an address that is stored is
\* four bytes and a port fits into a uint32_t, whatever was typed.
THEOREM TypeCorrect == Spec => []TypeOK
BY TypeInit, TypeNext, PTL DEF Spec

-----------------------------------------------------------------------------
(* Forms that arrive whole *)

\* An address nobody would object to is one that UsualAddress is about.
LEMMA UsualIsTaken ==
  ASSUME NEW text \in AddressTexts, NEW behind, IsAddress(text),
         \A k \in 1 .. 4 : ~Octal(text[k])
  PROVE  /\ ipaddr_addr(text) = Meaning(text)
         /\ Length(text) < 15 => is_valid_ip_address(text, behind)
<1>1. Len(text) = 4 /\ text \in Seq(Seq(Nat))
  BY DEF IsAddress, AddressTexts
<1>2. DOMAIN text = 1 .. 4 /\ \A k \in 1 .. 4 : Len(text[k]) \in Nat
  BY <1>1
<1>3. \A k \in 1 .. 4 : text[k] # <<>> /\ IsNumber(text[k]) /\ Reading(10, text[k]) <= 255
  BY DEF IsAddress
<1> QED
  BY ONLY <1>1, <1>2, <1>3, \A k \in 1 .. 4 : ~Octal(text[k]), UsualAddress

\* What usual texts are taken for, field by field.
LEMMA UsualForm ==
  ASSUME config \in Configs, NEW sent \in Inputs, Usual(sent), NEW behind
  PROVE  /\ Length(sent.ip) < 15 => Accepted(sent, behind)
         /\ \A f \in Fields : Means(f, sent[f], NewConfig(sent)[f])
<1>1. DOMAIN sent = Fields
  BY DEF Inputs, Fields
<1>2. /\ sent.devname \in Texts /\ sent.mqtt_password \in Texts \cup {Empty}
      /\ sent.mqtt_port \in 1 .. LongMax
      /\ sent.ip \in AddressTexts /\ IsAddress(sent.ip)
      /\ \A k \in 1 .. 4 : ~Octal(sent.ip[k])
  BY DEF Usual, Inputs
<1>3. /\ Seen(sent.devname) = sent.devname /\ sent.devname \notin {Empty, Long, Spaced}
      /\ Seen(sent.mqtt_password) = sent.mqtt_password /\ sent.mqtt_password # Spaced
  BY <1>2, ConstantsAssumption DEF Seen
<1>4. Port(sent.mqtt_port) = sent.mqtt_port /\ sent.mqtt_port # 0
  <2>1. sent.mqtt_port \in Int /\ sent.mqtt_port # 0
    BY <1>2, ConstantsAssumption
  <2> QED
    BY <1>2, <2>1, PortType
<1>5. /\ ipaddr_addr(sent.ip) = Meaning(sent.ip)
      /\ Length(sent.ip) < 15 => is_valid_ip_address(sent.ip, behind)
  BY <1>2, UsualIsTaken
<1>6. Length(sent.ip) < 15 => Accepted(sent, behind)
  BY <1>1, <1>3, <1>4, <1>5 DEF Accepted, Valid, Fields
<1>7. /\ NewConfig(sent).devname = sent.devname
      /\ NewConfig(sent).ip = Meaning(sent.ip)
      /\ NewConfig(sent).mqtt_port = sent.mqtt_port
      /\ NewConfig(sent).mqtt_password = sent.mqtt_password
  BY <1>1, <1>3, <1>4, <1>5, NewConfigIs DEF Fields
<1> QED
  BY <1>2, <1>6, <1>7 DEF Means, Fields

\* A form that arrives whole and holds usual texts is stored as it was meant,
\* and is refused only when an address fills its buffer.
THEOREM WholeFormsAreTaken == Spec => []WholeFormIsTaken
<1>1. TypeOK => WholeFormIsTaken
  <2> SUFFICES ASSUME TypeOK, NEW p \in Pages, form[p] # NoForm,
                      NEW sent \in Filled(p), NEW behind \in BOOLEAN, Usual(sent)
               PROVE  /\ Length(sent.ip) < 15 => Accepted(sent, behind)
                      /\ \A f \in Fields : Means(f, sent[f], NewConfig(sent)[f])
    BY DEF WholeFormIsTaken
  <2>1. sent \in Inputs
    BY FilledTypes DEF TypeOK
  <2> QED
    BY <2>1, UsualForm DEF TypeOK
<1> QED
  BY <1>1, TypeCorrect, PTL

\* Saving settings that nobody touched changes only mqtt_password: a name, an
\* address and a port come back from what settings.json shows of them.
THEOREM UntouchedSavesKeep == Spec => []UntouchedSaveKeeps
<1>1. TypeOK => UntouchedSaveKeeps
  <2> SUFFICES ASSUME config \in Configs,
                      config.devname # Empty,
                      \E k \in 1 .. 4 : config.ip[k] < 100,
                      config.mqtt_port \in 1 .. LongMax
               PROVE  /\ Accepted(Settings(config), FALSE)
                      /\ NewConfig(Settings(config)) = [config EXCEPT !.mqtt_password = Empty]
    BY DEF UntouchedSaveKeeps, TypeOK
  <2> DEFINE sent == Settings(config)
  <2>1. /\ DOMAIN sent = Fields
        /\ sent["devname"] = config.devname /\ sent["ip"] = AsText(config.ip)
        /\ sent["mqtt_port"] = config.mqtt_port /\ sent["mqtt_password"] = Empty
    BY DEF Settings, Fields
  <2>2. config.ip \in [1 .. 4 -> 0 .. 255] /\ config.devname \in Texts
    BY DEF Configs
  <2>3. /\ ipaddr_addr(AsText(config.ip)) = config.ip
        /\ is_valid_ip_address(AsText(config.ip), FALSE)
    BY <2>2, AddressRoundTrip
  <2>4. Port(config.mqtt_port) = config.mqtt_port /\ config.mqtt_port # 0
    <3>1. config.mqtt_port \in Int /\ config.mqtt_port # 0
      BY ConstantsAssumption
    <3> QED
      BY <3>1, PortType
  <2>5. /\ Seen(config.devname) = config.devname /\ config.devname \notin {Empty, Long, Spaced}
        /\ Seen(Empty) = Empty /\ Empty # Spaced
    BY <2>2, ConstantsAssumption DEF Seen
  <2> HIDE DEF sent
  <2>6. Accepted(sent, FALSE)
    BY <2>1, <2>3, <2>4, <2>5 DEF Accepted, Valid, Fields
  <2>7. NewConfig(sent) =
          [devname |-> config.devname, ip |-> config.ip, mqtt_port |-> config.mqtt_port,
           mqtt_password |-> Empty, password |-> config.password]
    BY <2>1, <2>3, <2>4, <2>5, NewConfigIs DEF Fields
  <2>8. [config EXCEPT !.mqtt_password = Empty] =
          [devname |-> config.devname, ip |-> config.ip, mqtt_port |-> config.mqtt_port,
           mqtt_password |-> Empty, password |-> config.password]
    BY DEF Configs
  <2> QED
    BY <2>6, <2>7, <2>8 DEF sent
<1> QED
  BY <1>1, TypeCorrect, PTL
=============================================================================
