------------------------- MODULE AddressBlocksProofs -------------------------
(***************************************************************************)
(* Proofs about addresses of any size: what their octets say as a number,  *)
(* what a mask leaves of them, and what an increment makes of them.        *)
(***************************************************************************)
EXTENDS AddressBlocks, WellFoundedInduction, FiniteSetTheorems, TLAPS

-----------------------------------------------------------------------------
(* Sequences of numbers and of addresses that are defined step by step.    *)

\* A set of numbers has a least one.
LEMMA Least ==
    ASSUME NEW S, S \subseteq Nat, S # {}
    PROVE  \E i \in S : \A j \in S : i <= j
<1>1. PICK i \in S : \A j \in S : ~(<<j, i>> \in OpToRel(<, Nat))
  BY WFMin, NatLessThanWellFounded, Zenon
<1>2. \A j \in S : ~(j < i)
  BY <1>1, Zenon DEF OpToRel
<1>3. \A j \in S : i <= j
  BY <1>2
<1> QED BY <1>3

\* The first n steps of a sequence in S, from the first element, by next.
Reaches(n, f, S, first, next) ==
    /\ f \in [0 .. n -> S] /\ f[0] = first
    /\ \A k \in 1 .. n : f[k] = next[<<k, f[k - 1]>>]

\* A sequence defined by its first element and its next one exists up to any length.
LEMMA StepByStep ==
    ASSUME NEW N \in Nat, NEW S, NEW first \in S, NEW next \in [(1 .. N) \X S -> S]
    PROVE  \E f : Reaches(N, f, S, first, next)
<1> DEFINE Stuck == {n \in 0 .. N : ~ \E f : Reaches(n, f, S, first, next)}
<1>1. SUFFICES ASSUME Stuck # {} PROVE FALSE
  <2>1. N \in 0 .. N
    OBVIOUS
  <2> QED BY <2>1
<1>2. PICK n \in Stuck : \A m \in Stuck : n <= m
  <2>1. Stuck \subseteq Nat
    OBVIOUS
  <2> HIDE DEF Stuck
  <2> QED BY <1>1, <2>1, Least
<1>3. n \in 0 .. N
  OBVIOUS
<1>4. n # 0
  <2>1. Reaches(0, [k \in 0 .. 0 |-> first], S, first, next)
    BY DEF Reaches
  <2> QED BY <2>1
<1>5. n - 1 \in 0 .. N /\ n \in 1 .. N
  BY <1>3, <1>4
<1>6. n - 1 \notin Stuck
  <2> HIDE DEF Stuck
  <2> QED BY <1>2, <1>3
<1>7. PICK f : Reaches(n - 1, f, S, first, next)
  BY <1>5, <1>6
<1>8. f[n - 1] \in S /\ next[<<n, f[n - 1]>>] \in S
  BY <1>5, <1>7 DEF Reaches
<1> DEFINE g == [k \in 0 .. n |-> IF k = n THEN next[<<n, f[n - 1]>>] ELSE f[k]]
<1>9. Reaches(n, g, S, first, next)
  <2>1. g \in [0 .. n -> S]
    BY <1>5, <1>7, <1>8 DEF Reaches
  <2>2. g[0] = first
    BY <1>5, <1>7 DEF Reaches
  <2>3. ASSUME NEW k \in 1 .. n PROVE g[k] = next[<<k, g[k - 1]>>]
    <3>1. CASE k = n
      <4>1. g[n] = next[<<n, f[n - 1]>>] /\ g[n - 1] = f[n - 1]
        BY <1>5
      <4> QED BY <3>1, <4>1
    <3>2. CASE k # n
      <4>1. k \in 1 .. n - 1 /\ k - 1 \in 0 .. n - 1
        BY <1>5, <3>2
      <4>2. g[k] = f[k] /\ g[k - 1] = f[k - 1]
        BY <1>5, <4>1
      <4> QED BY <1>7, <4>1, <4>2 DEF Reaches
    <3> QED BY <3>1, <3>2
  <2> HIDE DEF g
  <2> QED BY <2>1, <2>2, <2>3 DEF Reaches
<1> QED BY <1>9

\* A function that begins so and goes on so.
Follows(n, g, S, first, next) ==
    /\ g[0] = first
    /\ \A k \in 1 .. n : g[k - 1] \in S => g[k] = next[<<k, g[k - 1]>>]

\* There is only one such sequence.
LEMMA OneSequence ==
    ASSUME NEW N \in Nat, NEW S, NEW first, NEW next, NEW f, NEW g,
           Reaches(N, f, S, first, next), Follows(N, g, S, first, next)
    PROVE  \A k \in 0 .. N : g[k] = f[k]
<1> DEFINE Apart == {k \in 0 .. N : g[k] # f[k]}
<1>1. SUFFICES ASSUME Apart # {} PROVE FALSE
  OBVIOUS
<1>2. PICK n \in Apart : \A m \in Apart : n <= m
  <2>1. Apart \subseteq Nat
    OBVIOUS
  <2> HIDE DEF Apart
  <2> QED BY <1>1, <2>1, Least
<1>3. n # 0
  BY DEF Reaches, Follows
<1>4. n - 1 \in 0 .. N /\ n \in 1 .. N /\ n - 1 \notin Apart
  <2>1. n \in 0 .. N
    OBVIOUS
  <2> HIDE DEF Apart
  <2> QED BY <1>2, <1>3, <2>1
<1>5. g[n - 1] = f[n - 1] /\ f[n - 1] \in S
  BY <1>4 DEF Reaches
<1>6. g[n] = f[n]
  BY <1>4, <1>5 DEF Reaches, Follows
<1> QED BY <1>6

\* PowerOfTwo has a value for every width, twice the one before.
LEMMA Powers ==
    /\ PowerOfTwo \in [0 .. Width -> Nat] /\ PowerOfTwo[0] = 1
    /\ \A n \in 1 .. Width : PowerOfTwo[n] = 2 * PowerOfTwo[n - 1]
<1> DEFINE next == [e \in (1 .. Width) \X Nat |-> 2 * e[2]]
<1>1. next \in [(1 .. Width) \X Nat -> Nat]
  OBVIOUS
<1>2. \A n \in 1 .. Width, m \in Nat : next[<<n, m>>] = 2 * m
  OBVIOUS
<1> HIDE DEF next
<1>3. PICK f : Reaches(Width, f, Nat, 1, next)
  BY <1>1, WidthAssumption, StepByStep
<1>4. /\ f \in [0 .. Width -> Nat] /\ f[0] = 1
      /\ \A n \in 1 .. Width : f[n] = 2 * f[n - 1]
  <2>1. ASSUME NEW n \in 1 .. Width PROVE f[n] = 2 * f[n - 1]
    <3>1. f[n] = next[<<n, f[n - 1]>>] /\ n - 1 \in 0 .. Width
      BY <1>3, WidthAssumption DEF Reaches
    <3>2. f[n - 1] \in Nat
      BY <1>3, <3>1 DEF Reaches
    <3> QED BY <1>2, <3>1, <3>2
  <2> QED BY <1>3, <2>1 DEF Reaches
<1>5. f = [n \in 0 .. Width |-> IF n = 0 THEN 1 ELSE 2 * f[n - 1]]
  <2>1. \A n \in 0 .. Width : n = 0 \/ n \in 1 .. Width
    BY WidthAssumption
  <2>2. \A n \in 0 .. Width : f[n] = IF n = 0 THEN 1 ELSE 2 * f[n - 1]
    BY <1>4, <2>1
  <2> QED BY <1>4, <2>2
<1>6. PowerOfTwo = [n \in 0 .. Width |-> IF n = 0 THEN 1 ELSE 2 * PowerOfTwo[n - 1]]
  BY <1>5, Zenon DEF PowerOfTwo
<1>7. PowerOfTwo[0] = 1 /\ \A n \in 1 .. Width : PowerOfTwo[n] = 2 * PowerOfTwo[n - 1]
  BY <1>6, WidthAssumption
<1>8. Follows(Width, PowerOfTwo, Nat, 1, next)
  BY <1>2, <1>7 DEF Follows
<1>9. \A n \in 0 .. Width : PowerOfTwo[n] = f[n]
  BY <1>3, <1>8, WidthAssumption, OneSequence
<1>10. PowerOfTwo \in [0 .. Width -> Nat]
  <2>1. PowerOfTwo = [n \in 0 .. Width |-> PowerOfTwo[n]]
    BY <1>6, Zenon
  <2>2. \A n \in 0 .. Width : PowerOfTwo[n] \in Nat
    BY <1>4, <1>9
  <2> QED BY <2>1, <2>2
<1> QED BY <1>7, <1>10

\* An octet has two values at least, more than any part of its bits.
LEMMA Octet ==
    /\ Base \in Nat /\ Base > 1
    /\ \A n \in 0 .. Width : PowerOfTwo[n] \in Nat \ {0} /\ (n < Width => PowerOfTwo[n] < Base)
<1>1. \A n \in 0 .. Width : PowerOfTwo[n] > 0
  <2> DEFINE Zero == {n \in 0 .. Width : ~(PowerOfTwo[n] > 0)}
  <2>1. SUFFICES ASSUME Zero # {} PROVE FALSE
    OBVIOUS
  <2>2. PICK n \in Zero : \A m \in Zero : n <= m
    <3>1. Zero \subseteq Nat
      OBVIOUS
    <3> HIDE DEF Zero
    <3> QED BY <2>1, <3>1, Least
  <2>3. n \in 1 .. Width /\ n - 1 \in 0 .. Width
    BY Powers, WidthAssumption
  <2>4. n - 1 \notin Zero
    <3> HIDE DEF Zero
    <3> QED BY <2>2, <2>3
  <2> QED BY <2>3, <2>4, Powers
<1>2. ASSUME NEW h \in 0 .. Width
      PROVE  \A n \in h .. Width : PowerOfTwo[h] <= PowerOfTwo[n]
  <2> DEFINE Less == {n \in h .. Width : ~(PowerOfTwo[h] <= PowerOfTwo[n])}
  <2>1. SUFFICES ASSUME Less # {} PROVE FALSE
    OBVIOUS
  <2>2. PICK n \in Less : \A m \in Less : n <= m
    <3>1. Less \subseteq Nat
      OBVIOUS
    <3> HIDE DEF Less
    <3> QED BY <2>1, <3>1, Least
  <2>3. n \in h + 1 .. Width /\ n - 1 \in h .. Width /\ n \in 1 .. Width
    <3>1. n \in h .. Width /\ ~(PowerOfTwo[h] <= PowerOfTwo[n])
      BY <2>2
    <3>2. PowerOfTwo[h] \in Nat
      BY Powers
    <3>3. n # h
      BY <3>1, <3>2
    <3> QED BY <3>1, <3>3, WidthAssumption
  <2>4. n - 1 \notin Less
    <3> HIDE DEF Less
    <3> QED BY <2>2, <2>3
  <2>5. PowerOfTwo[h] <= PowerOfTwo[n - 1] /\ PowerOfTwo[n - 1] \in Nat /\ PowerOfTwo[h] \in Nat
    BY <2>3, <2>4, Powers, WidthAssumption
  <2>6. PowerOfTwo[n] = 2 * PowerOfTwo[n - 1] /\ ~(PowerOfTwo[h] <= PowerOfTwo[n])
    BY <2>3, Powers
  <2> QED BY <2>5, <2>6
<1>3. \A n \in 0 .. Width : PowerOfTwo[n] \in Nat \ {0}
  BY <1>1, Powers
<1>4. ASSUME NEW n \in 0 .. Width, n < Width
      PROVE  PowerOfTwo[n] < Base
  <2>1. n + 1 \in 1 .. Width /\ n + 1 \in 0 .. Width /\ Width \in n + 1 .. Width
    BY <1>4, WidthAssumption
  <2>2. PowerOfTwo[n + 1] = 2 * PowerOfTwo[n]
    <3>1. (n + 1) - 1 = n
      OBVIOUS
    <3> QED BY <2>1, <3>1, Powers
  <2>3. PowerOfTwo[n + 1] <= Base
    BY <1>2, <2>1 DEF Base
  <2>4. Base \in Nat
    BY <1>3, WidthAssumption DEF Base
  <2> QED BY <1>3, <2>2, <2>3, <2>4
<1>5. Base \in Nat /\ PowerOfTwo[0] < Base
  BY <1>3, <1>4, WidthAssumption DEF Base
<1> QED BY <1>3, <1>4, <1>5, Powers

-----------------------------------------------------------------------------
(* Masks.                                                                  *)

\* What is left of x by a mask of the lower bits, which count m.
Floor(x, m) == x - (x % m)

\* What is left of a number when its low bits are cleared is a multiple of m.
LEMMA FloorOf ==
    ASSUME NEW m \in Nat, m > 0, NEW x \in Nat
    PROVE  \E q \in Nat : /\ Floor(x, m) = q * m
                          /\ q * m <= x /\ x < q * m + m
<1>1. PICK q \in Int : x = q * m + (x % m)
  OBVIOUS
<1>2. x % m \in 0 .. m - 1
  OBVIOUS
<1>3. q \in Nat
  <2>1. q <= -1 => q * m <= -m
    OBVIOUS
  <2> QED BY <1>1, <1>2, <2>1
<1>4. q * m \in Nat
  BY <1>3
<1> QED BY <1>1, <1>2, <1>3, <1>4 DEF Floor

\* Clearing low bits lowers a number, does nothing twice, and gives zero to small ones.
LEMMA FloorIs ==
    ASSUME NEW m \in Nat, m > 0, NEW x \in Nat
    PROVE  /\ Floor(x, m) \in 0 .. x
           /\ Floor(Floor(x, m), m) = Floor(x, m)
           /\ Floor(x, m) = 0 <=> x < m
           /\ m = 1 => Floor(x, m) = x
<1>1. PICK q \in Nat : Floor(x, m) = q * m /\ q * m <= x /\ x < q * m + m
  BY FloorOf
<1>2. q * m \in Nat
  OBVIOUS
<1>3. Floor(q * m, m) = q * m
  <2>1. (q * m) % m = 0
    OBVIOUS
  <2> QED BY <1>2, <2>1 DEF Floor
<1>4. x < m => Floor(x, m) = 0
  <2>1. x < m => x % m = x
    OBVIOUS
  <2> QED BY <2>1 DEF Floor
<1>5. m = 1 => q * m = x
  BY <1>1, <1>2
<1> QED BY <1>1, <1>2, <1>3, <1>4, <1>5

\* Clearing low bits keeps the order of numbers.
LEMMA FloorIsMonotone ==
    ASSUME NEW m \in Nat, m > 0, NEW x \in Nat, NEW y \in Nat, x <= y
    PROVE  Floor(x, m) <= Floor(y, m)
<1>1. PICK p \in Nat : Floor(x, m) = p * m /\ p * m <= x /\ x < p * m + m
  BY FloorOf
<1>2. PICK q \in Nat : Floor(y, m) = q * m /\ q * m <= y /\ y < q * m + m
  BY FloorOf
<1>3. p * m \in Nat /\ q * m \in Nat
  OBVIOUS
<1>4. p * m < (q + 1) * m
  <2>1. (q + 1) * m = q * m + m
    OBVIOUS
  <2> QED BY <1>1, <1>2, <1>3, <2>1
<1>5. p <= q
  <2>1. q + 1 <= p => (q + 1) * m <= p * m
    OBVIOUS
  <2> QED BY <1>3, <1>4, <2>1
<1>6. p * m <= q * m
  BY <1>5
<1> QED BY <1>1, <1>2, <1>6

\* After an octet that the mask divides, all bits belong to the hosts.
LEMMA HostBitsAre ==
    ASSUME NEW length \in Nat
    PROVE  /\ \A j \in 1 .. Octets : HostBits(j, length) \in 0 .. Width
           /\ length > 0 => HostBits(1, length) < Width
           /\ \A i, j \in 1 .. Octets : i < j /\ HostBits(i, length) > 0 => HostBits(j, length) = Width
<1>1. ASSUME NEW j \in 1 .. Octets
      PROVE  (j - 1) * Width \in Nat
  BY OctetsAssumption, WidthAssumption
<1>2. ASSUME NEW j \in 1 .. Octets
      PROVE  HostBits(j, length) \in 0 .. Width
  BY <1>1, WidthAssumption DEF HostBits
<1>3. length > 0 => HostBits(1, length) < Width
  BY WidthAssumption DEF HostBits
<1>4. ASSUME NEW i \in 1 .. Octets, NEW j \in 1 .. Octets, i < j, HostBits(i, length) > 0
      PROVE  HostBits(j, length) = Width
  <2>1. (j - 1) * Width >= (i - 1) * Width + Width
    <3>1. PICK d \in Nat : j - 1 = (i - 1) + 1 + d
      BY <1>4, OctetsAssumption
    <3>2. (j - 1) * Width = (i - 1) * Width + Width + d * Width /\ d * Width \in Nat
      BY <3>1, OctetsAssumption, WidthAssumption
    <3> QED BY <1>1, <3>2, WidthAssumption
  <2>2. length - (i - 1) * Width < Width
    BY <1>1, <1>4, WidthAssumption DEF HostBits
  <2>3. length - (j - 1) * Width <= 0
    BY <1>1, <2>1, <2>2, WidthAssumption
  <2> QED BY <1>1, <2>3 DEF HostBits
<1> QED BY <1>2, <1>3, <1>4

\* Octets are numbers below the base.
LEMMA AddressOctets ==
    ASSUME NEW a \in Addresses, NEW j \in 1 .. Octets
    PROVE  a[j] \in Nat /\ a[j] < Base
BY Octet DEF Addresses

\* Addresses are equal octet by octet.
LEMMA SameOctets ==
    ASSUME NEW a \in Addresses, NEW b \in Addresses, \A j \in 1 .. Octets : a[j] = b[j]
    PROVE  a = b
<1>1. a = [j \in 1 .. Octets |-> a[j]] /\ b = [j \in 1 .. Octets |-> b[j]]
  BY DEF Addresses
<1>2. [j \in 1 .. Octets |-> a[j]] = [j \in 1 .. Octets |-> b[j]]
  OBVIOUS
<1> QED BY <1>1, <1>2, Zenon

\* A mask leaves an address, octet by octet, and what it left it leaves.
LEMMA MaskIs ==
    ASSUME NEW a \in Addresses, NEW length \in Nat
    PROVE  /\ Mask(a, length) \in Addresses
           /\ Mask(Mask(a, length), length) = Mask(a, length)
           /\ \A j \in 1 .. Octets :
                 LET m == PowerOfTwo[HostBits(j, length)]
                 IN  m \in Nat /\ m > 0 /\ Mask(a, length)[j] = Floor(a[j], m)
<1> DEFINE m(j) == PowerOfTwo[HostBits(j, length)]
<1>1. \A j \in 1 .. Octets : m(j) \in Nat /\ m(j) > 0
  BY HostBitsAre, Octet
<1> HIDE DEF m
<1>2. \A b : Mask(b, length) = [j \in 1 .. Octets |-> Floor(b[j], m(j))]
  BY DEF Mask, Floor, m
<1>3. ASSUME NEW j \in 1 .. Octets
      PROVE  /\ Floor(a[j], m(j)) \in 0 .. Base - 1
             /\ Floor(Floor(a[j], m(j)), m(j)) = Floor(a[j], m(j))
  <2>1. a[j] \in Nat /\ a[j] < Base /\ Base \in Nat
    BY AddressOctets, Octet
  <2>2. /\ Floor(a[j], m(j)) \in 0 .. a[j]
        /\ Floor(Floor(a[j], m(j)), m(j)) = Floor(a[j], m(j))
    BY <1>1, <2>1, FloorIs
  <2> QED BY <2>1, <2>2
<1>4. Mask(a, length) \in Addresses
  BY <1>2, <1>3 DEF Addresses
<1>5. Mask(Mask(a, length), length) = Mask(a, length)
  <2>1. \A j \in 1 .. Octets : Mask(a, length)[j] = Floor(a[j], m(j))
    BY <1>2
  <2>2. \A j \in 1 .. Octets : Floor(Mask(a, length)[j], m(j)) = Floor(a[j], m(j))
    BY <1>3, <2>1
  <2> QED BY <1>2, <2>2
<1>6. \A j \in 1 .. Octets : m(j) \in Nat /\ m(j) > 0 /\ Mask(a, length)[j] = Floor(a[j], m(j))
  BY <1>1, <1>2
<1> QED BY <1>4, <1>5, <1>6 DEF m

-----------------------------------------------------------------------------
(* The order of addresses.                                                 *)

\* In the first octet they differ in, a is the lower.
Before(a, b) ==
    \E j \in 1 .. Octets : a[j] < b[j] /\ \A i \in 1 .. j - 1 : a[i] = b[i]

\* Of two addresses one comes before the other, at the first octet that differs.
LEMMA BeforeOrAfter ==
    ASSUME NEW a \in Addresses, NEW b \in Addresses, a # b
    PROVE  Before(a, b) \/ Before(b, a)
<1> DEFINE apart == {j \in 1 .. Octets : a[j] # b[j]}
<1>1. apart # {}
  BY SameOctets
<1>2. PICK j \in apart : \A i \in apart : j <= i
  <2>1. apart \subseteq Nat
    BY OctetsAssumption
  <2> HIDE DEF apart
  <2> QED BY <1>1, <2>1, Least
<1>3. \A i \in 1 .. j - 1 : a[i] = b[i] /\ b[i] = a[i]
  BY <1>2, OctetsAssumption
<1>4. a[j] < b[j] \/ b[j] < a[j]
  BY AddressOctets
<1> QED BY <1>3, <1>4 DEF Before

\* What a mask makes of an octet, by the bits of it that are the hosts'.
LEMMA MaskedOctets ==
    ASSUME NEW length \in Nat, NEW j \in 1 .. Octets, NEW a \in Addresses, NEW b \in Addresses
    PROVE  /\ HostBits(j, length) = Width => Mask(a, length)[j] = 0
           /\ HostBits(j, length) < Width => (Mask(a, length)[j] = 0 => a[j] < Base - 1)
           /\ HostBits(j, length) = 0 => Mask(a, length)[j] = a[j]
           /\ a[j] <= b[j] => Mask(a, length)[j] <= Mask(b, length)[j]
           /\ Mask(a, length)[j] <= a[j]
<1> DEFINE h == HostBits(j, length)
           m == PowerOfTwo[h]
<1>1. h \in 0 .. Width
  BY HostBitsAre
<1>2. /\ m \in Nat /\ m > 0 /\ Base \in Nat
      /\ h = Width => m = Base
      /\ h < Width => m < Base
      /\ h = 0 => m = 1
  BY <1>1, Octet, Powers DEF Base
<1>3. Mask(a, length)[j] = Floor(a[j], m) /\ Mask(b, length)[j] = Floor(b[j], m)
  BY MaskIs
<1>4. a[j] \in Nat /\ a[j] < Base /\ b[j] \in Nat
  BY AddressOctets
<1> HIDE DEF m, h
<1>5. /\ Floor(a[j], m) = 0 <=> a[j] < m
      /\ Floor(a[j], m) \in 0 .. a[j]
      /\ m = 1 => Floor(a[j], m) = a[j]
  BY <1>2, <1>4, FloorIs
<1>6. a[j] <= b[j] => Floor(a[j], m) <= Floor(b[j], m)
  BY <1>2, <1>4, FloorIsMonotone
<1>7. /\ h = Width => Mask(a, length)[j] = 0
      /\ h < Width => (Mask(a, length)[j] = 0 => a[j] < Base - 1)
      /\ h = 0 => Mask(a, length)[j] = a[j]
      /\ Mask(a, length)[j] <= a[j]
  BY <1>2, <1>3, <1>4, <1>5
<1> QED BY <1>3, <1>6, <1>7 DEF h

\* Masks keep the order.
LEMMA MaskIsMonotone ==
    ASSUME NEW a \in Addresses, NEW b \in Addresses, Before(a, b), NEW length \in Nat
    PROVE  \/ Mask(a, length) = Mask(b, length)
           \/ Before(Mask(a, length), Mask(b, length))
<1>1. PICK j \in 1 .. Octets : a[j] < b[j] /\ \A i \in 1 .. j - 1 : a[i] = b[i]
  BY DEF Before
<1>2. Mask(a, length) \in Addresses /\ Mask(b, length) \in Addresses
  BY MaskIs
<1>3. ASSUME NEW i \in 1 .. j - 1 PROVE Mask(a, length)[i] = Mask(b, length)[i]
  <2>1. i \in 1 .. Octets /\ a[i] = b[i]
    BY <1>1, OctetsAssumption
  <2> QED BY <2>1 DEF Mask
<1>4. CASE Mask(a, length)[j] # Mask(b, length)[j]
  <2>1. Mask(a, length)[j] \in Nat /\ Mask(b, length)[j] \in Nat /\ a[j] \in Nat /\ b[j] \in Nat
    BY <1>2, AddressOctets
  <2>2. Mask(a, length)[j] <= Mask(b, length)[j]
    BY <1>1, <2>1, MaskedOctets
  <2>3. Mask(a, length)[j] < Mask(b, length)[j]
    BY <1>4, <2>1, <2>2
  <2> QED BY <1>3, <2>3 DEF Before
<1>5. CASE Mask(a, length)[j] = Mask(b, length)[j]
  <2>1. HostBits(j, length) > 0
    <3>1. HostBits(j, length) # 0
      <4>1. a[j] \in Nat /\ b[j] \in Nat
        BY AddressOctets
      <4>2. HostBits(j, length) = 0 => Mask(a, length)[j] = a[j] /\ Mask(b, length)[j] = b[j]
        BY MaskedOctets
      <4> QED BY <1>1, <1>5, <4>1, <4>2
    <3>2. HostBits(j, length) \in 0 .. Width
      BY HostBitsAre
    <3> QED BY <3>1, <3>2, WidthAssumption
  <2>2. ASSUME NEW i \in 1 .. Octets, i > j
        PROVE  Mask(a, length)[i] = Mask(b, length)[i]
    <3>1. HostBits(i, length) = Width
      BY <2>1, <2>2, HostBitsAre
    <3> QED BY <3>1, MaskedOctets
  <2>3. \A i \in 1 .. Octets : i \in 1 .. j - 1 \/ i = j \/ i > j
    BY OctetsAssumption
  <2>4. \A i \in 1 .. Octets : Mask(a, length)[i] = Mask(b, length)[i]
    BY <1>3, <1>5, <2>2, <2>3
  <2> QED BY <1>2, <2>4, SameOctets
<1> QED BY <1>4, <1>5

-----------------------------------------------------------------------------
(* The numbers of addresses.                                               *)

\* The number of some octets is that of one less, shifted, and the last of them.
LEMMA ValuesAre ==
    ASSUME NEW a \in Addresses
    PROVE  /\ \A j \in 0 .. Octets : Values(a)[j] \in Nat
           /\ Values(a)[0] = 0
           /\ \A j \in 1 .. Octets : Values(a)[j] = Values(a)[j - 1] * Base + a[j]
<1> DEFINE next == [e \in (1 .. Octets) \X Nat |-> e[2] * Base + a[e[1]]]
<1>0. /\ Octets \in Nat /\ 0 \in Nat /\ Base \in Nat
      /\ \A j \in 1 .. Octets : a[j] \in Nat
  BY OctetsAssumption, Octet, AddressOctets
<1>1. next \in [(1 .. Octets) \X Nat -> Nat]
  <2>1. \A j \in 1 .. Octets, m \in Nat : m * Base + a[j] \in Nat
    BY <1>0
  <2> QED BY <2>1
<1>2. \A j \in 1 .. Octets, m \in Nat : next[<<j, m>>] = m * Base + a[j]
  OBVIOUS
<1> HIDE DEF next
<1>3. PICK f : Reaches(Octets, f, Nat, 0, next)
  BY <1>0, <1>1, StepByStep
<1>4. /\ f \in [0 .. Octets -> Nat] /\ f[0] = 0
      /\ \A j \in 1 .. Octets : f[j] = f[j - 1] * Base + a[j]
  <2>1. ASSUME NEW j \in 1 .. Octets PROVE f[j] = f[j - 1] * Base + a[j]
    <3>1. f[j] = next[<<j, f[j - 1]>>] /\ j - 1 \in 0 .. Octets
      BY <1>0, <1>3 DEF Reaches
    <3>2. f[j - 1] \in Nat
      BY <1>3, <3>1 DEF Reaches
    <3> QED BY <1>2, <3>1, <3>2
  <2> QED BY <1>3, <2>1 DEF Reaches
<1>5. f = [j \in 0 .. Octets |-> IF j = 0 THEN 0 ELSE f[j - 1] * Base + a[j]]
  <2>1. \A j \in 0 .. Octets : j = 0 \/ j \in 1 .. Octets
    BY <1>0
  <2>2. \A j \in 0 .. Octets : f[j] = IF j = 0 THEN 0 ELSE f[j - 1] * Base + a[j]
    BY <1>4, <2>1
  <2> QED BY <1>4, <2>2
<1>6. Values(a) = [j \in 0 .. Octets |-> IF j = 0 THEN 0 ELSE Values(a)[j - 1] * Base + a[j]]
  BY <1>5, Zenon DEF Values
<1>7. Values(a)[0] = 0 /\ \A j \in 1 .. Octets : Values(a)[j] = Values(a)[j - 1] * Base + a[j]
  BY <1>0, <1>6
<1>8. Follows(Octets, Values(a), Nat, 0, next)
  BY <1>2, <1>7 DEF Follows
<1>9. \A j \in 0 .. Octets : Values(a)[j] = f[j]
  BY <1>0, <1>3, <1>8, OneSequence
<1> QED BY <1>4, <1>7, <1>9

\* Addresses that begin alike have the same number so far.
LEMMA EqualPrefixes ==
    ASSUME NEW a \in Addresses, NEW b \in Addresses, NEW j \in 0 .. Octets,
           \A i \in 1 .. j : a[i] = b[i]
    PROVE  Values(a)[j] = Values(b)[j]
<1> DEFINE Apart == {i \in 0 .. j : Values(a)[i] # Values(b)[i]}
<1>1. SUFFICES ASSUME Apart # {} PROVE FALSE
  <2>1. j \in 0 .. j
    OBVIOUS
  <2> QED BY <2>1
<1>2. PICK n \in Apart : \A m \in Apart : n <= m
  <2>1. Apart \subseteq Nat
    OBVIOUS
  <2> HIDE DEF Apart
  <2> QED BY <1>1, <2>1, Least
<1>3. n # 0
  BY ValuesAre
<1>4. n - 1 \in 0 .. j /\ n \in 1 .. Octets /\ n \in 1 .. j /\ n - 1 \notin Apart
  <2>1. n \in 0 .. j /\ Octets \in Nat
    BY OctetsAssumption
  <2> HIDE DEF Apart
  <2> QED BY <1>2, <1>3, <2>1
<1>5. Values(a)[n - 1] = Values(b)[n - 1] /\ a[n] = b[n]
  BY <1>4
<1>6. Values(a)[n] = Values(b)[n]
  BY <1>4, <1>5, ValuesAre
<1> QED BY <1>6

\* An address before another one has the smaller number.
LEMMA OrderOfValues ==
    ASSUME NEW a \in Addresses, NEW b \in Addresses, Before(a, b)
    PROVE  Value(a) < Value(b)
<1>1. PICK j \in 1 .. Octets : a[j] < b[j] /\ \A i \in 1 .. j - 1 : a[i] = b[i]
  BY DEF Before
<1>2. Octets \in Nat /\ j - 1 \in 0 .. Octets
  BY OctetsAssumption
<1>3. Values(a)[j - 1] = Values(b)[j - 1] /\ Values(a)[j - 1] \in Nat
  BY <1>1, <1>2, EqualPrefixes, ValuesAre
<1> DEFINE Later == {k \in j .. Octets : ~(Values(a)[k] < Values(b)[k])}
<1>4. SUFFICES ASSUME Later # {} PROVE FALSE
  <2>1. Octets \in j .. Octets
    BY <1>2
  <2> QED BY <2>1 DEF Value
<1>5. PICK n \in Later : \A m \in Later : n <= m
  <2>1. Later \subseteq Nat
    OBVIOUS
  <2> HIDE DEF Later
  <2> QED BY <1>4, <2>1, Least
<1>6. n # j
  <2>1. a[j] \in Nat /\ b[j] \in Nat
    BY AddressOctets
  <2>2. Values(a)[j] = Values(a)[j - 1] * Base + a[j] /\ Values(b)[j] = Values(a)[j - 1] * Base + b[j]
    BY <1>3, ValuesAre
  <2>3. Values(a)[j - 1] * Base \in Nat
    BY <1>3, Octet
  <2>4. Values(a)[j] < Values(b)[j]
    BY <1>1, <2>1, <2>2, <2>3
  <2> QED BY <2>4
<1>7. n - 1 \in j .. Octets /\ n \in 1 .. Octets /\ n - 1 \in 0 .. Octets /\ n - 1 \notin Later
  <2>1. n \in j .. Octets
    OBVIOUS
  <2> HIDE DEF Later
  <2> QED BY <1>2, <1>5, <1>6, <2>1
<1> DEFINE x == Values(a)[n - 1]
           y == Values(b)[n - 1]
<1>8. x < y /\ x \in Nat /\ y \in Nat
  BY <1>7, ValuesAre
<1>9. /\ a[n] \in Nat /\ b[n] \in Nat /\ a[n] < Base
      /\ Values(a)[n] = x * Base + a[n] /\ Values(b)[n] = y * Base + b[n]
  BY <1>7, ValuesAre, AddressOctets
<1>10. x * Base + Base <= y * Base /\ x * Base \in Nat /\ y * Base \in Nat
  <2> HIDE DEF x, y
  <2>1. (x + 1) * Base <= y * Base /\ (x + 1) * Base = x * Base + Base
    BY <1>8, Octet
  <2> QED BY <1>8, <2>1, Octet
<1>11. Values(a)[n] < Values(b)[n]
  <2> HIDE DEF x, y
  <2> QED BY <1>9, <1>10, Octet
<1> QED BY <1>11

\* No two addresses have one number, and numbers are ordered like octets.
LEMMA ValueOrder ==
    ASSUME NEW a \in Addresses, NEW b \in Addresses
    PROVE  /\ Value(a) \in Nat /\ Value(b) \in Nat
           /\ Value(a) = Value(b) => a = b
           /\ Value(a) < Value(b) => Before(a, b)
<1>1. Value(a) \in Nat /\ Value(b) \in Nat
  BY ValuesAre, OctetsAssumption DEF Value
<1>2. CASE a = b
  BY <1>1, <1>2
<1>3. CASE a # b
  BY <1>1, <1>3, BeforeOrAfter, OrderOfValues
<1> QED BY <1>2, <1>3

-----------------------------------------------------------------------------
(* Blocks.                                                                 *)

\* A mask keeps the order of addresses.
LEMMA MaskedOrder ==
    ASSUME NEW a \in Addresses, NEW b \in Addresses, NEW length \in Nat, Value(a) <= Value(b)
    PROVE  Value(Mask(a, length)) <= Value(Mask(b, length))
<1>1. Mask(a, length) \in Addresses /\ Mask(b, length) \in Addresses
  BY MaskIs
<1>2. CASE Mask(a, length) = Mask(b, length)
  BY <1>1, <1>2, ValueOrder
<1>3. CASE Mask(a, length) # Mask(b, length)
  <2>1. a # b
    BY <1>3
  <2>2. Before(a, b)
    <3>1. Value(a) < Value(b)
      BY <2>1, ValueOrder
    <3> QED BY <3>1, ValueOrder
  <2>3. Value(Mask(a, length)) < Value(Mask(b, length))
    BY <1>1, <1>3, <2>2, MaskIsMonotone, OrderOfValues
  <2> QED BY <1>1, <2>3, ValueOrder
<1> QED BY <1>2, <1>3

\* A block begins with its masked address and has no holes.
LEMMA BlockIs ==
    ASSUME NEW ip \in Addresses, NEW length \in Nat
    PROVE  LET network == Mask(ip, length) IN
           /\ network \in Block(ip, length)
           /\ \A a \in Addresses : a \in Block(ip, length) <=> Mask(a, length) = network
           /\ \A a \in Block(ip, length) : Value(network) <= Value(a)
           /\ \A a \in Addresses, b \in Block(ip, length) :
                 Value(network) <= Value(a) /\ Value(a) <= Value(b) => a \in Block(ip, length)
<1> DEFINE network == Mask(ip, length)
<1>1. network \in Addresses /\ Mask(network, length) = network
  BY MaskIs
<1>2. \A a \in Addresses : a \in Block(ip, length) <=> Mask(a, length) = network
  BY DEF Block, InBlock
<1>3. \A a \in Block(ip, length) : a \in Addresses
  BY DEF Block
<1> HIDE DEF network
<1>4. ASSUME NEW a \in Block(ip, length)
      PROVE  Value(network) <= Value(a)
  <2> SUFFICES ASSUME Value(a) < Value(network) PROVE FALSE
    BY <1>1, <1>3, ValueOrder
  <2>1. a \in Addresses /\ Mask(a, length) = network
    BY <1>2, <1>3
  <2>2. ASSUME NEW j \in 1 .. Octets PROVE network[j] <= a[j]
    BY <2>1, MaskedOctets
  <2>3. Before(a, network)
    BY <1>1, <2>1, ValueOrder
  <2>4. PICK j \in 1 .. Octets : a[j] < network[j]
    BY <2>3 DEF Before
  <2> QED BY <1>1, <2>1, <2>2, <2>4, AddressOctets
<1>5. ASSUME NEW a \in Addresses, NEW b \in Block(ip, length),
             Value(network) <= Value(a), Value(a) <= Value(b)
      PROVE  a \in Block(ip, length)
  <2>1. b \in Addresses /\ Mask(b, length) = network
    BY <1>2, <1>3
  <2>2. Value(network) <= Value(Mask(a, length)) /\ Value(Mask(a, length)) <= Value(network)
    BY <1>1, <1>5, <2>1, MaskedOrder
  <2>3. Mask(a, length) \in Addresses
    BY MaskIs
  <2>4. Mask(a, length) = network
    BY <1>1, <2>2, <2>3, ValueOrder
  <2> QED BY <1>2, <2>4
<1> QED BY <1>1, <1>2, <1>4, <1>5 DEF network

-----------------------------------------------------------------------------
(* The increment.                                                          *)

Zeros == [j \in 1 .. Octets |-> 0]

\* The address of ones is the last; its increment wraps to that of zeros (parser.go:144).
LEMMA OnesAreLast ==
    /\ Ones \in Addresses /\ Zeros \in Addresses
    /\ incIP(Ones) = Zeros
    /\ \A a \in Addresses : Value(a) <= Value(Ones)
<1>1. Ones \in Addresses /\ Zeros \in Addresses
  BY Octet DEF Ones, Zeros, Addresses
<1>2. incIP(Ones) = Zeros
  <2>1. (Base - 1 + 1) % Base = 0
    <3>1. Base - 1 + 1 = Base /\ Base % Base = 0
      BY Octet
    <3> QED BY <3>1
  <2>2. \A j \in 1 .. Octets : Ones[j] = Base - 1
    BY DEF Ones
  <2>3. \A j \in 1 .. Octets : \A k \in j + 1 .. Octets : k \in 1 .. Octets
    BY OctetsAssumption
  <2> QED BY <2>1, <2>2, <2>3 DEF incIP, Zeros
<1>3. ASSUME NEW a \in Addresses PROVE Value(a) <= Value(Ones)
  <2>1. ~Before(Ones, a)
    BY AddressOctets, Octet DEF Before, Ones
  <2> QED BY <1>1, <2>1, ValueOrder
<1> QED BY <1>1, <1>2, <1>3

\* Every address but the last is followed by the next number, through every
\* carry (parser.go:145-152).
LEMMA Increment ==
    ASSUME NEW a \in Addresses
    PROVE  /\ incIP(a) \in Addresses
           /\ a # Ones => Value(incIP(a)) = Value(a) + 1
<1> DEFINE b == incIP(a)
<1>0. Octets \in Nat /\ Base \in Nat /\ Base > 1
  BY OctetsAssumption, Octet
<1>1. b \in Addresses
  <2>1. ASSUME NEW j \in 1 .. Octets
        PROVE  (a[j] + 1) % Base \in 0 .. Base - 1 /\ a[j] \in 0 .. Base - 1
    <3>1. a[j] \in Nat /\ a[j] < Base
      BY AddressOctets
    <3> QED BY <1>0, <3>1
  <2> QED BY <2>1 DEF incIP, Addresses
<1>2. CASE a # Ones
  <2> DEFINE low == {j \in 1 .. Octets : a[j] # Base - 1}
             from == {Octets - j : j \in low}
  <2>1. PICK j \in low : \A k \in low : k <= j
    <3>1. from \subseteq Nat
      BY <1>0
    <3>2. from # {}
      <4>1. low # {}
        BY <1>2, OnesAreLast, SameOctets DEF Ones
      <4> QED BY <4>1
    <3>3. PICK n \in from : \A m \in from : n <= m
      <4> HIDE DEF from
      <4> QED BY <3>1, <3>2, Least
    <3>4. PICK j \in low : n = Octets - j
      OBVIOUS
    <3>5. \A k \in low : Octets - j <= Octets - k
      BY <3>3, <3>4
    <3>6. \A k \in low : k <= j
      BY <1>0, <3>5
    <3> QED BY <3>6
  <2>2. j \in 1 .. Octets /\ a[j] # Base - 1
    OBVIOUS
  <2>3. \A k \in 1 .. Octets : k > j => a[k] = Base - 1
    BY <1>0, <2>1
  <2> HIDE DEF low
  <2>4. b[j] = a[j] + 1
    <3>1. \A k \in j + 1 .. Octets : a[k] = Base - 1
      BY <1>0, <2>2, <2>3
    <3>2. b[j] = (a[j] + 1) % Base
      BY <2>2, <3>1 DEF incIP
    <3>3. a[j] \in Nat /\ a[j] < Base
      BY <2>2, AddressOctets
    <3>4. a[j] + 1 \in 0 .. Base - 1
      BY <1>0, <2>2, <3>3
    <3> QED BY <1>0, <3>2, <3>4
  <2>5. ASSUME NEW i \in 1 .. j - 1 PROVE a[i] = b[i]
    <3>1. i \in 1 .. Octets /\ j \in i + 1 .. Octets
      BY <1>0, <2>2
    <3> QED BY <2>2, <3>1 DEF incIP
  <2>6. ASSUME NEW i \in 1 .. Octets, i > j PROVE b[i] = 0
    <3>1. \A k \in i + 1 .. Octets : k \in 1 .. Octets /\ k > j
      BY <1>0, <2>2, <2>6
    <3>2. b[i] = (a[i] + 1) % Base
      BY <2>3, <3>1 DEF incIP
    <3>3. a[i] + 1 = Base /\ Base % Base = 0
      BY <1>0, <2>3, <2>6
    <3> QED BY <3>2, <3>3
  <2> HIDE DEF b
  <2>7. Values(b)[j] = Values(a)[j] + 1
    <3>1. j - 1 \in 0 .. Octets /\ Values(a)[j - 1] = Values(b)[j - 1]
      BY <1>0, <1>1, <2>2, <2>5, EqualPrefixes
    <3>2. Values(a)[j - 1] \in Nat /\ a[j] \in Nat
      BY <2>2, <3>1, ValuesAre, AddressOctets
    <3>3. /\ Values(a)[j] = Values(a)[j - 1] * Base + a[j]
          /\ Values(b)[j] = Values(a)[j - 1] * Base + (a[j] + 1)
      BY <1>1, <2>2, <2>4, <3>1, ValuesAre
    <3>4. Values(a)[j - 1] * Base \in Nat
      BY <1>0, <3>2
    <3> QED BY <3>2, <3>3, <3>4
  <2> DEFINE Off == {k \in j .. Octets : Values(b)[k] # Values(a)[k] + 1}
  <2>8. Off = {}
    <3>1. SUFFICES ASSUME Off # {} PROVE FALSE
      OBVIOUS
    <3>2. PICK n \in Off : \A m \in Off : n <= m
      <4>1. Off \subseteq Nat
        BY <2>2
      <4> HIDE DEF Off
      <4> QED BY <3>1, <4>1, Least
    <3>3. n # j
      BY <2>7
    <3>4. /\ n - 1 \in j .. Octets /\ n \in 1 .. Octets /\ n - 1 \in 0 .. Octets
          /\ n > j /\ n - 1 \notin Off
      <4>1. n \in j .. Octets
        OBVIOUS
      <4> HIDE DEF Off
      <4> QED BY <1>0, <2>2, <3>2, <3>3, <4>1
    <3>5. Values(b)[n - 1] = Values(a)[n - 1] + 1
      BY <3>4
    <3> DEFINE x == Values(a)[n - 1]
    <3>6. x \in Nat
      BY <3>4, ValuesAre
    <3>7. Values(a)[n] = x * Base + (Base - 1) /\ Values(b)[n] = (x + 1) * Base + 0
      BY <1>1, <2>3, <2>6, <3>4, <3>5, ValuesAre
    <3> HIDE DEF x
    <3>8. (x + 1) * Base = x * Base + Base /\ x * Base \in Nat
      BY <1>0, <3>6
    <3>9. Values(b)[n] = Values(a)[n] + 1
      BY <1>0, <3>7, <3>8
    <3> QED BY <3>9
  <2>9. Octets \in j .. Octets
    BY <1>0, <2>2
  <2>10. Value(b) = Value(a) + 1
    BY <2>8, <2>9 DEF Value
  <2> QED BY <1>1, <2>10 DEF b
<1> QED BY <1>1, <1>2

\* No block but that of length 0 holds both the last address and the first, to
\* which the increment wraps.
LEMMA BlocksEnd ==
    ASSUME NEW length \in Nat, length > 0
    PROVE  Mask(Zeros, length) # Mask(Ones, length)
<1>1. 1 \in 1 .. Octets
  BY OctetsAssumption
<1>2. HostBits(1, length) < Width
  BY HostBitsAre
<1>3. Mask(Ones, length)[1] # 0
  <2>1. Ones[1] = Base - 1
    BY <1>1 DEF Ones
  <2>2. ~(Ones[1] < Base - 1)
    BY <2>1, Octet
  <2> QED BY <1>1, <1>2, <2>2, OnesAreLast, MaskedOctets
<1>4. Mask(Zeros, length)[1] = 0
  <2>1. Mask(Zeros, length)[1] = Floor(0, PowerOfTwo[HostBits(1, length)])
    BY <1>1 DEF Mask, Floor, Zeros
  <2>2. PowerOfTwo[HostBits(1, length)] \in Nat /\ PowerOfTwo[HostBits(1, length)] > 0
    BY <1>1, OnesAreLast, MaskIs
  <2> QED BY <2>1, <2>2, FloorIs
<1> QED BY <1>3, <1>4
=============================================================================
