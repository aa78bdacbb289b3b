---------------------------- MODULE KermitProofs ----------------------------
(***************************************************************************)
(* Proofs about Kermit, for every batch, every window less than half of the  *)
(* packet numbers, every limit of retries and any number of faults.          *)
(*                                                                          *)
(* First the arithmetic of packet numbers and places, then one lemma for each *)
(* operator of the sender and of the receiver (the lemmas ...Keeps), then the *)
(* refinement of FileTransfer, the clean line and the theorems.              *)
(*                                                                          *)
(* Sessions that both ends may stream are excluded (Streams).  In a stream    *)
(* the sender takes the answer to the end of a file as one to all its chunks, *)
(* and a receiver with a window answers an end it only put aside.            *)
(***************************************************************************)
EXTENDS KermitInvariant, SequenceTheorems, FiniteSetTheorems, WellFoundedInduction, NaturalsInduction, TLAPS

-----------------------------------------------------------------------------
(* Arithmetic.  Packet numbers are places of the transfer modulo Numbers.    *)

LEMMA NumbersType == Numbers \in Nat /\ Numbers > 0
  BY KermitAssumption

LEMMA DivMod ==
  ASSUME NEW a \in Int
  PROVE  /\ a % Numbers \in 0..Numbers - 1
         /\ a \div Numbers \in Int
         /\ a = Numbers * (a \div Numbers) + (a % Numbers)
  BY NumbersType

LEMMA SmallMultiple ==
  ASSUME NEW q \in Int, -Numbers < Numbers * q, Numbers * q < Numbers
  PROVE  q = 0
  BY NumbersType

LEMMA MultipleMinus ==
  ASSUME NEW p \in Int, NEW q \in Int
  PROVE  Numbers * p - Numbers * q = Numbers * (p - q)
  BY NumbersType

LEMMA DivModUnique ==
  ASSUME NEW p \in Int, NEW q \in Int, NEW x \in 0..Numbers - 1, NEW y \in 0..Numbers - 1,
         Numbers * p + x = Numbers * q + y
  PROVE  p = q /\ x = y
<1>1. Numbers * (p - q) = y - x
  BY MultipleMinus, NumbersType
<1>2. p - q = 0
  BY <1>1, SmallMultiple, NumbersType
<1> QED
  BY <1>1, <1>2, NumbersType

\* Two places less than Numbers apart have different numbers.
LEMMA SameNumber ==
  ASSUME NEW a \in Int, NEW b \in Int, a % Numbers = b % Numbers, a - b < Numbers, b - a < Numbers
  PROVE  a = b
<1> DEFINE p == a \div Numbers
           q == b \div Numbers
           x == a % Numbers
<1>1. p \in Int /\ q \in Int /\ x \in 0..Numbers - 1 /\ a = Numbers * p + x
  BY DivMod
<1>2. b = Numbers * q + x
  BY DivMod
<1> HIDE DEF p, q, x
<1>3. a - b = Numbers * (p - q)
  BY <1>1, <1>2, MultipleMinus, NumbersType
<1>4. p - q = 0
  BY <1>1, <1>3, SmallMultiple, NumbersType
<1> QED
  BY <1>1, <1>2, <1>4, NumbersType

LEMMA NumberPlus ==
  ASSUME NEW a \in Int, NEW k \in Int
  PROVE  ((a % Numbers) + k) % Numbers = (a + k) % Numbers
<1> DEFINE p == a \div Numbers
           x == a % Numbers
           q == (x + k) \div Numbers
           y == (x + k) % Numbers
           u == (a + k) \div Numbers
           v == (a + k) % Numbers
<1>1. p \in Int /\ x \in 0..Numbers - 1 /\ a = Numbers * p + x
  BY DivMod
<1>2. x + k \in Int
  BY <1>1
<1>3. q \in Int /\ y \in 0..Numbers - 1 /\ x + k = Numbers * q + y
  BY <1>2, DivMod
<1>4. a + k \in Int
  OBVIOUS
<1>5. u \in Int /\ v \in 0..Numbers - 1 /\ a + k = Numbers * u + v
  BY <1>4, DivMod
<1> HIDE DEF p, x, q, y, u, v
<1>6. Numbers * p + Numbers * q = Numbers * (p + q)
  BY <1>1, <1>3, NumbersType
<1>7. Numbers * p \in Int /\ Numbers * q \in Int /\ Numbers * (p + q) \in Int /\ Numbers * u \in Int
  BY <1>1, <1>3, <1>5, NumbersType
<1>8. a + k = Numbers * p + (Numbers * q + y)
  BY <1>1, <1>3, <1>7
<1>9. Numbers * (p + q) + y = Numbers * u + v
  BY <1>6, <1>7, <1>8, <1>5, <1>3, <1>1
<1>10. p + q \in Int
  BY <1>1, <1>3
<1>11. y = v
  BY <1>9, DivModUnique, <1>10, <1>3, <1>5
<1> QED
  BY <1>11 DEF y, v, x

\* The distance on the circle of numbers is that of the places, when it is not negative.
LEMMA DistPlaces ==
  ASSUME NEW a \in Int, NEW b \in Int, a <= b, b - a < Numbers
  PROVE  Dist(a % Numbers, b % Numbers) = b - a
<1> DEFINE p == a \div Numbers
           x == a % Numbers
           q == b \div Numbers
           y == b % Numbers
           u == (y - x + Numbers) \div Numbers
           v == (y - x + Numbers) % Numbers
<1>1. p \in Int /\ x \in 0..Numbers - 1 /\ a = Numbers * p + x
  BY DivMod
<1>2. q \in Int /\ y \in 0..Numbers - 1 /\ b = Numbers * q + y
  BY DivMod
<1>3. y - x + Numbers \in Int
  BY <1>1, <1>2, NumbersType
<1>4. u \in Int /\ v \in 0..Numbers - 1 /\ y - x + Numbers = Numbers * u + v
  BY <1>3, DivMod
<1> HIDE DEF p, x, q, y, u, v
<1>5. Numbers * q - Numbers * p = Numbers * (q - p) /\ q - p \in Int
  BY <1>1, <1>2, NumbersType
<1>6. b - a = Numbers * (q - p) + (y - x)
  BY <1>5, <1>1, <1>2, NumbersType
<1>7. b - a = Numbers * (q - p) + (Numbers * u + v - Numbers)
  BY <1>6, <1>4, <1>1, <1>2, NumbersType
<1>8. Numbers * (q - p) + Numbers * u - Numbers = Numbers * (q - p + u - 1)
  BY <1>5, <1>4, NumbersType
<1>9. Numbers * (q - p + u - 1) + v = Numbers * 0 + (b - a)
  BY <1>7, <1>8, <1>4, <1>5, NumbersType
<1>10. q - p + u - 1 \in Int /\ b - a \in 0..Numbers - 1
  BY <1>5, <1>4, NumbersType
<1>11. v = b - a
  BY <1>9, <1>10, DivModUnique, <1>4
<1> QED
  BY <1>11 DEF v, x, y, Dist

\* ... and what is left of the circle when it is.
LEMMA DistBack ==
  ASSUME NEW a \in Int, NEW b \in Int, b < a, a - b < Numbers
  PROVE  Dist(a % Numbers, b % Numbers) = Numbers - (a - b)
<1>1. (b + Numbers) % Numbers = b % Numbers
  <2>1. Numbers * (b \div Numbers) + Numbers = Numbers * ((b \div Numbers) + 1)
    BY DivMod, NumbersType
  <2>2. b + Numbers \in Int
    BY NumbersType
  <2>3. b + Numbers = Numbers * ((b + Numbers) \div Numbers) + ((b + Numbers) % Numbers)
        /\ (b + Numbers) \div Numbers \in Int /\ (b + Numbers) % Numbers \in 0..Numbers - 1
    BY <2>2, DivMod
  <2>4. Numbers * ((b \div Numbers) + 1) + (b % Numbers)
          = Numbers * ((b + Numbers) \div Numbers) + ((b + Numbers) % Numbers)
    BY <2>1, <2>3, DivMod, NumbersType
  <2>5. (b \div Numbers) + 1 \in Int /\ b % Numbers \in 0..Numbers - 1
    BY DivMod
  <2> QED
    BY <2>3, <2>4, <2>5, DivModUnique
<1>2. b + Numbers \in Int /\ a <= b + Numbers /\ (b + Numbers) - a < Numbers
  BY NumbersType
<1>3. Dist(a % Numbers, (b + Numbers) % Numbers) = (b + Numbers) - a
  BY <1>2, DistPlaces
<1> QED
  BY <1>1, <1>3, NumbersType

-----------------------------------------------------------------------------
(* The places of a transfer.                                                 *)

LEMMA PlanFacts ==
  ASSUME NEW g \in Plans
  PROVE  /\ g.att \in {0, 1} /\ g.att \in Nat /\ g.skip \in Nat /\ g.chunks \in Nat
         /\ g.files \in Nat /\ g.files > 0 /\ g.skip <= g.chunks /\ (g.att = 0 => g.skip = 0)
         /\ \A f \in Nat : Skip(g, f) \in 0..g.chunks
  BY DEF Plans, Skip

LEMMA ProductStep ==
  ASSUME NEW a \in Nat, NEW c \in Nat
  PROVE  a * c \in Nat /\ (a + 1) * c = a * c + c
  OBVIOUS

LEMMA ProductMonotone ==
  ASSUME NEW a \in Nat, NEW b \in Nat, NEW c \in Nat, a <= b
  PROVE  a * c \in Nat /\ b * c \in Nat /\ a * c <= b * c
<1>1. PICK d \in Nat : b = a + d
  <2>1. b - a \in Nat /\ b = a + (b - a)
    OBVIOUS
  <2> QED
    BY <2>1
<1>2. b * c = a * c + d * c /\ d * c \in Nat /\ a * c \in Nat
  BY <1>1
<1> QED
  BY <1>2

\* The files follow one another.
LEMMA FirstFacts ==
  ASSUME NEW g \in Plans, NEW f \in Nat \ {0}
  PROVE  /\ First(g, f) \in Nat /\ First(g, f) >= 1
         /\ First(g, f + 1) = First(g, f) + 2 + g.att + g.chunks - Skip(g, f)
         /\ EndAt(g, f) = First(g, f) + g.att + g.chunks + 1 - Skip(g, f)
<1> DEFINE c == 2 + g.att + g.chunks
<1>1. c \in Nat /\ c >= g.skip /\ g.skip \in Nat
  BY PlanFacts
<1>2. f - 1 \in Nat /\ (f - 1) * c \in Nat /\ ((f - 1) + 1) * c = (f - 1) * c + c
  BY <1>1, ProductStep
<1>3. First(g, f + 1) = 1 + f * c - g.skip
  BY DEF First
<1>4. First(g, f) = IF f = 1 THEN 1 ELSE 1 + (f - 1) * c - g.skip
  BY DEF First
<1>5. f * c = (f - 1) * c + c
  BY <1>2
<1>6. f = 1 => (f - 1) * c = 0
  BY <1>1
<1>7. f # 1 => (f - 1) * c >= c
  <2>1. f # 1 => 1 * c <= (f - 1) * c
    BY <1>1, <1>2, ProductMonotone
  <2>2. 1 * c = c
    BY <1>1
  <2> QED
    BY <2>1, <2>2
<1> HIDE DEF c
<1>8. First(g, f) \in Nat /\ First(g, f) >= 1
  BY <1>1, <1>2, <1>4, <1>7
<1>9. First(g, f + 1) = First(g, f) + c - Skip(g, f)
  BY <1>1, <1>2, <1>3, <1>4, <1>5, <1>6 DEF Skip
<1> QED
  BY <1>8, <1>9, PlanFacts DEF c, EndAt, DataAt

LEMMA FirstMonotone ==
  ASSUME NEW g \in Plans, NEW f \in Nat \ {0}, NEW n \in Nat \ {0}, f < n
  PROVE  First(g, f + 1) <= First(g, n)
<1> DEFINE c == 2 + g.att + g.chunks
<1>1. c \in Nat /\ g.skip \in Nat
  BY PlanFacts
<1>2. f * c <= (n - 1) * c /\ f * c \in Nat /\ (n - 1) * c \in Nat
  BY <1>1, ProductMonotone
<1>3. First(g, f + 1) = 1 + f * c - g.skip /\ First(g, n) = 1 + (n - 1) * c - g.skip
  BY DEF First
<1> HIDE DEF c
<1> QED
  BY <1>1, <1>2, <1>3

LEMMA PlaceBounds ==
  ASSUME NEW g \in Plans, NEW k, NEW f, NEW pos, Sendable(g, k, f, pos)
  PROVE  /\ Place(g, k, f, pos) \in Nat
         /\ k = "S" => Place(g, k, f, pos) = 0
         /\ k = "B" => Place(g, k, f, pos) = BreakAt(g)
         /\ k # "B" => Place(g, k, f, pos) < BreakAt(g)
         /\ k \notin {"S", "B"} =>
              First(g, f) <= Place(g, k, f, pos) /\ Place(g, k, f, pos) < First(g, f + 1)
         /\ BreakAt(g) \in Nat /\ BreakAt(g) >= 1
<1> DEFINE e == Place(g, k, f, pos)
<1>1. /\ g.files \in Nat /\ g.files > 0 /\ g.chunks \in Nat /\ g.att \in {0, 1}
      /\ g.files + 1 \in Nat \ {0}
  BY PlanFacts
<1>2. BreakAt(g) \in Nat /\ BreakAt(g) >= 1
  BY <1>1, FirstFacts DEF BreakAt
<1>3. CASE k = "S"
  BY <1>2, <1>3 DEF Place
<1>4. CASE k = "B"
  BY <1>2, <1>4 DEF Place
<1>5. CASE k \in {"F", "A", "D", "Z"}
  <2>1. f \in Nat \ {0} /\ f < g.files + 1
    BY <1>1, <1>5 DEF Sendable
  <2>2. /\ First(g, f) \in Nat /\ First(g, f) >= 1
        /\ First(g, f + 1) = First(g, f) + 2 + g.att + g.chunks - Skip(g, f)
        /\ EndAt(g, f) = First(g, f) + g.att + g.chunks + 1 - Skip(g, f)
    BY <2>1, FirstFacts
  <2>3. First(g, f + 1) <= BreakAt(g)
    BY <2>1, <1>1, FirstMonotone DEF BreakAt
  <2>4. Skip(g, f) \in 0..g.chunks
    BY <2>1, PlanFacts
  <2>5. First(g, f) <= e /\ e < First(g, f + 1) /\ e \in Nat
    <3>1. CASE k = "F"
      BY <3>1, <2>2, <2>4, <1>1 DEF Place
    <3>2. CASE k = "A"
      BY <3>2, <2>2, <2>4, <1>1 DEF Place, Sendable
    <3>3. CASE k = "D"
      <4>1. e = First(g, f) + g.att + pos - Skip(g, f) /\ pos \in Skip(g, f) + 1 .. g.chunks
        BY <3>3 DEF Place, DataAt, Sendable
      <4> QED
        BY <4>1, <2>2, <2>4, <1>1
    <3>4. CASE k = "Z"
      BY <3>4, <2>2, <2>4, <1>1 DEF Place
    <3> QED
      BY <1>5, <3>1, <3>2, <3>3, <3>4
  <2>6. First(g, f + 1) \in Int
    BY <2>1, FirstFacts
  <2>7. e < BreakAt(g)
    BY <1>2, <2>3, <2>5, <2>6
  <2> QED
    BY <1>2, <1>5, <2>5, <2>7
<1> QED
  BY <1>3, <1>4, <1>5 DEF Sendable, StopAndWait

\* A packet is told by its place.
LEMMA PlaceTellsFile ==
  ASSUME NEW g \in Plans, NEW k, NEW f, NEW pos, Sendable(g, k, f, pos),
         NEW n \in Nat \ {0}, n <= g.files,
         First(g, n) <= Place(g, k, f, pos), Place(g, k, f, pos) < First(g, n + 1)
  PROVE  k \notin {"S", "B"} /\ f = n
<1>1. g.files \in Nat /\ First(g, n) \in Nat /\ First(g, n) >= 1 /\ Place(g, k, f, pos) \in Nat
  BY PlanFacts, FirstFacts, PlaceBounds
<1>2. k # "S"
  BY <1>1, PlaceBounds
<1>3. k # "B"
  <2>1. g.files + 1 \in Nat \ {0} /\ n < g.files + 1
    BY <1>1
  <2>2. First(g, n + 1) <= BreakAt(g) /\ First(g, n + 1) \in Int /\ BreakAt(g) \in Int
    BY <2>1, FirstMonotone, FirstFacts DEF BreakAt
  <2> QED
    BY <2>2, PlaceBounds, <1>1
<1>4. f \in Nat \ {0} /\ f + 1 \in Nat \ {0} /\ n + 1 \in Nat \ {0}
  BY <1>2, <1>1 DEF Sendable
<1>5. First(g, f) \in Nat /\ First(g, f + 1) \in Nat /\ First(g, n + 1) \in Nat
  BY <1>4, FirstFacts
<1>6. First(g, f) <= Place(g, k, f, pos) /\ Place(g, k, f, pos) < First(g, f + 1)
  BY <1>2, <1>3, PlaceBounds
<1>7. ~(f < n)
  BY <1>1, <1>4, <1>5, <1>6, FirstMonotone
<1>8. ~(n < f)
  BY <1>1, <1>4, <1>5, <1>6, FirstMonotone
<1> QED
  BY <1>2, <1>3, <1>4, <1>7, <1>8

\* A packet is told by its place.
LEMMA PlaceInjective ==
  ASSUME NEW g \in Plans, NEW k, NEW f, NEW pos, Sendable(g, k, f, pos),
         NEW k2, NEW f2, NEW pos2, Sendable(g, k2, f2, pos2),
         Place(g, k, f, pos) = Place(g, k2, f2, pos2)
  PROVE  /\ k = k2
         /\ k \notin {"S", "B"} => f = f2
         /\ k = "D" => pos = pos2
<1>1. CASE k2 = "S"
  BY <1>1, PlaceBounds, FirstFacts DEF Sendable, StopAndWait
<1>2. CASE k2 = "B"
  <2>1. /\ Place(g, k2, f2, pos2) = BreakAt(g) /\ BreakAt(g) \in Nat
        /\ (k # "B" => Place(g, k, f, pos) < BreakAt(g))
    BY <1>2, PlaceBounds
  <2> QED
    BY <1>2, <2>1
<1>3. CASE k2 \in {"F", "A", "D", "Z"}
  <2>1. f2 \in Nat \ {0} /\ f2 <= g.files /\ f2 \in Nat
    BY <1>3, PlanFacts DEF Sendable
  <2>2. First(g, f2) <= Place(g, k2, f2, pos2) /\ Place(g, k2, f2, pos2) < First(g, f2 + 1)
    BY <1>3, PlaceBounds
  <2>3. k \notin {"S", "B"} /\ f = f2
    BY <2>1, <2>2, PlaceTellsFile
  <2>4. /\ First(g, f) \in Nat /\ Skip(g, f) \in 0..g.chunks /\ g.att \in {0, 1} /\ g.chunks \in Nat
        /\ EndAt(g, f) = First(g, f) + g.att + g.chunks + 1 - Skip(g, f)
    BY <2>1, <2>3, FirstFacts, PlanFacts
  <2>5. /\ k \in {"F", "A", "D", "Z"}
        /\ k = "A" => g.att = 1
        /\ k2 = "A" => g.att = 1
        /\ k = "D" => pos \in Skip(g, f) + 1 .. g.chunks
        /\ k2 = "D" => pos2 \in Skip(g, f) + 1 .. g.chunks
    BY <2>3 DEF Sendable, StopAndWait
  <2>6. /\ k = "F" => Place(g, k, f, pos) = First(g, f)
        /\ k = "A" => Place(g, k, f, pos) = First(g, f) + 1
        /\ k = "D" => Place(g, k, f, pos) = First(g, f) + g.att + pos - Skip(g, f)
        /\ k = "Z" => Place(g, k, f, pos) = EndAt(g, f)
    BY DEF Place, DataAt
  <2>7. /\ k2 = "F" => Place(g, k, f, pos) = First(g, f)
        /\ k2 = "A" => Place(g, k, f, pos) = First(g, f) + 1
        /\ k2 = "D" => Place(g, k, f, pos) = First(g, f) + g.att + pos2 - Skip(g, f)
        /\ k2 = "Z" => Place(g, k, f, pos) = EndAt(g, f)
    BY <2>3 DEF Place, DataAt
  <2>8. CASE k = "F"
    BY <1>3, <2>3, <2>4, <2>5, <2>6, <2>7, <2>8
  <2>9. CASE k = "A"
    BY <1>3, <2>3, <2>4, <2>5, <2>6, <2>7, <2>9
  <2>10. CASE k = "D"
    BY <1>3, <2>3, <2>4, <2>5, <2>6, <2>7, <2>10
  <2>11. CASE k = "Z"
    BY <1>3, <2>3, <2>4, <2>5, <2>6, <2>7, <2>11
  <2> QED
    BY <2>5, <2>8, <2>9, <2>10, <2>11
<1> QED
  BY <1>1, <1>2, <1>3 DEF Sendable, StopAndWait

-----------------------------------------------------------------------------
(* What the parts of the invariant say about places.                        *)

PlanFor(g, x) == g \in Plans /\ g.chunks = x.chunks /\ g.files = x.files

LEMMA CapsFacts ==
  ASSUME NEW c \in Caps
  PROVE  /\ c.window \in Nat /\ c.window >= 1 /\ c.chk \in 1..3
         /\ c.attrs \in BOOLEAN /\ c.stream \in BOOLEAN /\ c.resend \in BOOLEAN
  BY DEF Caps

LEMMA TransferFacts ==
  ASSUME NEW x \in Transfers
  PROVE  /\ x.ours \in Caps /\ x.theirs \in Caps /\ x.files \in Nat /\ x.files > 0
         /\ x.chunks \in Nat /\ x.partial \in Nat /\ x.poke \in BOOLEAN
         /\ 2 * x.ours.window < Numbers /\ Classic \in Caps /\ Numbers > 2
<1>1. /\ x.ours \in Caps /\ x.theirs \in Caps /\ x.files \in Nat /\ x.files > 0
      /\ x.chunks \in Nat /\ x.partial \in Nat /\ x.poke \in BOOLEAN
      /\ 2 * x.ours.window < Numbers
  BY KermitAssumption
<1>2. x.ours.window \in Nat /\ x.ours.window >= 1
  BY <1>1, CapsFacts
<1>3. Numbers > 2
  BY <1>1, <1>2, NumbersType
<1> QED
  BY <1>1, <1>3 DEF Classic, Caps

LEMMA PlanOfFits ==
  ASSUME NEW x \in Transfers, NEW a \in BOOLEAN, NEW b \in BOOLEAN
  PROVE  PlanFor(PlanOf(x, a, b), x)
  BY TransferFacts DEF PlanFor, PlanOf, Plans

\* The places of a chunk.
LEMMA DataFacts ==
  ASSUME NEW g \in Plans, NEW f \in Nat \ {0}, NEW pos \in Int, pos > Skip(g, f)
  PROVE  /\ DataAt(g, f, pos) \in Nat
         /\ DataAt(g, f, pos) = First(g, f) + g.att + pos - Skip(g, f)
         /\ DataAt(g, f, pos) > First(g, f) + g.att
         /\ \A n \in Int : DataAt(g, f, pos + n) = DataAt(g, f, pos) + n
<1>1. First(g, f) \in Nat /\ g.att \in Nat /\ Skip(g, f) \in Nat
  BY FirstFacts, PlanFacts
<1> QED
  BY <1>1 DEF DataAt

\* What the sender waits for is a packet of the transfer.
LEMMA WaitsFacts ==
  ASSUME NEW g, NEW x, PlanFor(g, x), NEW u \in Senders(x), SenderShape(g, u),
         u.pc \in StopAndWait
  PROVE  /\ Sendable(g, u.pc, u.f, IF u.pc = "A" THEN g.chunks ELSE u.off + 1)
         /\ Waits(g, u) = Place(g, u.pc, u.f, IF u.pc = "A" THEN g.chunks ELSE u.off + 1)
         /\ Waits(g, u) \in Nat
<1>1. u.f \in 1..g.files /\ u.off \in Int
  BY DEF Senders, PlanFor
<1>2. u.pc = "D" => u.off + 1 \in Skip(g, u.f) + 1 .. g.chunks
  <2>1. g \in Plans /\ u.f \in Nat
    BY <1>1 DEF PlanFor
  <2>2. Skip(g, u.f) \in Int /\ g.chunks \in Int
    BY <2>1, PlanFacts
  <2>3. u.pc = "D" => u.off \in Skip(g, u.f) .. g.chunks - 1
    BY DEF SenderShape
  <2> QED
    BY <1>1, <2>2, <2>3
<1>3. Sendable(g, u.pc, u.f, IF u.pc = "A" THEN g.chunks ELSE u.off + 1)
  BY <1>1, <1>2 DEF SenderShape, Sendable
<1>4. Waits(g, u) = Place(g, u.pc, u.f, IF u.pc = "A" THEN g.chunks ELSE u.off + 1)
  BY DEF Waits, Place
<1> QED
  BY <1>3, <1>4, PlaceBounds DEF PlanFor

\* N is SendNext, U is Unacked: all of U is less than a window behind N.
Window(N, U, w) ==
  /\ N \in Nat
  /\ \A m \in U : m \in Nat /\ m < N /\ N <= m + w

LEMMA SenderWindowHolds ==
  ASSUME NEW g, NEW x, PlanFor(g, x), NEW u \in Senders(x), SenderShape(g, u), Alive(u.pc),
         NEW w \in Nat, u.sess.window <= w
  PROVE  /\ Window(SendNext(g, u), Unacked(g, u), w)
         /\ u.pc # "W" => \A m, n \in Unacked(g, u) : m = n
<1>1. u.pc \in StopAndWait \cup {"poke", "W"} /\ u.f \in Nat \ {0} /\ g \in Plans
  BY DEF Senders, Alive, PlanFor
<1>2. u.sess.window \in Nat /\ u.sess.window >= 1
  BY CapsFacts DEF Senders
<1>3. CASE u.pc = "poke"
  BY <1>3 DEF SendNext, Unacked, Window
<1>4. CASE u.pc \in StopAndWait
  <2>1. Waits(g, u) \in Nat
    BY <1>4, WaitsFacts
  <2>2. SendNext(g, u) = Waits(g, u) + 1 /\ Unacked(g, u) = {Waits(g, u)}
    BY <1>4 DEF SendNext, Unacked, StopAndWait
  <2> HIDE DEF Waits
  <2> QED
    BY <1>2, <2>1, <2>2 DEF Window
<1>5. CASE u.pc = "W"
  <2>1. u.off \in Skip(g, u.f) .. g.chunks /\ Skip(g, u.f) \in Nat
    BY <1>1, <1>5, PlanFacts DEF SenderShape
  <2>2. u.off + 1 \in Int /\ u.off + 1 > Skip(g, u.f) /\ u.off \in Int
    BY <2>1
  <2>3. SendNext(g, u) = DataAt(g, u.f, u.off + 1) /\ SendNext(g, u) \in Nat
    BY <1>1, <1>5, <2>2, DataFacts DEF SendNext
  <2>4. ASSUME NEW i \in DOMAIN u.out
        PROVE  /\ DataAt(g, u.f, u.out[i].pos) \in Nat
               /\ DataAt(g, u.f, u.out[i].pos) < SendNext(g, u)
               /\ SendNext(g, u) <= DataAt(g, u.f, u.out[i].pos) + w
    <3> DEFINE pos == u.out[i].pos
    <3>1. pos \in Skip(g, u.f) + 1 .. u.off /\ u.off + 1 <= pos + u.sess.window
      BY DEF SenderShape, OutShape
    <3>2. pos \in Int /\ pos > Skip(g, u.f) /\ pos <= u.off
      BY <2>1, <2>2, <3>1
    <3> HIDE DEF pos
    <3>3. /\ DataAt(g, u.f, pos) \in Nat
          /\ \A n \in Int : DataAt(g, u.f, pos + n) = DataAt(g, u.f, pos) + n
      BY <1>1, <3>2, DataFacts
    <3>4. u.off + 1 - pos \in Int /\ pos + (u.off + 1 - pos) = u.off + 1
      BY <2>2, <3>2
    <3>5. SendNext(g, u) = DataAt(g, u.f, pos) + (u.off + 1 - pos)
      BY <3>3, <3>4, <2>3
    <3>6. u.off + 1 - pos > 0 /\ u.off + 1 - pos <= w
      BY <1>2, <2>2, <3>1, <3>2
    <3>7. /\ DataAt(g, u.f, pos) < SendNext(g, u)
          /\ SendNext(g, u) <= DataAt(g, u.f, pos) + w
      BY <3>3, <3>4, <3>5, <3>6
    <3> QED
      BY <3>3, <3>7 DEF pos
  <2>5. Unacked(g, u) = {DataAt(g, u.f, u.out[i].pos) : i \in DOMAIN u.out}
    BY <1>5 DEF Unacked
  <2> QED
    BY <1>5, <2>3, <2>4, <2>5 DEF Window
<1> QED
  BY <1>1, <1>3, <1>4, <1>5

\* The place an answer is about is the one it confirms.
LEMMA ConfirmedPlace ==
  ASSUME NEW w \in Nat, w >= 1, 2 * w < Numbers, NEW N, NEW U, Window(N, U, w),
         NEW m \in Nat, NEW e \in Nat, NEW c, c \in U \/ c = N, NEW y,
         y.seq = m % Numbers, e <= m + w, e \in U \/ e = N,
         y.k = "Y" => m < N, y.k = "N" => m = e, Confirms(y, c)
  PROVE  /\ y.k \in {"Y", "N"}
         /\ y.k = "Y" => m = c
         /\ y.k = "N" => m = c + 1
<1>1. N \in Nat /\ c \in Nat /\ c <= N /\ N <= c + w /\ e <= N /\ N <= e + w
  BY DEF Window
<1>2. CASE y.k = "Y" /\ y.seq = c % Numbers
  <2>1. m < N
    BY <1>2
  <2>2. m - c < Numbers /\ c - m < Numbers
    BY <1>1, <2>1, NumbersType
  <2>3. m = c
    BY <1>1, <1>2, <2>2, SameNumber
  <2> QED
    BY <1>2, <2>3
<1>3. CASE y.k = "N" /\ y.seq = (c + 1) % Numbers
  <2>1. m = e
    BY <1>3
  <2>2. c + 1 \in Int /\ m - (c + 1) < Numbers /\ (c + 1) - m < Numbers
    BY <1>1, <2>1, NumbersType
  <2>3. m % Numbers = (c + 1) % Numbers
    BY <1>3
  <2>4. m = c + 1
    BY <2>2, <2>3, SameNumber
  <2> QED
    BY <1>3, <2>4
<1> QED
  BY <1>2, <1>3 DEF Confirms

-----------------------------------------------------------------------------
(* The queues.                                                              *)

LEMMA TailFacts ==
  ASSUME NEW S, NEW q \in Seq(S), q # <<>>
  PROVE  /\ Tail(q) \in Seq(S) /\ Head(q) \in S /\ Head(q) = q[1] /\ 1 \in DOMAIN q
         /\ Len(Tail(q)) = Len(q) - 1
         /\ \A j \in DOMAIN Tail(q) : Tail(q)[j] = q[j + 1] /\ j + 1 \in DOMAIN q
  OBVIOUS

LEMMA ConcatFacts ==
  ASSUME NEW S, NEW q \in Seq(S), NEW p \in Seq(S)
  PROVE  /\ q \o p \in Seq(S) /\ Len(q \o p) = Len(q) + Len(p)
         /\ \A j \in DOMAIN (q \o p) :
              \/ j \in DOMAIN q /\ (q \o p)[j] = q[j]
              \/ j - Len(q) \in DOMAIN p /\ (q \o p)[j] = p[j - Len(q)] /\ j > Len(q)
  OBVIOUS

LEMMA DomainFacts ==
  ASSUME NEW S, NEW q \in Seq(S)
  PROVE  DOMAIN q = 1..Len(q) /\ Len(q) \in Nat /\ \A j \in DOMAIN q : j \in Nat /\ j >= 1
  OBVIOUS

SameItem(a, b) == a.k = b.k /\ a.seq = b.seq /\ a.f = b.f /\ a.pos = b.pos /\ a.caps = b.caps

\* A queue without its first item, with a cancel before it or with one item damaged.
Shift(q, q2, kinds) ==
  \E d \in {-1, 0, 1} :
    \A j \in DOMAIN q2 : q2[j].k \in kinds => j + d \in DOMAIN q /\ SameItem(q2[j], q[j + d])

LEMMA PacketsShift ==
  ASSUME NEW g, NEW t, NEW h, NEW S, NEW q \in Seq(S), NEW S2, NEW q2 \in Seq(S2),
         Shift(q, q2, StopAndWait), PacketsSound(g, t, h, q)
  PROVE  PacketsSound(g, t, h, q2)
<1>1. PICK d \in {-1, 0, 1} :
        \A j \in DOMAIN q2 : q2[j].k \in StopAndWait => j + d \in DOMAIN q /\ SameItem(q2[j], q[j + d])
  BY DEF Shift
<1> SUFFICES ASSUME NEW j \in DOMAIN q2, Carries(q2[j])
             PROVE  /\ PacketSound(g, t, h, q2[j])
                    /\ \A i \in 1..j - 1 : Carries(q2[i]) => At(g, q2[i]) < At(g, q2[j]) + t.sess.window
  BY DEF PacketsSound
<1>2. j + d \in DOMAIN q /\ SameItem(q2[j], q[j + d])
  BY <1>1 DEF Carries
<1>3. Carries(q[j + d]) /\ At(g, q2[j]) = At(g, q[j + d])
  BY <1>2 DEF SameItem, Carries, At
<1>4. PacketSound(g, t, h, q[j + d])
  BY <1>2, <1>3 DEF PacketsSound
<1>5. PacketSound(g, t, h, q2[j])
  BY <1>2, <1>3, <1>4 DEF PacketSound, GoodPacket, SameItem
<1>6. ASSUME NEW i \in 1..j - 1, Carries(q2[i])
      PROVE  At(g, q2[i]) < At(g, q2[j]) + t.sess.window
  <2>1. i \in DOMAIN q2 /\ j \in Nat /\ i \in Nat
    BY DomainFacts
  <2>2. i + d \in DOMAIN q /\ SameItem(q2[i], q[i + d])
    BY <1>1, <1>6, <2>1 DEF Carries
  <2>3. Carries(q[i + d]) /\ At(g, q2[i]) = At(g, q[i + d])
    BY <1>6, <2>2 DEF SameItem, Carries, At
  <2>4. i + d \in 1..(j + d) - 1
    BY <2>1, <2>2, DomainFacts
  <2>5. At(g, q[i + d]) < At(g, q[j + d]) + t.sess.window
    BY <1>2, <1>3, <2>3, <2>4 DEF PacketsSound
  <2> QED
    BY <1>3, <2>3, <2>5
<1> QED
  BY <1>5, <1>6

LEMMA SentShift ==
  ASSUME NEW g, NEW u, NEW t, NEW h, NEW S, NEW q \in Seq(S), NEW q2,
         Shift(q, q2, StopAndWait), Sent(g, u, t, h, q)
  PROVE  Sent(g, u, t, h, q2)
<1>1. PICK d \in {-1, 0, 1} :
        \A j \in DOMAIN q2 : q2[j].k \in StopAndWait => j + d \in DOMAIN q /\ SameItem(q2[j], q[j + d])
  BY DEF Shift
<1>2. ASSUME NEW j \in DOMAIN q2, Carries(q2[j])
      PROVE  At(g, q2[j]) < SendNext(g, u)
  <2>1. j + d \in DOMAIN q /\ SameItem(q2[j], q[j + d])
    BY <1>1, <1>2 DEF Carries
  <2>2. Carries(q[j + d]) /\ At(g, q2[j]) = At(g, q[j + d])
    BY <1>2, <2>1 DEF SameItem, Carries, At
  <2> QED
    BY <2>1, <2>2 DEF Sent
<1> QED
  BY <1>2 DEF Sent

LEMMA RepliesShift ==
  ASSUME NEW g, NEW u, NEW t, NEW h, NEW S, NEW q \in Seq(S), NEW S2, NEW q2 \in Seq(S2),
         Shift(q, q2, {"Y", "N"}), RepliesSound(g, u, t, h, q)
  PROVE  RepliesSound(g, u, t, h, q2)
<1>1. PICK d \in {-1, 0, 1} :
        \A j \in DOMAIN q2 : q2[j].k \in {"Y", "N"} => j + d \in DOMAIN q /\ SameItem(q2[j], q[j + d])
  BY DEF Shift
<1> SUFFICES ASSUME NEW j \in DOMAIN q2, q2[j].k \in {"Y", "N"}
             PROVE  \E m \in Nat, e \in Nat :
                      /\ ReplySound(g, u, t, h, q2[j], m, e)
                      /\ \A i \in 1..j - 1 : ~Confirms(q2[i], e)
  BY DEF RepliesSound
<1>2. j + d \in DOMAIN q /\ SameItem(q2[j], q[j + d])
  BY <1>1
<1>3. PICK m \in Nat, e \in Nat :
        /\ ReplySound(g, u, t, h, q[j + d], m, e)
        /\ \A i \in 1..(j + d) - 1 : ~Confirms(q[i], e)
  BY <1>2 DEF RepliesSound, SameItem
<1>4. ReplySound(g, u, t, h, q2[j], m, e)
  BY <1>2, <1>3 DEF ReplySound, ReplyTells, SameItem
<1>5. ASSUME NEW i \in 1..j - 1, Confirms(q2[i], e)
      PROVE  FALSE
  <2>1. i \in DOMAIN q2 /\ q2[i].k \in {"Y", "N"} /\ j \in Nat /\ i \in Nat
    BY <1>5, DomainFacts DEF Confirms
  <2>2. i + d \in DOMAIN q /\ SameItem(q2[i], q[i + d])
    BY <1>1, <2>1
  <2>3. i + d \in 1..(j + d) - 1
    BY <2>1, <2>2, DomainFacts
  <2>4. Confirms(q[i + d], e)
    BY <1>5, <2>2 DEF Confirms, SameItem
  <2> QED
    BY <1>3, <2>3, <2>4
<1> QED
  BY <1>4, <1>5

\* A queue whose first item has been read.
LEMMA TailShift ==
  ASSUME NEW S, NEW q \in Seq(S), q # <<>>, NEW kinds
  PROVE  Shift(q, Tail(q), kinds)
<1>1. \A j \in DOMAIN Tail(q) :
        Tail(q)[j].k \in kinds => j + 1 \in DOMAIN q /\ SameItem(Tail(q)[j], q[j + 1])
  BY TailFacts DEF SameItem
<1> QED
  BY <1>1 DEF Shift

LEMMA SameShift ==
  ASSUME NEW S, NEW q \in Seq(S), NEW kinds
  PROVE  Shift(q, q, kinds)
<1>1. \A j \in DOMAIN q : q[j].k \in kinds => j + 0 \in DOMAIN q /\ SameItem(q[j], q[j + 0])
  BY DomainFacts DEF SameItem
<1> QED
  BY <1>1 DEF Shift

LEMMA StrikeShift ==
  ASSUME NEW S, NEW q \in Seq(S), NEW k, NEW kinds, k \notin kinds
  PROVE  Shift(q, <<[k |-> k, ok |-> TRUE]>> \o q, kinds)
<1> DEFINE c == [k |-> k, ok |-> TRUE]
           q2 == <<c>> \o q
<1>1. c.k = k
  OBVIOUS
<1> HIDE DEF c
<1>2. <<c>> \in Seq(S \cup {c}) /\ q \in Seq(S \cup {c}) /\ Len(<<c>>) = 1 /\ <<c>>[1] = c
  OBVIOUS
<1>3. Len(q2) = Len(q) + 1 /\ q2[1] = c /\ \A j \in 2..Len(q2) : q2[j] = q[j - 1]
  OBVIOUS
<1>4. DOMAIN q2 = 1..Len(q) + 1 /\ Len(q) \in Nat /\ DOMAIN q = 1..Len(q)
  BY <1>3
<1> HIDE DEF q2
<1>5. ASSUME NEW j \in DOMAIN q2, q2[j].k \in kinds
      PROVE  j + (-1) \in DOMAIN q /\ SameItem(q2[j], q[j + (-1)])
  <2>1. j # 1
    BY <1>1, <1>3, <1>5
  <2>2. j \in 2..Len(q2) /\ j - 1 \in DOMAIN q /\ j + (-1) = j - 1
    BY <2>1, <1>3, <1>4
  <2>3. q2[j] = q[j - 1]
    BY <2>2, <1>3
  <2> QED
    BY <2>2, <2>3 DEF SameItem
<1>6. Shift(q, q2, kinds)
  BY <1>5 DEF Shift
<1> QED
  BY <1>6 DEF q2, c

LEMMA PacketFields ==
  ASSUME NEW kinds, NEW p \in PacketsOf(kinds)
  PROVE  /\ p.k \in kinds /\ p.seq \in Int /\ p.chk \in 1..3 /\ p.f \in Nat /\ p.pos \in Nat
         /\ p.caps \in Caps /\ p.ok \in BOOLEAN
  BY DEF PacketsOf

LEMMA DamageShift ==
  ASSUME NEW kinds, NEW items, NEW q \in Seq(PacketsOf(kinds) \cup Strikes), q # <<>>,
         {"ESC", "CAN"} \cap items = {}
  PROVE  /\ [q EXCEPT ![1].ok = FALSE] \in Seq(PacketsOf(kinds) \cup Strikes)
         /\ Shift(q, [q EXCEPT ![1].ok = FALSE], items)
<1> DEFINE a == q[1]
           b == [a EXCEPT !.ok = FALSE]
           q2 == [q EXCEPT ![1] = b]
<1>1. a \in PacketsOf(kinds) \cup Strikes /\ 1 \in DOMAIN q
  OBVIOUS
<1>2. a \in PacketsOf(kinds) => b \in PacketsOf(kinds) /\ SameItem(b, a)
  BY DEF PacketsOf, SameItem
<1>3. a \in Strikes => b \in Strikes /\ b.k \in {"ESC", "CAN"}
  BY DEF Strikes
<1>4. q2 = [q EXCEPT ![1].ok = FALSE]
  OBVIOUS
<1>5. b \in PacketsOf(kinds) \cup Strikes /\ (b.k \in items => SameItem(b, a))
  BY <1>1, <1>2, <1>3
<1> HIDE DEF b
<1>6. q2 \in Seq(PacketsOf(kinds) \cup Strikes) /\ DOMAIN q2 = DOMAIN q /\ q2[1] = b
      /\ \A j \in DOMAIN q : j # 1 => q2[j] = q[j]
  BY <1>1, <1>5
<1> HIDE DEF q2
<1>7. ASSUME NEW j \in DOMAIN q2, q2[j].k \in items
      PROVE  j + 0 \in DOMAIN q /\ SameItem(q2[j], q[j + 0])
  <2>1. j \in DOMAIN q /\ j + 0 = j
    BY <1>6, DomainFacts
  <2>2. CASE j = 1
    BY <2>1, <2>2, <1>5, <1>6, <1>7
  <2>3. CASE j # 1
    BY <2>1, <2>3, <1>6 DEF SameItem
  <2> QED
    BY <2>2, <2>3
<1>8. Shift(q, q2, items)
  BY <1>7 DEF Shift
<1> QED
  BY <1>4, <1>6, <1>8

-----------------------------------------------------------------------------
(* A step of the sender, seen from the queues.  ps is what it writes, c the   *)
(* place it has seen confirmed, or None.                                     *)

SenderMove(g, u, v, ps, c) ==
  /\ SendNext(g, u) <= SendNext(g, v)
  /\ \A m \in Unacked(g, u) : m # c => m \in Unacked(g, v)
  /\ \A m \in SendNext(g, u) .. SendNext(g, v) - 1 : m \in Unacked(g, v)
  /\ \A i \in DOMAIN ps :
       /\ GoodPacket(g, ps[i]) /\ At(g, ps[i]) \in Unacked(g, v)
       /\ v.pc = "W" => ps[i].k = "D"

\* The hole has not been received.
LEMMA HoleOpen ==
  ASSUME NEW g, NEW t, NEW h, ReceiverShape(g, t, h), Exp(g, t) \in Nat, h \in Nat
  PROVE  ~Rcvd(g, t, h) /\ Exp(g, t) <= h /\ h <= Exp(g, t) + t.sess.window
  BY DEF ReceiverShape, BufShape, Rcvd, BufAt

LEMMA SentKeeps ==
  ASSUME NEW g, NEW u, NEW v, NEW t, NEW h \in Nat, NEW q, NEW ps, NEW c, Sent(g, u, t, h, q),
         SenderMove(g, u, v, ps, c), SendNext(g, u) \in Nat, SendNext(g, v) \in Nat,
         c \in Unacked(g, u) => Rcvd(g, t, c),
         \A j \in DOMAIN q : Carries(q[j]) => At(g, q[j]) \in Nat,
         \A b \in t.buf : At(g, b) \in Nat
  PROVE  Sent(g, v, t, h, q)
<1> DEFINE N == SendNext(g, u)
           M == SendNext(g, v)
<1>1. N <= M /\ N \in Nat /\ M \in Nat
  BY DEF SenderMove
<1>2. ASSUME NEW m \in 0..M - 1
      PROVE  m \in Unacked(g, v) \/ Rcvd(g, t, m)
  <2>1. CASE m < N
    <3>1. m \in 0..N - 1
      BY <1>1, <2>1
    <3>2. m \in Unacked(g, u) \/ Rcvd(g, t, m)
      BY <3>1 DEF Sent
    <3> QED
      BY <3>2 DEF SenderMove
  <2>2. CASE ~(m < N)
    <3>1. m \in N..M - 1
      BY <1>1, <2>2
    <3> QED
      BY <3>1 DEF SenderMove
  <2> QED
    BY <2>1, <2>2
<1>3. h <= M
  BY <1>1 DEF Sent
<1>4. \A j \in DOMAIN q : Carries(q[j]) => At(g, q[j]) < M
  BY <1>1 DEF Sent
<1>5. \A b \in t.buf : At(g, b) < M
  BY <1>1 DEF Sent
<1> QED
  BY <1>2, <1>3, <1>4, <1>5 DEF Sent

\* What a sender writes, when v is the state it goes to.
LEMMA PacketsAppended ==
  ASSUME NEW g, NEW v, NEW t, NEW h \in Nat, NEW S, NEW q \in Seq(S), NEW ps \in Seq(S),
         NEW w \in Nat, w = t.sess.window, w >= 1,
         PacketsSound(g, t, h, q), Sent(g, v, t, h, q), ~Rcvd(g, t, h),
         Window(SendNext(g, v), Unacked(g, v), w),
         v.pc # "W" => \A m, n \in Unacked(g, v) : m = n,
         \A i \in DOMAIN ps :
           /\ GoodPacket(g, ps[i]) /\ At(g, ps[i]) \in Unacked(g, v)
           /\ v.pc = "W" => ps[i].k = "D",
         \A j \in DOMAIN q : Carries(q[j]) => At(g, q[j]) \in Nat,
         \A b \in t.buf : At(g, b) \in Nat
  PROVE  PacketsSound(g, t, h, q \o ps) /\ Sent(g, v, t, h, q \o ps)
<1> DEFINE N == SendNext(g, v)
<1>1. N \in Nat /\ h <= N
  BY DEF Window, Sent
<1>2. h \in Unacked(g, v) \/ h = N
  <2>1. h < N => h \in 0..N - 1
    BY <1>1
  <2> QED
    BY <1>1, <2>1 DEF Sent
<1>3. ASSUME NEW i \in DOMAIN ps
      PROVE  /\ PacketSound(g, t, h, ps[i]) /\ At(g, ps[i]) \in Nat /\ At(g, ps[i]) < N
             /\ N <= At(g, ps[i]) + w
  <2> DEFINE a == At(g, ps[i])
  <2>1. a \in Nat /\ a < N /\ N <= a + w /\ a \in Unacked(g, v)
    BY DEF Window
  <2>2. a < h + w
    BY <1>1, <1>2, <2>1, SMTT(30) DEF Window
  <2>3. a > h => ps[i].k = "D"
    <3>1. a > h => h \in Unacked(g, v) /\ a # h
      BY <1>1, <1>2, <2>1
    <3> QED
      BY <2>1, <3>1
  <2>4. \A b \in t.buf : At(g, b) < a + w
    <3>1. \A b \in t.buf : At(g, b) < N
      BY DEF Sent
    <3> QED
      BY <2>1, <1>1, <3>1
  <2>5. h <= a + w
    BY <1>1, <2>1
  <2> QED
    BY <2>1, <2>2, <2>3, <2>4, <2>5 DEF PacketSound
<1>4. \A j \in DOMAIN q : Carries(q[j]) => At(g, q[j]) < N
  BY DEF Sent
<1> DEFINE q2 == q \o ps
<1>5. /\ q2 \in Seq(S) /\ DOMAIN q2 = 1..Len(q2) /\ Len(q) \in Nat /\ DOMAIN q = 1..Len(q)
      /\ \A j \in DOMAIN q2 :
           \/ j \in DOMAIN q /\ q2[j] = q[j]
           \/ j - Len(q) \in DOMAIN ps /\ q2[j] = ps[j - Len(q)] /\ j > Len(q)
  BY ConcatFacts, DomainFacts
<1> HIDE DEF q2
<1>6. ASSUME NEW j \in DOMAIN q2, Carries(q2[j])
      PROVE  At(g, q2[j]) \in Nat /\ At(g, q2[j]) < N
  BY <1>3, <1>4, <1>5, <1>6
<1>7. ASSUME NEW j \in DOMAIN q2, Carries(q2[j])
      PROVE  /\ PacketSound(g, t, h, q2[j])
             /\ \A i \in 1..j - 1 : Carries(q2[i]) => At(g, q2[i]) < At(g, q2[j]) + w
  <2>1. CASE j \in DOMAIN q /\ q2[j] = q[j]
    <3>1. PacketSound(g, t, h, q2[j])
      BY <1>7, <2>1 DEF PacketsSound
    <3>2. ASSUME NEW i \in 1..j - 1, Carries(q2[i])
          PROVE  At(g, q2[i]) < At(g, q2[j]) + w
      <4>1. i \in DOMAIN q2 /\ i \in DOMAIN q /\ ~(i > Len(q))
        BY <1>5, <2>1
      <4>2. q2[i] = q[i]
        BY <1>5, <4>1
      <4> QED
        BY <1>7, <2>1, <3>2, <4>1, <4>2 DEF PacketsSound
    <3> QED
      BY <3>1, <3>2
  <2>2. CASE j - Len(q) \in DOMAIN ps /\ q2[j] = ps[j - Len(q)]
    <3>1. PacketSound(g, t, h, q2[j]) /\ At(g, q2[j]) \in Nat /\ N <= At(g, q2[j]) + w
      BY <1>3, <2>2
    <3>2. ASSUME NEW i \in 1..j - 1, Carries(q2[i])
          PROVE  At(g, q2[i]) < At(g, q2[j]) + w
      <4>1. i \in DOMAIN q2
        BY <1>5
      <4>2. At(g, q2[i]) \in Nat /\ At(g, q2[i]) < N
        BY <1>6, <3>2, <4>1
      <4> QED
        BY <1>1, <3>1, <4>2
    <3> QED
      BY <3>1, <3>2
  <2> QED
    BY <1>5, <2>1, <2>2
<1>8. PacketsSound(g, t, h, q2)
  BY <1>7 DEF PacketsSound
<1>9. Sent(g, v, t, h, q2)
  BY <1>6 DEF Sent
<1> QED
  BY <1>8, <1>9 DEF q2

\* The answers stay sound when the sender goes on; the one that confirmed c, if any,
\* has been read.
LEMMA RepliesKept ==
  ASSUME NEW g, NEW u, NEW v, NEW t, NEW h, NEW ps, NEW c, NEW S, NEW q \in Seq(S), NEW q2,
         RepliesSound(g, u, t, h, q), SenderMove(g, u, v, ps, c),
         SendNext(g, u) \in Nat, SendNext(g, v) \in Nat,
         v.pc = "S" => u.pc = "S" \/ SendNext(g, u) = 0,
         \/ c = None /\ q2 = q
         \/ q # <<>> /\ q2 = Tail(q) /\ Confirms(Head(q), c)
  PROVE  RepliesSound(g, v, t, h, q2)
<1> DEFINE N == SendNext(g, u)
           M == SendNext(g, v)
<1>0. N <= M /\ N \in Nat /\ M \in Nat
  BY DEF SenderMove
<1>1. ASSUME NEW y, NEW m \in Nat, NEW e \in Nat, ReplySound(g, u, t, h, y, m, e), e # c
      PROVE  ReplySound(g, v, t, h, y, m, e)
  <2>1. e \in Unacked(g, v) \/ e = M
    <3>1. CASE e \in Unacked(g, u)
      BY <1>1, <3>1 DEF SenderMove
    <3>2. CASE e = N
      <4>1. N # M => e \in N..M - 1
        BY <1>0, <3>2
      <4> QED
        BY <3>2, <4>1 DEF SenderMove
    <3> QED
      BY <1>1, <3>1, <3>2 DEF ReplySound
  <2>2. y.k = "Y" => m < N
    BY <1>1 DEF ReplySound
  <2>3. y.k = "Y" => m < M
    BY <1>0, <2>2
  <2>4. ReplyTells(g, v, t, y, m)
    BY <1>1, <2>2 DEF ReplySound, ReplyTells
  <2> QED
    BY <1>1, <2>1, <2>3, <2>4 DEF ReplySound
<1>2. CASE c = None /\ q2 = q
  <2>1. ASSUME NEW e \in Nat
        PROVE  e # c
    BY <1>2 DEF None
  <2> SUFFICES ASSUME NEW j \in DOMAIN q, q[j].k \in {"Y", "N"}
               PROVE  \E m \in Nat, e \in Nat :
                        ReplySound(g, v, t, h, q[j], m, e) /\ \A i \in 1..j - 1 : ~Confirms(q[i], e)
    BY <1>2 DEF RepliesSound
  <2>2. PICK m \in Nat, e \in Nat :
          ReplySound(g, u, t, h, q[j], m, e) /\ \A i \in 1..j - 1 : ~Confirms(q[i], e)
    BY DEF RepliesSound
  <2> QED
    BY <1>1, <2>1, <2>2
<1>3. CASE q # <<>> /\ q2 = Tail(q) /\ Confirms(Head(q), c)
  <2> SUFFICES ASSUME NEW j \in DOMAIN q2, q2[j].k \in {"Y", "N"}
               PROVE  \E m \in Nat, e \in Nat :
                        ReplySound(g, v, t, h, q2[j], m, e) /\ \A i \in 1..j - 1 : ~Confirms(q2[i], e)
    BY DEF RepliesSound
  <2>1. /\ \A i \in DOMAIN q2 : q2[i] = q[i + 1] /\ i + 1 \in DOMAIN q
        /\ Head(q) = q[1] /\ DOMAIN q2 = 1..Len(q2) /\ Len(q2) \in Nat
    BY <1>3, TailFacts, DomainFacts
  <2>2. PICK m \in Nat, e \in Nat :
          /\ ReplySound(g, u, t, h, q[j + 1], m, e)
          /\ \A i \in 1..(j + 1) - 1 : ~Confirms(q[i], e)
    BY <2>1 DEF RepliesSound
  <2>3. j \in Nat /\ j >= 1 /\ 1 \in 1..(j + 1) - 1
    BY <2>1
  <2>4. e # c
    BY <1>3, <2>1, <2>2, <2>3
  <2>5. ReplySound(g, v, t, h, q2[j], m, e)
    BY <1>1, <2>1, <2>2, <2>4
  <2>6. ASSUME NEW i \in 1..j - 1
        PROVE  ~Confirms(q2[i], e)
    <3>1. i \in DOMAIN q2 /\ i + 1 \in 1..(j + 1) - 1
      BY <2>1, <2>3
    <3> QED
      BY <2>1, <2>2, <3>1
  <2> QED
    BY <2>5, <2>6
<1> QED
  BY <1>2, <1>3

LEMMA ExpFacts ==
  ASSUME NEW g \in Plans, NEW t \in Receivers, FilesShape(g, t)
  PROVE  /\ Exp(g, t) \in Nat /\ Exp(g, t) <= BreakAt(g)
         /\ t.pc # "init" => Exp(g, t) >= 1
         /\ t.pc # "init" /\ Exp(g, t) <= 1 => t.files = <<>>
<1> DEFINE n == Len(t.files)
           e == LastFile(t)
<1>0. g.files \in Nat /\ g.files >= 1 /\ g.files + 1 \in Nat \ {0} /\ g.chunks \in Nat /\ g.att \in {0, 1}
  BY PlanFacts
<1>1. BreakAt(g) \in Nat /\ BreakAt(g) >= 1
  BY <1>0, FirstFacts DEF BreakAt
<1>2. CASE t.pc = "init" \/ t.files = <<>>
  BY <1>1, <1>2 DEF Exp
<1>3. CASE t.pc # "init" /\ t.files # <<>>
  <2>1. t.files \in Seq(FileRecords)
    BY DEF Receivers
  <2>2. n \in Nat \ {0} /\ n \in DOMAIN t.files /\ n <= g.files
    BY <1>3, <2>1 DEF FilesShape
  <2>3. e \in FileRecords /\ e.len \in Nat /\ FileShape(g, n, e, n = Len(t.files))
    <3>1. e = t.files[n]
      BY DEF LastFile
    <3>2. e \in FileRecords
      BY <2>1, <2>2, <3>1
    <3>3. FileShape(g, n, t.files[n], n = Len(t.files))
      BY <2>2 DEF FilesShape
    <3> QED
      BY <3>1, <3>2, <3>3 DEF FileRecords
  <2>4. /\ First(g, n) \in Nat /\ First(g, n) >= 1
        /\ First(g, n + 1) = First(g, n) + 2 + g.att + g.chunks - Skip(g, n)
        /\ Skip(g, n) \in 0..g.chunks
    BY <2>2, FirstFacts, PlanFacts
  <2>5. First(g, n + 1) <= BreakAt(g)
    BY <1>0, <2>2, FirstMonotone DEF BreakAt
  <2>6. Exp(g, t) = IF e.kept THEN First(g, n + 1)
                    ELSE IF g.att = 1 /\ e.decl = None THEN First(g, n) + 1
                    ELSE DataAt(g, n, e.len + 1)
    BY <1>3 DEF Exp
  <2> HIDE DEF n, e
  <2>7. DataAt(g, n, e.len + 1) = First(g, n) + g.att + (e.len + 1) - Skip(g, n)
    BY DEF DataAt
  <2>8. e.len <= g.chunks /\ (~e.kept /\ ~(g.att = 1 /\ e.decl = None) => e.len >= Skip(g, n))
    <3>1. g.att = 0 => Skip(g, n) = 0
      BY PlanFacts DEF Skip
    <3> QED
      BY <2>3, <3>1, <1>0 DEF FileShape
  <2>9. Exp(g, t) \in Int /\ Exp(g, t) > First(g, n) /\ Exp(g, t) <= First(g, n + 1)
    <3>1. CASE e.kept
      BY <3>1, <2>4, <2>6, <1>0
    <3>2. CASE ~e.kept /\ g.att = 1 /\ e.decl = None
      BY <3>2, <2>4, <2>6, <1>0
    <3>3. CASE ~e.kept /\ ~(g.att = 1 /\ e.decl = None)
      <4>1. Exp(g, t) = First(g, n) + g.att + (e.len + 1) - Skip(g, n)
        BY <3>3, <2>6, <2>7
      <4>2. e.len \in Nat /\ e.len >= Skip(g, n) /\ e.len <= g.chunks
        BY <3>3, <2>3, <2>8
      <4> QED
        BY <4>1, <4>2, <2>4, <1>0
    <3> QED
      BY <3>1, <3>2, <3>3
  <2>10. First(g, n + 1) \in Int
    BY <2>4, <1>0
  <2> QED
    BY <2>4, <2>5, <2>9, <2>10, <1>1
<1> QED
  BY <1>2, <1>3

\* The places of packets under way and put aside are natural numbers.
LEMMA PlacesNat ==
  ASSUME NEW g \in Plans, NEW t, NEW h, NEW q, PacketsSound(g, t, h, q), BufShape(g, t, h)
  PROVE  /\ \A j \in DOMAIN q : Carries(q[j]) => At(g, q[j]) \in Nat
         /\ \A b \in t.buf : At(g, b) \in Nat
<1>1. ASSUME NEW p, GoodPacket(g, p)
      PROVE  At(g, p) \in Nat
  BY <1>1, PlaceBounds DEF GoodPacket, At
<1> QED
  BY <1>1 DEF PacketsSound, PacketSound, BufShape

LEMMA CoreFacts ==
  ASSUME NEW g, NEW x, PlanFor(g, x), NEW u, NEW t, NEW qR, NEW qS, NEW h,
         Core(g, x, u, t, qR, qS, h)
  PROVE  /\ g \in Plans /\ u \in Senders(x) /\ t \in Receivers /\ qR \in Seq(ToR) /\ qS \in Seq(ToS)
         /\ h \in Nat /\ Exp(g, t) \in Nat /\ Exp(g, t) <= BreakAt(g) /\ BreakAt(g) \in Nat
         /\ t.sess \in Caps /\ t.sess.window \in Nat /\ t.sess.window >= 1 /\ 2 * t.sess.window < Numbers
         /\ Alive(u.pc) => /\ Window(SendNext(g, u), Unacked(g, u), t.sess.window)
                           /\ SendNext(g, u) \in Nat
         /\ Alive(t.pc) => ~Rcvd(g, t, h) /\ Exp(g, t) <= h /\ h <= Exp(g, t) + t.sess.window
<1>1. /\ g \in Plans /\ u \in Senders(x) /\ t \in Receivers /\ qR \in Seq(ToR) /\ qS \in Seq(ToS)
      /\ h \in Nat
  BY DEF Core, Types, PlanFor
<1>2. Exp(g, t) \in Nat /\ Exp(g, t) <= BreakAt(g)
  BY <1>1, ExpFacts DEF Core
<1>3. t.sess \in Caps /\ t.sess.window \in Nat /\ t.sess.window >= 1
  BY <1>1, CapsFacts DEF Receivers
<1>4. 2 * t.sess.window < Numbers /\ u.sess.window <= t.sess.window
  BY DEF Core, Sessions
<1>5. Alive(u.pc) => Window(SendNext(g, u), Unacked(g, u), t.sess.window)
  BY <1>1, <1>3, <1>4, SenderWindowHolds DEF Core
<1>6. Alive(t.pc) => ~Rcvd(g, t, h) /\ Exp(g, t) <= h /\ h <= Exp(g, t) + t.sess.window
  BY <1>1, <1>2, HoleOpen DEF Core
<1>7. BreakAt(g) \in Nat
  <2>1. g \in Plans
    BY <1>1
  <2>2. g.files \in Nat
    BY <2>1, PlanFacts
  <2>3. g.files + 1 \in Nat \ {0}
    BY <2>2
  <2> QED
    BY <2>1, <2>3, FirstFacts DEF BreakAt
<1> QED
  BY <1>1, <1>2, <1>3, <1>4, <1>5, <1>6, <1>7 DEF Window

\* The answer at the head of the queue, when it confirms a place the sender waits for.
LEMMA HeadConfirms ==
  ASSUME NEW g, NEW x, PlanFor(g, x), NEW u, NEW t, NEW qR, NEW qS, NEW h,
         Core(g, x, u, t, qR, qS, h), Alive(u.pc), qS # <<>>,
         NEW c, c \in Unacked(g, u), Confirms(Head(qS), c)
  PROVE  \E m \in Nat : /\ ReplyTells(g, u, t, Head(qS), m)
                        /\ Head(qS).k = "Y" => m = c
                        /\ Head(qS).k = "N" => m = c + 1
                        /\ Alive(t.pc) => Rcvd(g, t, c)
<1> DEFINE y == Head(qS)
           w == t.sess.window
           N == SendNext(g, u)
           U == Unacked(g, u)
<1>1. /\ w \in Nat /\ w >= 1 /\ 2 * w < Numbers /\ Window(N, U, w) /\ qS \in Seq(ToS)
      /\ Exp(g, t) \in Nat
  BY CoreFacts
<1>2. y = qS[1] /\ 1 \in DOMAIN qS
  BY <1>1, TailFacts
<1>3. y.k \in {"Y", "N"}
  BY DEF Confirms
<1>4. PICK m \in Nat, e \in Nat : ReplySound(g, u, t, h, y, m, e)
  BY <1>2, <1>3 DEF Core, RepliesSound
<1>5. /\ y.seq = m % Numbers /\ e <= m + w /\ (e \in U \/ e = N)
      /\ (y.k = "Y" => m < N) /\ (y.k = "N" => m = e)
  BY <1>4 DEF ReplySound
<1> HIDE DEF y, w, N, U
<1>6. c \in U \/ c = N
  BY DEF U
<1>7. Confirms(y, c)
  BY DEF y
<1>8. (y.k = "Y" => m = c) /\ (y.k = "N" => m = c + 1)
  BY <1>1, <1>5, <1>6, <1>7, ConfirmedPlace
<1>9. Alive(t.pc) => Rcvd(g, t, c)
  <2>1. c \in Nat
    BY <1>1 DEF Window, U
  <2>2. Alive(t.pc) /\ y.k = "N" => c + 1 <= Exp(g, t)
    BY <1>4, <1>8 DEF ReplySound
  <2>3. Alive(t.pc) /\ y.k = "N" => Rcvd(g, t, c)
    BY <2>1, <2>2, <1>1 DEF Rcvd
  <2>4. Alive(t.pc) /\ y.k = "Y" => Rcvd(g, t, c)
    BY <1>4, <1>8 DEF ReplySound
  <2> QED
    BY <1>3, <2>3, <2>4
<1>10. ReplyTells(g, u, t, y, m)
  BY <1>4 DEF ReplySound
<1> QED
  BY <1>8, <1>9, <1>10 DEF y

\* A sender's step that goes on.
LEMMA SenderSteps ==
  ASSUME NEW g, NEW x, PlanFor(g, x), NEW u, NEW v, NEW t, NEW qR, NEW qR2, NEW qS, NEW qS2,
         NEW h, NEW ps, NEW c, Core(g, x, u, t, qR, qS, h), Alive(u.pc), Alive(v.pc),
         v \in Senders(x), SenderShape(g, v), Sessions(x, v, t, qR2),
         SenderMove(g, u, v, ps, c), ps \in Seq(ToR), qR2 = qR \/ qR2 = qR \o ps,
         v.pc = "S" => u.pc \in {"poke", "S"},
         \/ c = None /\ qS2 = qS
         \/ qS # <<>> /\ qS2 = Tail(qS) /\ c \in Unacked(g, u) /\ Confirms(Head(qS), c)
  PROVE  Core(g, x, v, t, qR2, qS2, h)
<1> DEFINE w == t.sess.window
<1>1. /\ g \in Plans /\ qR \in Seq(ToR) /\ qS \in Seq(ToS) /\ h \in Nat
      /\ w \in Nat /\ w >= 1
      /\ Window(SendNext(g, u), Unacked(g, u), w) /\ SendNext(g, u) \in Nat
      /\ Alive(t.pc) => ~Rcvd(g, t, h)
  BY CoreFacts
<1>2. /\ Window(SendNext(g, v), Unacked(g, v), w) /\ SendNext(g, v) \in Nat
      /\ v.pc # "W" => \A m, n \in Unacked(g, v) : m = n
  <2>1. v.sess.window <= w
    BY DEF Sessions
  <2> QED
    BY <1>1, <2>1, SenderWindowHolds DEF Window
<1>3. qR2 \in Seq(ToR) /\ qS2 \in Seq(ToS)
  BY <1>1, ConcatFacts, TailFacts, ZenonT(40)
<1>4. Types(x, v, t, qR2, qS2)
  BY <1>3 DEF Core, Types
<1>5. RepliesSound(g, v, t, h, qS2)
  <2>1. RepliesSound(g, u, t, h, qS)
    BY DEF Core
  <2>2. v.pc = "S" => u.pc = "S" \/ SendNext(g, u) = 0
    BY DEF SendNext
  <2>3. \/ c = None /\ qS2 = qS
        \/ qS # <<>> /\ qS2 = Tail(qS) /\ Confirms(Head(qS), c)
    OBVIOUS
  <2> QED
    BY <1>1, <1>2, <2>1, <2>2, <2>3, RepliesKept
<1>6. Alive(t.pc) => PacketsSound(g, t, h, qR2) /\ Sent(g, v, t, h, qR2)
  <2> SUFFICES ASSUME Alive(t.pc)
               PROVE  PacketsSound(g, t, h, qR2) /\ Sent(g, v, t, h, qR2)
    OBVIOUS
  <2>1. PacketsSound(g, t, h, qR) /\ Sent(g, u, t, h, qR) /\ BufShape(g, t, h)
    BY DEF Core, ReceiverShape
  <2>2. /\ \A j \in DOMAIN qR : Carries(qR[j]) => At(g, qR[j]) \in Nat
        /\ \A b \in t.buf : At(g, b) \in Nat
    BY <1>1, <2>1, PlacesNat
  <2>3. c \in Unacked(g, u) => Rcvd(g, t, c)
    <3>1. CASE c = None
      BY <3>1, <1>1 DEF Window, None
    <3>2. CASE qS # <<>> /\ c \in Unacked(g, u) /\ Confirms(Head(qS), c)
      BY <3>2, HeadConfirms
    <3> QED
      BY <3>1, <3>2
  <2>4. Sent(g, v, t, h, qR)
    BY <1>1, <1>2, <2>1, <2>2, <2>3, SentKeeps
  <2>5. \A i \in DOMAIN ps :
           /\ GoodPacket(g, ps[i]) /\ At(g, ps[i]) \in Unacked(g, v)
           /\ v.pc = "W" => ps[i].k = "D"
    BY DEF SenderMove
  <2>6. PacketsSound(g, t, h, qR \o ps) /\ Sent(g, v, t, h, qR \o ps)
    BY <1>1, <1>2, <2>1, <2>2, <2>4, <2>5, PacketsAppended
  <2> QED
    BY <2>1, <2>4, <2>6
<1>7. v.pc # "ok"
  BY DEF Alive, Done
<1> QED
  BY <1>4, <1>5, <1>6, <1>7, <1>1 DEF Core

-----------------------------------------------------------------------------
(* A step of the receiver, seen from the queues.  ys is what it writes; the   *)
(* hole it leaves is h.                                                      *)

NewReplies(g, u, t, h, ys) ==
  \A i \in DOMAIN ys : ys[i].k \in {"Y", "N"} =>
    \E m \in Nat :
      /\ ys[i].seq = m % Numbers /\ h <= m + t.sess.window
      /\ ys[i].k = "Y" => Rcvd(g, t, m)
      /\ ys[i].k = "N" => m = h /\ h <= Exp(g, t)
      /\ ReplyTells(g, u, t, ys[i], m)

\* The answers already under way stay sound when the receiver goes on.
LEMMA ReplyStays ==
  ASSUME NEW g, NEW u, NEW t, NEW t2, NEW h \in Nat, NEW h2 \in Nat, NEW y,
         NEW m \in Nat, NEW e \in Nat, ReplySound(g, u, t, h, y, m, e),
         Alive(t.pc), Alive(t2.pc), h <= h2, Exp(g, t) \in Nat, Exp(g, t2) \in Nat,
         Exp(g, t) <= Exp(g, t2), BreakAt(g) \in Nat,
         \A n \in Nat : Rcvd(g, t, n) => Rcvd(g, t2, n),
         t.sess.window \in Nat, t2.sess.window \in Nat, t.sess.window <= t2.sess.window,
         t2.sess = t.sess \/ \A n \in Nat : ~Rcvd(g, t, n)
  PROVE  ReplySound(g, u, t2, h2, y, m, e)
<1>1. /\ y.seq = m % Numbers /\ (e \in Unacked(g, u) \/ e = SendNext(g, u))
      /\ (y.k = "Y" => m < SendNext(g, u)) /\ (y.k = "N" => m = e)
  BY DEF ReplySound
<1>2. e <= m + t2.sess.window
  BY DEF ReplySound
<1>3. e <= h2
  BY DEF ReplySound
<1>4. y.k = "Y" => Rcvd(g, t, m) /\ Rcvd(g, t2, m)
  BY DEF ReplySound
<1>5. y.k = "N" => m <= Exp(g, t2)
  BY DEF ReplySound
<1>6. t.pc # "ok"
  BY DEF Alive, Done
<1>7. ReplyTells(g, u, t2, y, m)
  BY <1>4, <1>6 DEF ReplySound, ReplyTells
<1> QED
  BY <1>1, <1>2, <1>3, <1>4, <1>5, <1>7 DEF ReplySound

\* An answer about what has been received does not confirm the hole.
LEMMA HoleUnconfirmed ==
  ASSUME NEW g, NEW u, NEW t, NEW h \in Nat, NEW w \in Nat, w = t.sess.window, w >= 1,
         2 * w < Numbers, Window(SendNext(g, u), Unacked(g, u), w),
         h \in Unacked(g, u) \/ h = SendNext(g, u), ~Rcvd(g, t, h), Alive(t.pc),
         Exp(g, t) \in Nat, Exp(g, t) <= h,
         NEW y, NEW m \in Nat, NEW e \in Nat, ReplySound(g, u, t, h, y, m, e)
  PROVE  ~Confirms(y, h)
<1> SUFFICES ASSUME Confirms(y, h)
             PROVE  FALSE
  OBVIOUS
<1> DEFINE N == SendNext(g, u)
           U == Unacked(g, u)
<1>1. /\ y.seq = m % Numbers /\ e <= m + w /\ (e \in U \/ e = N)
      /\ (y.k = "Y" => m < N) /\ (y.k = "N" => m = e)
      /\ Window(N, U, w) /\ (h \in U \/ h = N)
  BY DEF ReplySound
<1> HIDE DEF N, U
<1>2. y.k \in {"Y", "N"} /\ (y.k = "Y" => m = h) /\ (y.k = "N" => m = h + 1)
  <2>1. w \in Nat /\ w >= 1 /\ 2 * w < Numbers
    OBVIOUS
  <2>2. Window(N, U, w)
    BY <1>1
  <2>3. h \in U \/ h = N
    BY <1>1
  <2>4. e \in U \/ e = N
    BY <1>1
  <2>5. y.seq = m % Numbers /\ e <= m + w /\ (y.k = "Y" => m < N) /\ (y.k = "N" => m = e)
    BY <1>1
  <2> QED
    BY <2>1, <2>2, <2>3, <2>4, <2>5, ConfirmedPlace, SMTT(60)
<1>3. (y.k = "Y" => Rcvd(g, t, m)) /\ (y.k = "N" => m <= Exp(g, t))
  BY DEF ReplySound
<1> QED
  BY <1>2, <1>3

LEMMA ReceiverSteps ==
  ASSUME NEW g, NEW x, PlanFor(g, x), NEW u, NEW t, NEW t2, NEW qR, NEW qR2, NEW qS, NEW qS2,
         NEW h, NEW h2, NEW ys, Core(g, x, u, t, qR, qS, h), Alive(t.pc), Alive(t2.pc),
         Types(x, u, t2, qR2, qS), Sessions(x, u, t2, qR2), FilesShape(g, t2), h2 \in Nat,
         ReceiverShape(g, t2, h2), PacketsSound(g, t2, h2, qR2),
         Alive(u.pc) => Sent(g, u, t2, h2, qR2),
         h <= h2, Exp(g, t) <= Exp(g, t2), \A n \in Nat : Rcvd(g, t, n) => Rcvd(g, t2, n),
         t.sess.window <= t2.sess.window,
         t2.sess = t.sess \/ \A n \in Nat : ~Rcvd(g, t, n),
         ys \in Seq(ToS), Alive(u.pc) => NewReplies(g, u, t2, h2, ys), qS2 = qS \/ qS2 = qS \o ys
  PROVE  Core(g, x, u, t2, qR2, qS2, h2)
<1> DEFINE w == t2.sess.window
<1>1. /\ g \in Plans /\ qS \in Seq(ToS) /\ h \in Nat /\ Exp(g, t) \in Nat
      /\ t.sess.window \in Nat /\ BreakAt(g) \in Nat /\ u \in Senders(x)
  BY CoreFacts
<1>2. t2 \in Receivers /\ t2.sess \in Caps
  BY DEF Types, Receivers
<1>3. w \in Nat /\ w >= 1 /\ 2 * w < Numbers /\ u.sess.window <= w
  BY <1>2, CapsFacts DEF Sessions
<1>4. Exp(g, t2) \in Nat
  BY <1>1, <1>2, ExpFacts
<1>5. ~Rcvd(g, t2, h2) /\ Exp(g, t2) <= h2
  BY <1>4, HoleOpen
<1>6. qS2 \in Seq(ToS) /\ Types(x, u, t2, qR2, qS2)
  BY <1>1, ConcatFacts DEF Types
<1>7. ASSUME Alive(u.pc)
      PROVE  RepliesSound(g, u, t2, h2, qS2)
  <2> DEFINE N == SendNext(g, u)
             U == Unacked(g, u)
  <2>0. SenderShape(g, u)
    BY <1>7 DEF Core
  <2>1. Window(N, U, w) /\ N \in Nat
    BY <1>1, <1>3, <1>7, <2>0, SenderWindowHolds, SMTT(30) DEF Window
  <2>2. h2 <= N /\ (h2 \in U \/ h2 = N)
    <3>1. h2 <= N /\ \A m \in 0..N - 1 : m \in U \/ Rcvd(g, t2, m)
      BY <1>7 DEF Sent
    <3>2. h2 # N => h2 \in 0..N - 1
      BY <2>1, <3>1
    <3> QED
      BY <1>5, <3>1, <3>2
  <2>3. ASSUME NEW m \in Nat, Rcvd(g, t2, m)
        PROVE  m < N
    <3>1. m < Exp(g, t2) => m < N
      BY <1>4, <1>5, <2>1, <2>2
    <3>2. m \in BufAt(g, t2) => m < N
      BY <1>7 DEF BufAt, Sent
    <3> QED
      BY <2>3, <3>1, <3>2 DEF Rcvd
  <2>4. ASSUME NEW i \in DOMAIN ys, ys[i].k \in {"Y", "N"}
        PROVE  \E m \in Nat : ReplySound(g, u, t2, h2, ys[i], m, h2)
    <3>1. PICK m \in Nat :
            /\ ys[i].seq = m % Numbers /\ h2 <= m + w
            /\ ys[i].k = "Y" => Rcvd(g, t2, m)
            /\ ys[i].k = "N" => m = h2 /\ h2 <= Exp(g, t2)
            /\ ReplyTells(g, u, t2, ys[i], m)
      BY <1>7, <2>4 DEF NewReplies
    <3>2. ys[i].k = "Y" => m < N
      BY <2>3, <3>1
    <3>3. h2 <= h2
      OBVIOUS
    <3>4. ReplySound(g, u, t2, h2, ys[i], m, h2)
      BY <2>2, <3>1, <3>2, <3>3 DEF ReplySound
    <3> QED
      BY <3>4
  <2>5. ASSUME NEW j \in DOMAIN qS, qS[j].k \in {"Y", "N"}
        PROVE  \E m \in Nat, e \in Nat :
                 /\ ReplySound(g, u, t2, h2, qS[j], m, e)
                 /\ \A i \in 1..j - 1 : ~Confirms(qS[i], e)
    <3>1. PICK m \in Nat, e \in Nat :
            ReplySound(g, u, t, h, qS[j], m, e) /\ \A i \in 1..j - 1 : ~Confirms(qS[i], e)
      BY <1>7, <2>5 DEF Core, RepliesSound
    <3>2. ReplySound(g, u, t2, h2, qS[j], m, e)
      BY <1>1, <1>3, <1>4, <3>1, ReplyStays
    <3> QED
      BY <3>1, <3>2
  <2>6. ASSUME NEW y, NEW m \in Nat, NEW e \in Nat, ReplySound(g, u, t2, h2, y, m, e)
        PROVE  ~Confirms(y, h2)
    BY <1>3, <1>4, <1>5, <2>1, <2>2, <2>6, HoleUnconfirmed
  <2>7. \A j \in DOMAIN qS : ~Confirms(qS[j], h2)
    BY <2>5, <2>6 DEF Confirms
  <2>8. \A i \in DOMAIN ys : ~Confirms(ys[i], h2)
    BY <2>4, <2>6 DEF Confirms
  <2>9. RepliesSound(g, u, t2, h2, qS)
    BY <2>5 DEF RepliesSound
  <2>10. RepliesSound(g, u, t2, h2, qS \o ys)
    <3> DEFINE q == qS \o ys
    <3>1. /\ q \in Seq(ToS) /\ DOMAIN q = 1..Len(q) /\ Len(qS) \in Nat /\ DOMAIN qS = 1..Len(qS)
          /\ Len(q) \in Nat
          /\ \A j \in DOMAIN q :
               \/ j \in DOMAIN qS /\ q[j] = qS[j]
               \/ j - Len(qS) \in DOMAIN ys /\ q[j] = ys[j - Len(qS)] /\ j > Len(qS)
      BY <1>1, ConcatFacts, DomainFacts
    <3> HIDE DEF q
    <3>2. \A j \in DOMAIN q : ~Confirms(q[j], h2)
      BY <2>7, <2>8, <3>1
    <3>3. ASSUME NEW j \in DOMAIN q, q[j].k \in {"Y", "N"}
          PROVE  \E m \in Nat, e \in Nat :
                   ReplySound(g, u, t2, h2, q[j], m, e) /\ \A i \in 1..j - 1 : ~Confirms(q[i], e)
      <4>1. CASE j \in DOMAIN qS /\ q[j] = qS[j]
        <5>1. \A i \in 1..j - 1 : q[i] = qS[i]
          BY <3>1, <4>1
        <5> QED
          BY <2>5, <3>3, <4>1, <5>1
      <4>2. CASE j - Len(qS) \in DOMAIN ys /\ q[j] = ys[j - Len(qS)]
        <5>1. \E m \in Nat : ReplySound(g, u, t2, h2, q[j], m, h2)
          BY <2>4, <3>3, <4>2
        <5>2. \A i \in 1..j - 1 : i \in DOMAIN q
          BY <3>1
        <5>3. \A i \in 1..j - 1 : ~Confirms(q[i], h2)
          BY <3>2, <5>2
        <5> QED
          BY <5>1, <5>3
      <4> QED
        BY <3>1, <4>1, <4>2
    <3>4. RepliesSound(g, u, t2, h2, q)
      BY <3>3 DEF RepliesSound
    <3> QED
      BY <3>4 DEF q
  <2> QED
    BY <2>9, <2>10
<1>8. u.pc = "ok" => t2.pc = "ok"
  BY DEF Core, Alive, Done
<1>9. Alive(u.pc) => SenderShape(g, u)
  BY DEF Core
<1> QED
  BY <1>6, <1>7, <1>8, <1>9 DEF Core

-----------------------------------------------------------------------------
(* Items read, damaged or struck into the queues, and halves that give up.   *)

LEMMA ShiftR ==
  ASSUME NEW g, NEW x, NEW u, NEW t, NEW qR, NEW qR2, NEW qS, NEW h,
         Core(g, x, u, t, qR, qS, h), qR2 \in Seq(ToR), Shift(qR, qR2, StopAndWait)
  PROVE  Core(g, x, u, t, qR2, qS, h)
<1>1. qR \in Seq(ToR) /\ Types(x, u, t, qR2, qS)
  BY DEF Core, Types
<1>2. Sessions(x, u, t, qR2)
  <2>1. PICK d \in {-1, 0, 1} :
          \A j \in DOMAIN qR2 : qR2[j].k \in StopAndWait => j + d \in DOMAIN qR /\ SameItem(qR2[j], qR[j + d])
    BY DEF Shift
  <2>2. \A j \in DOMAIN qR2 : qR2[j].k = "S" => qR2[j].caps \in {x.ours, Classic}
    BY <2>1 DEF Core, Sessions, SameItem, StopAndWait
  <2> QED
    BY <2>2 DEF Core, Sessions
<1>3. Alive(t.pc) => PacketsSound(g, t, h, qR2)
  BY <1>1, PacketsShift DEF Core
<1>4. Alive(u.pc) /\ Alive(t.pc) => Sent(g, u, t, h, qR2)
  BY <1>1, SentShift DEF Core
<1> QED
  BY <1>1, <1>2, <1>3, <1>4 DEF Core

LEMMA ShiftS ==
  ASSUME NEW g, NEW x, NEW u, NEW t, NEW qR, NEW qS, NEW qS2, NEW h,
         Core(g, x, u, t, qR, qS, h), qS2 \in Seq(ToS), Shift(qS, qS2, {"Y", "N"})
  PROVE  Core(g, x, u, t, qR, qS2, h)
<1>1. qS \in Seq(ToS) /\ Types(x, u, t, qR, qS2)
  BY DEF Core, Types
<1>2. Alive(u.pc) => RepliesSound(g, u, t, h, qS2)
  BY <1>1, RepliesShift DEF Core
<1> QED
  BY <1>1, <1>2 DEF Core

\* An error packet changes nothing for the packets before it.
LEMMA ErrorShift ==
  ASSUME NEW S, NEW q \in Seq(S), NEW p \in S, NEW kinds, p.k \notin kinds
  PROVE  q \o <<p>> \in Seq(S) /\ Shift(q, q \o <<p>>, kinds)
<1> DEFINE q2 == q \o <<p>>
<1>1. <<p>> \in Seq(S) /\ DOMAIN <<p>> = {1} /\ <<p>>[1] = p
  OBVIOUS
<1>2. /\ q2 \in Seq(S)
      /\ \A j \in DOMAIN q2 : (j \in DOMAIN q /\ q2[j] = q[j]) \/ q2[j] = p
  BY <1>1, ConcatFacts
<1> HIDE DEF q2
<1>3. ASSUME NEW j \in DOMAIN q2, q2[j].k \in kinds
      PROVE  j + 0 \in DOMAIN q /\ SameItem(q2[j], q[j + 0])
  <2>1. j \in DOMAIN q /\ q2[j] = q[j]
    BY <1>2, <1>3
  <2>2. j + 0 = j
    BY <2>1, DomainFacts
  <2> QED
    BY <2>1, <2>2 DEF SameItem
<1>4. Shift(q, q2, kinds)
  BY <1>3 DEF Shift
<1> QED
  BY <1>2, <1>4 DEF q2

LEMMA SenderEnds ==
  ASSUME NEW g, NEW x, NEW u, NEW v, NEW t, NEW qR, NEW qR2, NEW qS, NEW qS2, NEW h,
         Core(g, x, u, t, qR, qS, h), v \in Senders(x), v.sess = u.sess, v.pc = "err",
         qS2 \in Seq(ToS), NEW p \in ToR, p.k = "E", qR2 = qR \/ qR2 = qR \o <<p>>
  PROVE  Core(g, x, v, t, qR2, qS2, h)
<1>1. p.k \notin StopAndWait /\ qR \in Seq(ToR)
  BY DEF StopAndWait, Core, Types
<1>2. qR2 \in Seq(ToR) /\ Shift(qR, qR2, StopAndWait)
  BY <1>1, ErrorShift, SameShift
<1>3. Core(g, x, u, t, qR2, qS, h)
  BY <1>2, ShiftR
<1>4. Types(x, v, t, qR2, qS2)
  BY <1>2 DEF Core, Types
<1>5. Sessions(x, v, t, qR2)
  BY <1>3 DEF Core, Sessions
<1>6. ~Alive(v.pc) /\ v.pc # "ok"
  BY DEF Alive, Done
<1> QED
  BY <1>3, <1>4, <1>5, <1>6 DEF Core

\* The answers under way, once the receiver has returned.
LEMMA RepliesLast ==
  ASSUME NEW g, NEW u, NEW t, NEW t2, NEW h, NEW q, RepliesSound(g, u, t, h, q),
         Alive(t.pc), ~Alive(t2.pc), t2.sess = t.sess
  PROVE  RepliesSound(g, u, t2, h, q)
<1>1. ASSUME NEW y, NEW m, NEW e, ReplySound(g, u, t, h, y, m, e)
      PROVE  ReplySound(g, u, t2, h, y, m, e)
  <2>1. t.pc # "ok"
    BY DEF Alive, Done
  <2>2. ReplyTells(g, u, t2, y, m)
    BY <1>1, <2>1 DEF ReplySound, ReplyTells
  <2> QED
    BY <1>1, <2>2 DEF ReplySound
<1> SUFFICES ASSUME NEW j \in DOMAIN q, q[j].k \in {"Y", "N"}
             PROVE  \E m \in Nat, e \in Nat :
                      ReplySound(g, u, t2, h, q[j], m, e) /\ \A i \in 1..j - 1 : ~Confirms(q[i], e)
  BY DEF RepliesSound
<1>2. PICK m \in Nat, e \in Nat :
        ReplySound(g, u, t, h, q[j], m, e) /\ \A i \in 1..j - 1 : ~Confirms(q[i], e)
  BY DEF RepliesSound
<1> QED
  BY <1>1, <1>2

LEMMA ReceiverEnds ==
  ASSUME NEW g, NEW x, NEW u, NEW t, NEW t2, NEW qR, NEW qR2, NEW qS, NEW qS2, NEW h,
         Core(g, x, u, t, qR, qS, h), Alive(t.pc), t2 = [t EXCEPT !.pc = "err", !.buf = {}],
         qR2 \in Seq(ToR), Shift(qR, qR2, StopAndWait),
         NEW p \in ToS, p.k = "E", qS2 = qS \/ qS2 = qS \o <<p>>
  PROVE  Core(g, x, u, t2, qR2, qS2, h)
<1>1. p.k \notin {"Y", "N"} /\ qS \in Seq(ToS)
  BY DEF Core, Types
<1>2. qS2 \in Seq(ToS) /\ Shift(qS, qS2, {"Y", "N"})
  BY <1>1, ErrorShift, SameShift
<1>3. Core(g, x, u, t, qR2, qS, h)
  BY ShiftR
<1>4. Core(g, x, u, t, qR2, qS2, h)
  BY <1>2, <1>3, ShiftS
<1>5. t \in Receivers
  BY DEF Core, Types
<1>6. /\ t2 \in Receivers /\ t2.pc = "err" /\ t2.sess = t.sess /\ t2.files = t.files
      /\ t2.idle = t.idle
  BY <1>5 DEF Receivers, Done
<1> HIDE DEF Core
<1>7. ~Alive(t2.pc) /\ t.pc # "ok"
  BY <1>6 DEF Alive, Done
<1>8. Types(x, u, t2, qR2, qS2)
  BY <1>4, <1>6 DEF Core, Types
<1>9. Sessions(x, u, t2, qR2)
  BY <1>4, <1>6 DEF Core, Sessions
<1>10. FilesShape(g, t2)
  BY <1>4, <1>6 DEF Core, FilesShape
<1>11. Alive(u.pc) => RepliesSound(g, u, t2, h, qS2)
  BY <1>4, <1>6, <1>7, RepliesLast DEF Core
<1> QED
  BY <1>4, <1>7, <1>8, <1>9, <1>10, <1>11 DEF Core

\* The last packet of the batch.
LEMMA ReceiverBreaks ==
  ASSUME NEW g, NEW x, PlanFor(g, x), NEW u, NEW t, NEW t2, NEW qR, NEW qR2, NEW qS, NEW qS2,
         NEW h, Core(g, x, u, t, qR, qS, h), Alive(t.pc), t2 \in Receivers, t2.pc = "ok",
         t2.sess = t.sess, t2.files = t.files, t2.idle = t.idle, FilesShape(g, t2),
         u.pc \notin {"poke", "S"},
         qR2 \in Seq(ToR), Shift(qR, qR2, StopAndWait), h = BreakAt(g),
         Alive(u.pc) => BreakAt(g) < SendNext(g, u),
         NEW y \in ToS, y.k = "Y", y.seq = BreakAt(g) % Numbers, qS2 = qS \/ qS2 = qS \o <<y>>
  PROVE  Core(g, x, u, t2, qR2, qS2, h)
<1> DEFINE w == t.sess.window
<1>1. /\ g \in Plans /\ qS \in Seq(ToS) /\ h \in Nat /\ Exp(g, t) \in Nat /\ BreakAt(g) \in Nat
      /\ w \in Nat /\ w >= 1 /\ 2 * w < Numbers
      /\ Alive(u.pc) => Window(SendNext(g, u), Unacked(g, u), w)
      /\ ~Rcvd(g, t, h) /\ Exp(g, t) <= h
  BY CoreFacts
<1>2. ~Alive(t2.pc) /\ t.pc # "ok"
  BY DEF Alive, Done
<1>3. Core(g, x, u, t, qR2, qS, h)
  BY ShiftR
<1>4. Types(x, u, t2, qR2, qS2)
  <2>1. <<y>> \in Seq(ToS)
    OBVIOUS
  <2>2. qS2 \in Seq(ToS)
    BY <1>1, <2>1, ConcatFacts
  <2> QED
    BY <1>3, <2>2 DEF Core, Types
<1>5. Sessions(x, u, t2, qR2)
  BY <1>3 DEF Core, Sessions
<1>6. ASSUME Alive(u.pc)
      PROVE  RepliesSound(g, u, t2, h, qS2)
  <2>1. RepliesSound(g, u, t2, h, qS)
    BY <1>2, <1>3, <1>6, RepliesLast DEF Core
  <2>2. h \in Unacked(g, u) \/ h = SendNext(g, u)
    <3>1. Sent(g, u, t, h, qR)
      BY <1>6 DEF Core
    <3>2. h \in 0..SendNext(g, u) - 1
      BY <1>1, <1>6 DEF Window
    <3> QED
      BY <1>1, <3>1, <3>2 DEF Sent
  <2>3. \A j \in DOMAIN qS : ~Confirms(qS[j], h)
    <3> SUFFICES ASSUME NEW j \in DOMAIN qS, qS[j].k \in {"Y", "N"}
                 PROVE  ~Confirms(qS[j], h)
      BY DEF Confirms
    <3>1. PICK m \in Nat, e \in Nat : ReplySound(g, u, t, h, qS[j], m, e)
      BY <1>3, <1>6 DEF Core, RepliesSound
    <3> QED
      BY <1>1, <1>6, <2>2, <3>1, HoleUnconfirmed
  <2>4. ReplySound(g, u, t2, h, y, BreakAt(g), h)
    <3>1. \A f \in 1..g.files : g.att = 1 => First(g, f) + 1 # BreakAt(g)
      <4> SUFFICES ASSUME NEW f \in 1..g.files, g.att = 1
                   PROVE  First(g, f) + 1 < BreakAt(g)
        BY <1>1
      <4>1. Sendable(g, "A", f, g.chunks)
        BY DEF Sendable, StopAndWait
      <4> QED
        BY <1>1, <4>1, PlaceBounds DEF Place
    <3>2. ReplyTells(g, u, t2, y, BreakAt(g))
      BY <3>1 DEF ReplyTells
    <3>3. h <= BreakAt(g) + t2.sess.window
      BY <1>1
    <3> QED
      BY <1>2, <1>6, <2>2, <3>2, <3>3 DEF ReplySound
  <2>5. RepliesSound(g, u, t2, h, qS \o <<y>>)
    <3> DEFINE q == qS \o <<y>>
    <3>1. <<y>> \in Seq(ToS) /\ DOMAIN <<y>> = {1} /\ <<y>>[1] = y
      OBVIOUS
    <3>2. /\ q \in Seq(ToS) /\ DOMAIN q = 1..Len(q) /\ Len(q) = Len(qS) + 1 /\ Len(qS) \in Nat
          /\ DOMAIN qS = 1..Len(qS)
          /\ \A j \in DOMAIN q :
               (j \in DOMAIN qS /\ q[j] = qS[j]) \/ (j = Len(qS) + 1 /\ q[j] = y)
      BY <1>1, <3>1, ConcatFacts, DomainFacts
    <3> HIDE DEF q
    <3>3. ASSUME NEW j \in DOMAIN q, q[j].k \in {"Y", "N"}
          PROVE  \E m \in Nat, e \in Nat :
                   ReplySound(g, u, t2, h, q[j], m, e) /\ \A i \in 1..j - 1 : ~Confirms(q[i], e)
      <4>0. \A i \in 1..j - 1 : i \in DOMAIN q /\ i \in DOMAIN qS /\ q[i] = qS[i]
        <5> TAKE i \in 1..j - 1
        <5>1. j \in Nat /\ j <= Len(qS) + 1
          BY <3>2
        <5>2. i \in 1..Len(qS) /\ i # Len(qS) + 1 /\ i \in 1..Len(qS) + 1
          BY <3>2, <5>1
        <5>3. i \in DOMAIN q
          BY <3>2, <5>2
        <5> QED
          BY <3>2, <5>2, <5>3
      <4>1. CASE j \in DOMAIN qS /\ q[j] = qS[j]
        BY <2>1, <3>3, <4>0, <4>1 DEF RepliesSound
      <4>2. CASE q[j] = y
        BY <1>1, <2>3, <2>4, <4>0, <4>2
      <4> QED
        BY <3>2, <4>1, <4>2
    <3>4. RepliesSound(g, u, t2, h, q)
      BY <3>3 DEF RepliesSound
    <3> QED
      BY <3>4 DEF q
  <2> QED
    BY <2>1, <2>5
<1> QED
  BY <1>1, <1>2, <1>3, <1>4, <1>5, <1>6 DEF Core

\* Before the first file, nothing depends on what the two ends will agree on.
LEMMA PlanSwitch ==
  ASSUME NEW g, NEW g2, NEW x, PlanFor(g, x), PlanFor(g2, x), g.att = 0, NEW u, NEW t,
         NEW qR, NEW qS, NEW h, Core(g, x, u, t, qR, qS, h), u.pc = "S"
  PROVE  Core(g2, x, u, t, qR, qS, h)
<1>1. /\ g \in Plans /\ g2 \in Plans /\ h \in Nat /\ t \in Receivers /\ t.sess.window \in Nat
      /\ Alive(t.pc) => Exp(g, t) <= h
  BY CoreFacts DEF PlanFor
<1>2. Alive(u.pc) /\ SenderShape(g, u) /\ RepliesSound(g, u, t, h, qS)
  BY DEF Core, Alive, Done
<1>3. t.files = <<>> /\ t.pc # "ok"
  BY DEF Core, Sessions, FilesShape
<1>4. FilesShape(g2, t)
  <2>1. g2.files \in Nat
    BY <1>1, PlanFacts
  <2> QED
    BY <1>3, <2>1 DEF FilesShape
<1>5. /\ Waits(g, u) = 0 /\ Waits(g2, u) = 0
      /\ SendNext(g, u) = 1 /\ SendNext(g2, u) = 1
      /\ Unacked(g, u) = {0} /\ Unacked(g2, u) = {0}
  BY DEF Waits, Place, SendNext, Unacked
<1>6. SenderShape(g2, u)
  <2>1. u.out = <<>> /\ DOMAIN u.out = {}
    BY <1>2 DEF SenderShape
  <2>2. OutShape(g2, u)
    BY <2>1 DEF OutShape
  <2> QED
    BY <1>2, <1>5, <2>1, <2>2 DEF SenderShape
<1>7. Exp(g2, t) = Exp(g, t) /\ Exp(g, t) \in {0, 1}
  BY <1>3 DEF Exp
<1>8. ASSUME NEW p, GoodPacket(g, p), At(g, p) < 1
      PROVE  p.k = "S" /\ At(g, p) = 0 /\ At(g2, p) = 0 /\ GoodPacket(g2, p)
  <2>1. p.k = "S"
    <3>1. At(g, p) \in Nat /\ (p.k = "B" => At(g, p) >= 1)
      BY <1>1, <1>8, PlaceBounds DEF GoodPacket, At
    <3>2. p.k \notin {"S", "B"} => First(g, p.f) >= 1 /\ First(g, p.f) \in Nat /\ First(g, p.f) <= At(g, p)
      <4>1. p.k \notin {"S", "B"} => p.f \in Nat \ {0}
        BY <1>1, <1>8, PlanFacts DEF GoodPacket, Sendable
      <4> QED
        BY <1>1, <1>8, <4>1, FirstFacts, PlaceBounds DEF GoodPacket, At
    <3> QED
      BY <1>8, <3>1, <3>2
  <2>2. At(g, p) = 0 /\ At(g2, p) = 0
    BY <2>1 DEF At, Place
  <2> QED
    BY <1>8, <2>1, <2>2 DEF GoodPacket, Sendable
<1>9. ASSUME Alive(t.pc)
      PROVE  /\ ReceiverShape(g2, t, h) /\ PacketsSound(g2, t, h, qR) /\ Sent(g2, u, t, h, qR)
             /\ t.buf = {}
  <2>1. ReceiverShape(g, t, h) /\ PacketsSound(g, t, h, qR) /\ Sent(g, u, t, h, qR)
    BY <1>2, <1>9 DEF Core
  <2>2. t.buf = {}
    <3>1. ASSUME NEW b \in t.buf
          PROVE  FALSE
      <4>1. GoodPacket(g, b) /\ At(g, b) < 1
        BY <1>5, <2>1 DEF ReceiverShape, BufShape, Sent
      <4>2. b.k = "D"
        BY <1>1 DEF Receivers, PacketsOf
      <4> QED
        BY <4>1, <4>2, <1>8
    <3> QED
      BY <3>1
  <2>3. BufAt(g, t) = {} /\ BufAt(g2, t) = {}
    BY <2>2 DEF BufAt
  <2>4. BufShape(g2, t, h)
    BY <1>7, <2>1, <2>2, <2>3 DEF ReceiverShape, BufShape
  <2>5. Pending(g2, t)
    BY <1>3 DEF Pending
  <2>6. Replay(g2, t)
    <3>1. g.skip = 0
      BY <1>1, PlanFacts
    <3>2. ~(Exp(g, t) \in 3 .. 2 + t.sess.window)
      BY <1>1, <1>7
    <3> QED
      BY <2>1, <3>1, <3>2, <1>7 DEF ReceiverShape, Replay
  <2>7. ReceiverShape(g2, t, h)
    BY <1>7, <2>1, <2>4, <2>5, <2>6 DEF ReceiverShape
  <2>8. ASSUME NEW j \in DOMAIN qR, Carries(qR[j])
        PROVE  /\ PacketSound(g, t, h, qR[j])
               /\ qR[j].k = "S" /\ At(g, qR[j]) = 0 /\ At(g2, qR[j]) = 0 /\ GoodPacket(g2, qR[j])
    <3>1. PacketSound(g, t, h, qR[j]) /\ At(g, qR[j]) < 1
      BY <1>5, <2>1, <2>8 DEF PacketsSound, Sent
    <3> QED
      BY <3>1, <1>8 DEF PacketSound
  <2>9. PacketsSound(g2, t, h, qR)
    <3>1. ASSUME NEW j \in DOMAIN qR, Carries(qR[j])
          PROVE  /\ PacketSound(g2, t, h, qR[j])
                 /\ \A i \in 1..j - 1 : Carries(qR[i]) => At(g2, qR[i]) < At(g2, qR[j]) + t.sess.window
      <4>1. PacketSound(g2, t, h, qR[j])
        BY <2>2, <2>8, <3>1 DEF PacketSound
      <4>2. ASSUME NEW i \in 1..j - 1, Carries(qR[i])
            PROVE  At(g2, qR[i]) < At(g2, qR[j]) + t.sess.window
        <5>1. i \in DOMAIN qR
          <6>1. qR \in Seq(ToR)
            BY DEF Core, Types
          <6> QED
            BY <6>1, DomainFacts
        <5>2. At(g, qR[i]) < At(g, qR[j]) + t.sess.window
          BY <2>1, <3>1, <4>2 DEF PacketsSound
        <5> QED
          BY <2>8, <3>1, <4>2, <5>1, <5>2
      <4> QED
        BY <4>1, <4>2
    <3> QED
      BY <3>1 DEF PacketsSound
  <2>10. Sent(g2, u, t, h, qR)
    BY <1>5, <1>7, <2>1, <2>2, <2>3, <2>8 DEF Sent, Rcvd
  <2> QED
    BY <2>2, <2>7, <2>9, <2>10
<1>10. RepliesSound(g2, u, t, h, qS)
  <2>1. ASSUME NEW y, NEW m \in Nat, NEW e \in Nat, ReplySound(g, u, t, h, y, m, e)
        PROVE  ReplySound(g2, u, t, h, y, m, e)
    <3>1. BreakAt(g2) \in Nat /\ BreakAt(g2) >= 1
      <4>1. g2.files \in Nat
        BY <1>1, PlanFacts
      <4>2. g2.files + 1 \in Nat \ {0}
        BY <4>1
      <4> QED
        BY <1>1, <4>2, FirstFacts DEF BreakAt
    <3>2. (y.k = "Y" => m < 1) /\ (y.k = "N" => m <= 1)
      BY <1>5, <2>1 DEF ReplySound
    <3>3. ReplyTells(g2, u, t, y, m)
      <4>1. ASSUME NEW f \in 1..g2.files, y.k = "Y"
            PROVE  m # First(g2, f) + 1
        <5>1. g2.files \in Nat
          BY <1>1, PlanFacts
        <5>2. f \in Nat \ {0}
          BY <5>1
        <5>3. First(g2, f) \in Nat
          BY <1>1, <5>2, FirstFacts
        <5> QED
          BY <4>1, <3>2, <5>3
      <4>2. (y.k = "Y" => ~(m >= BreakAt(g2))) /\ (y.k = "N" => m <= BreakAt(g2))
        BY <3>1, <3>2
      <4>3. y.k = "Y" /\ u.pc = "S" => y.caps = t.sess
        BY <2>1 DEF ReplySound, ReplyTells
      <4> QED
        BY <4>1, <4>2, <4>3 DEF ReplyTells
    <3>4. Alive(t.pc) => (Rcvd(g2, t, m) <=> Rcvd(g, t, m))
      BY <1>7, <1>9 DEF Rcvd, BufAt
    <3> QED
      BY <1>5, <1>7, <2>1, <3>3, <3>4 DEF ReplySound
  <2> SUFFICES ASSUME NEW j \in DOMAIN qS, qS[j].k \in {"Y", "N"}
               PROVE  \E m \in Nat, e \in Nat :
                        /\ ReplySound(g2, u, t, h, qS[j], m, e)
                        /\ \A i \in 1..j - 1 : ~Confirms(qS[i], e)
    BY DEF RepliesSound
  <2>2. PICK m \in Nat, e \in Nat :
          ReplySound(g, u, t, h, qS[j], m, e) /\ \A i \in 1..j - 1 : ~Confirms(qS[i], e)
    BY <1>2 DEF RepliesSound
  <2> QED
    BY <2>1, <2>2
<1> QED
  BY <1>4, <1>6, <1>9, <1>10 DEF Core

-----------------------------------------------------------------------------
(* Least and greatest elements, and the ranks of a finite order.             *)

LEMMA LeastNat ==
  ASSUME NEW T, T \subseteq Nat, T # {}
  PROVE  \E a \in T : \A b \in T : a <= b
<1>1. PICK a \in T : \A b \in T : ~(<<b, a>> \in OpToRel(<, Nat))
  BY NatLessThanWellFounded, WFMin
<1>2. \A b \in T : a <= b
  <2> TAKE b \in T
  <2>1. a \in Nat /\ b \in Nat
    OBVIOUS
  <2>2. b < a => <<b, a>> \in OpToRel(<, Nat)
    BY <2>1 DEF OpToRel
  <2>3. ~(b < a)
    BY <1>1, <2>2, Zenon
  <2> QED
    BY <2>1, <2>3
<1> QED
  BY <1>2

LEMMA GreatestBelow ==
  ASSUME NEW M \in Nat, NEW T, T \subseteq 0..M, T # {}
  PROVE  Max(T) \in T /\ \A b \in T : Max(T) >= b
<1> DEFINE D == {M - b : b \in T}
<1>1. D \subseteq Nat /\ D # {}
  OBVIOUS
<1>2. PICK a \in D : \A b \in D : a <= b
  BY <1>1, LeastNat
<1>3. PICK c \in T : a = M - c
  OBVIOUS
<1>4. \A b \in T : c >= b
  <2> TAKE b \in T
  <2>1. M - b \in D
    OBVIOUS
  <2>2. M - c <= M - b
    BY <1>2, <1>3, <2>1
  <2> QED
    BY <2>2
<1>5. \E m \in T : \A b \in T : m >= b
  BY <1>4
<1> QED
  BY <1>5 DEF Max

LEMMA LowestIs ==
  ASSUME NEW out \in Seq(Entries), NEW is, is \subseteq DOMAIN out, is # {}
  PROVE  Lowest(out, is) \in is /\ \A j \in is : out[Lowest(out, is)].pos <= out[j].pos
<1> DEFINE T == {out[i].pos : i \in is}
<1>1. \A i \in is : out[i].pos \in Nat
  <2>1. \A i \in is : out[i] \in Entries
    OBVIOUS
  <2> QED
    BY <2>1 DEF Entries
<1>2. PICK a \in T : \A b \in T : a <= b
  BY <1>1, LeastNat
<1>3. PICK i \in is : a = out[i].pos
  OBVIOUS
<1>4. \E k \in is : \A j \in is : out[k].pos <= out[j].pos
  BY <1>2, <1>3
<1> QED
  BY <1>4 DEF Lowest

\* In a finite strict order each rank is that of one element.
StrictOrder(S, R) ==
  /\ \A a \in S : <<a, a>> \notin R
  /\ \A a, b, c \in S : <<a, b>> \in R /\ <<b, c>> \in R => <<a, c>> \in R
  /\ \A a, b \in S : a # b => <<a, b>> \in R \/ <<b, a>> \in R

Rank(S, R, e) == Cardinality({d \in S : <<d, e>> \in R})

LEMMA Ranks ==
  ASSUME NEW S, IsFiniteSet(S), NEW R, StrictOrder(S, R)
  PROVE  /\ Cardinality(S) \in Nat
         /\ \A e \in S : Rank(S, R, e) \in 0..Cardinality(S) - 1
         /\ \A a, b \in S : Rank(S, R, a) = Rank(S, R, b) => a = b
         /\ \A n \in 0..Cardinality(S) - 1 : \E e \in S : Rank(S, R, e) = n
<1> DEFINE Below(e) == {d \in S : <<d, e>> \in R}
           N == Cardinality(S)
<1>1. N \in Nat
  BY FS_CardinalityType
<1>2. ASSUME NEW e \in S
      PROVE  IsFiniteSet(Below(e)) /\ Cardinality(Below(e)) \in 0..N - 1
  <2>1. IsFiniteSet(S \ {e}) /\ Cardinality(S \ {e}) = N - 1
    BY FS_RemoveElement
  <2>2. Below(e) \in SUBSET (S \ {e})
    BY DEF StrictOrder
  <2>3. IsFiniteSet(Below(e)) /\ Cardinality(Below(e)) <= N - 1
    <3> DEFINE A == S \ {e}
               B == Below(e)
    <3>1. IsFiniteSet(A) /\ Cardinality(A) = N - 1 /\ B \in SUBSET A
      BY <2>1, <2>2
    <3> HIDE DEF A, B
    <3>2. IsFiniteSet(B) /\ Cardinality(B) <= Cardinality(A)
      BY <3>1, FS_Subset
    <3> QED
      BY <3>1, <3>2 DEF B
  <2>4. Cardinality(Below(e)) \in Nat
    BY <2>3, FS_CardinalityType
  <2> QED
    BY <1>1, <2>3, <2>4
<1>22. \A e \in S : Cardinality(Below(e)) \in Int
  <2> TAKE e \in S
  <2>1. Cardinality(Below(e)) \in 0..N - 1
    BY <1>2
  <2> HIDE DEF Below, N
  <2> QED
    BY <1>1, <2>1
<1>3. ASSUME NEW a \in S, NEW b \in S, <<a, b>> \in R
      PROVE  Cardinality(Below(a)) < Cardinality(Below(b))
  <2>1. Below(a) \in SUBSET Below(b) /\ a \in Below(b) /\ a \notin Below(a)
    BY <1>3 DEF StrictOrder
  <2>2. Cardinality(Below(a)) <= Cardinality(Below(b)) /\ Cardinality(Below(b)) # Cardinality(Below(a))
    BY <1>2, <2>1, FS_Subset
  <2>3. Cardinality(Below(a)) \in Int /\ Cardinality(Below(b)) \in Int
    BY <1>22
  <2> QED
    BY <2>2, <2>3
<1>4. \A a, b \in S : Cardinality(Below(a)) = Cardinality(Below(b)) => a = b
  <2> SUFFICES ASSUME NEW a \in S, NEW b \in S, a # b, Cardinality(Below(a)) = Cardinality(Below(b))
               PROVE  FALSE
    OBVIOUS
  <2>1. Cardinality(Below(a)) \in Int /\ Cardinality(Below(b)) \in Int
    BY <1>22
  <2>2. Cardinality(Below(a)) < Cardinality(Below(b)) \/ Cardinality(Below(b)) < Cardinality(Below(a))
    BY <1>3, ZenonT(40) DEF StrictOrder
  <2> QED
    BY <2>1, <2>2
<1> DEFINE f == [e \in S |-> Cardinality(Below(e))]
<1>5. f \in [S -> 0..N - 1]
  BY <1>2
<1>6. f \in Injection(S, 0..N - 1)
  <2>1. \A a \in S : f[a] = Cardinality(Below(a))
    OBVIOUS
  <2>2. DOMAIN f = S
    OBVIOUS
  <2> HIDE DEF f, Below
  <2> QED
    BY <1>4, <1>5, <2>1, <2>2 DEF Injection, IsInjective
<1>7. IsFiniteSet(0..N - 1) /\ Cardinality(0..N - 1) = N
  <2>1. 0 \in Int /\ N - 1 \in Int
    BY <1>1
  <2>2. IsFiniteSet(0..N - 1) /\ Cardinality(0..N - 1) = IF 0 > N - 1 THEN 0 ELSE (N - 1) - 0 + 1
    BY <2>1, FS_Interval
  <2> QED
    BY <1>1, <2>2
<1>8. f \in Surjection(S, 0..N - 1)
  BY <1>6, <1>7, FS_Injection
<1>9. \A n \in 0..N - 1 : \E e \in S : f[e] = n
  BY <1>8 DEF Surjection
<1>10. \A n \in 0..N - 1 : \E e \in S : Cardinality(Below(e)) = n
  BY <1>9
<1> QED
  BY <1>1, <1>2, <1>4, <1>10 DEF Rank

-----------------------------------------------------------------------------
(* What the sender writes.                                                  *)

RanksFull(S, R) ==
  Cardinality(S) \in Nat /\ \A n \in 0..Cardinality(S) - 1 : \E e \in S : Rank(S, R, e) = n

LEMMA RanksAreFull ==
  ASSUME NEW S, IsFiniteSet(S), NEW R, StrictOrder(S, R)
  PROVE  RanksFull(S, R)
  BY Ranks DEF RanksFull

LEMMA SenderFields ==
  ASSUME NEW x, NEW u \in Senders(x)
  PROVE  /\ u.pc \in StopAndWait \cup {"poke", "W"} \cup Done /\ u.seq \in 0..Numbers - 1
         /\ u.f \in 1..x.files /\ u.off \in 0..x.chunks /\ u.att \in Nat
         /\ u.ours \in {x.ours, Classic} /\ u.legacy \in BOOLEAN /\ u.sess \in Caps
         /\ u.out \in Seq(Entries)
  BY DEF Senders

LEMMA CurrentGood ==
  ASSUME xfer \in Transfers, NEW g, PlanFor(g, xfer), NEW u \in Senders(xfer), SenderShape(g, u),
         u.pc \in StopAndWait
  PROVE  /\ Current(u) \in ToR /\ GoodPacket(g, Current(u)) /\ At(g, Current(u)) = Waits(g, u)
         /\ Current(u).k = u.pc /\ (u.pc = "S" => Current(u).caps \in {xfer.ours, Classic})
<1>1. /\ u.seq \in Int /\ u.f \in Nat /\ u.off \in Nat /\ u.ours \in Caps /\ u.sess.chk \in 1..3
      /\ u.ours \in {xfer.ours, Classic} /\ u.off + 1 \in Nat
  BY SenderFields, TransferFacts, CapsFacts, NumbersType
<1>2. xfer.chunks \in Nat /\ Classic \in Caps /\ g.chunks = xfer.chunks
  BY TransferFacts DEF PlanFor
<1>3. /\ Sendable(g, u.pc, u.f, IF u.pc = "A" THEN g.chunks ELSE u.off + 1)
      /\ Waits(g, u) = Place(g, u.pc, u.f, IF u.pc = "A" THEN g.chunks ELSE u.off + 1)
  BY WaitsFacts
<1>4. u.seq = Waits(g, u) % Numbers
  BY DEF SenderShape
<1> DEFINE p == Current(u)
<1>5. p \in PacketsOf(StopAndWait) /\ p.k = u.pc /\ p.seq = u.seq
  BY <1>1, <1>2 DEF Current, Packet, PacketsOf
<1>6. /\ u.pc = "S" => p.caps = u.ours
      /\ u.pc # "S" => p.f = u.f
      /\ u.pc = "A" => p.pos = g.chunks
      /\ u.pc = "D" => p.pos = u.off + 1
  BY <1>2 DEF Current, Packet, StopAndWait
<1> HIDE DEF p
<1>7. p \in ToR
  BY <1>5 DEF ToR, PacketsOf
<1>8. Sendable(g, p.k, p.f, p.pos)
  BY <1>3, <1>5, <1>6 DEF Sendable
<1>9. At(g, p) = Waits(g, u)
  BY <1>3, <1>5, <1>6 DEF At, Place
<1> QED
  BY <1>1, <1>4, <1>5, <1>6, <1>7, <1>8, <1>9 DEF GoodPacket, p

\* The chunk an outstanding packet carries.
LEMMA OutgoingGood ==
  ASSUME xfer \in Transfers, NEW g, PlanFor(g, xfer), NEW u \in Senders(xfer), NEW o \in Entries,
         o.pos \in Skip(g, u.f) + 1 .. g.chunks, o.seq = DataAt(g, u.f, o.pos) % Numbers
  PROVE  /\ Outgoing(u, o) \in ToR /\ GoodPacket(g, Outgoing(u, o))
         /\ At(g, Outgoing(u, o)) = DataAt(g, u.f, o.pos) /\ Outgoing(u, o).k = "D"
<1>1. /\ u.f \in Nat /\ u.f \in 1..g.files /\ u.sess.chk \in 1..3 /\ Classic \in Caps
      /\ o.seq \in Int /\ o.pos \in Nat /\ o.k = "D"
  BY SenderFields, TransferFacts, CapsFacts, NumbersType DEF Entries, PlanFor
<1> DEFINE p == Outgoing(u, o)
<1>2. /\ p \in PacketsOf({"D"}) /\ p.k = "D" /\ p.seq = o.seq /\ p.f = u.f /\ p.pos = o.pos
  BY <1>1 DEF Outgoing, Packet, PacketsOf
<1> HIDE DEF p
<1>3. p \in ToR
  BY <1>2 DEF ToR, PacketsOf, StopAndWait
<1>4. Sendable(g, p.k, p.f, p.pos) /\ At(g, p) = DataAt(g, u.f, o.pos)
  BY <1>1, <1>2 DEF Sendable, At, Place, StopAndWait
<1> QED
  BY <1>2, <1>3, <1>4 DEF GoodPacket, p

\* A sender about to go on with the data of a file.
Ready(g, u) ==
  /\ u \in Senders(xfer) /\ u.off \in Skip(g, u.f) .. g.chunks
  /\ u.seq = DataAt(g, u.f, u.off + 1) % Numbers
  /\ OutShape(g, u)
  /\ ~u.sess.stream /\ 2 * u.sess.window < Numbers

OldestOf(u) == IF u.out = <<>> THEN u.seq ELSE Oldest(u.out)

LEMMA ReadyFacts ==
  ASSUME xfer \in Transfers, NEW g, PlanFor(g, xfer), NEW u, Ready(g, u)
  PROVE  /\ g \in Plans /\ u.f \in Nat \ {0} /\ u.off \in Nat /\ g.chunks \in Nat /\ u.off <= g.chunks
         /\ Skip(g, u.f) \in Nat /\ Skip(g, u.f) <= u.off /\ u.out \in Seq(Entries)
         /\ u.sess.window \in Nat /\ u.sess.window >= 1
         /\ DataAt(g, u.f, u.off + 1) \in Nat
         /\ \A n \in Int : u.off + n >= Skip(g, u.f) =>
              /\ DataAt(g, u.f, u.off + 1 + n) = DataAt(g, u.f, u.off + 1) + n
              /\ DataAt(g, u.f, u.off + 1) + n \in Nat
<1>1. /\ g \in Plans /\ u.f \in Nat \ {0} /\ u.off \in Nat /\ u.out \in Seq(Entries)
      /\ u.sess \in Caps
  <2>1. g \in Plans /\ u \in Senders(xfer)
    BY DEF Ready, PlanFor
  <2>2. u.f \in 1..xfer.files /\ u.off \in 0..xfer.chunks /\ u.out \in Seq(Entries) /\ u.sess \in Caps
    BY <2>1, SenderFields
  <2>3. xfer.files \in Nat /\ xfer.chunks \in Nat
    BY TransferFacts
  <2> QED
    BY <2>1, <2>2, <2>3
<1>2. g.chunks \in Nat /\ Skip(g, u.f) \in Nat
  <2>1. g \in Plans /\ u.f \in Nat
    BY <1>1
  <2>2. g.chunks \in Nat /\ \A f \in Nat : Skip(g, f) \in 0..g.chunks
    BY <2>1, PlanFacts
  <2> QED
    BY <2>1, <2>2
<1>3. Skip(g, u.f) <= u.off /\ u.off <= g.chunks
  BY <1>1, <1>2 DEF Ready
<1>4. u.off + 1 \in Int /\ u.off + 1 > Skip(g, u.f)
  BY <1>1, <1>2, <1>3
<1>5. /\ DataAt(g, u.f, u.off + 1) \in Nat
      /\ \A n \in Int : DataAt(g, u.f, u.off + 1 + n) = DataAt(g, u.f, u.off + 1) + n
  BY <1>1, <1>4, DataFacts
<1>6. ASSUME NEW n \in Int, u.off + n >= Skip(g, u.f)
      PROVE  DataAt(g, u.f, u.off + 1 + n) \in Nat
  <2>1. u.off + 1 + n \in Int /\ u.off + 1 + n > Skip(g, u.f)
    BY <1>1, <1>2, <1>6
  <2> QED
    BY <1>1, <2>1, DataFacts
<1> QED
  BY <1>1, <1>2, <1>3, <1>5, <1>6, CapsFacts

LEMMA WindowRoom ==
  ASSUME xfer \in Transfers, NEW g, PlanFor(g, xfer), NEW u, Ready(g, u), NEW i \in Nat,
         window_has_room(Len(u.out) + i, OldestOf(u), (u.seq + i) % Numbers, u.sess.window)
  PROVE  /\ Len(u.out) + i < u.sess.window
         /\ \A j \in DOMAIN u.out : u.off + 1 + i < u.out[j].pos + u.sess.window
<1> DEFINE d == DataAt(g, u.f, u.off + 1)
           w == u.sess.window
<1>1. /\ g \in Plans /\ u.f \in Nat \ {0} /\ u.off \in Nat /\ Skip(g, u.f) \in Nat
      /\ u.out \in Seq(Entries) /\ w \in Nat /\ w >= 1 /\ d \in Nat /\ 2 * w < Numbers
  BY ReadyFacts DEF Ready
<1>2. Len(u.out) + i < w /\ Dist(OldestOf(u), (u.seq + i) % Numbers) < w /\ Len(u.out) \in Nat
  BY <1>1 DEF window_has_room
<1>3. (u.seq + i) % Numbers = (d + i) % Numbers
  <2>1. u.seq = d % Numbers
    BY DEF Ready
  <2> HIDE DEF d
  <2> QED
    BY <1>1, <2>1, NumberPlus
<1>4. ASSUME NEW j \in DOMAIN u.out
      PROVE  u.off + 1 + i < u.out[j].pos + w
  <2> DEFINE k == Lowest(u.out, DOMAIN u.out)
             p == u.out[k].pos
             a == DataAt(g, u.f, p)
  <2>1. k \in DOMAIN u.out /\ p <= u.out[j].pos
    BY <1>1, LowestIs
  <2>2. u.out # <<>>
    OBVIOUS
  <2>3. /\ p \in Skip(g, u.f) + 1 .. u.off /\ u.out[k].seq = a % Numbers /\ u.off + 1 <= p + w
    BY <2>1 DEF Ready, OutShape
  <2>4. OldestOf(u) = a % Numbers
    BY <2>2, <2>3 DEF OldestOf, Oldest
  <2>5. u.out[j].pos \in Nat
    <3>1. u.out[j] \in Entries
      BY <1>1
    <3> QED
      BY <3>1 DEF Entries
  <2>55. /\ u.off \in Nat /\ w \in Nat /\ w >= 1 /\ d \in Nat /\ 2 * w < Numbers
         /\ Len(u.out) \in Nat /\ Len(u.out) + i < w /\ Skip(g, u.f) \in Nat
    BY <1>1, <1>2
  <2> HIDE DEF k, p, w
  <2>6. p \in Int /\ p > Skip(g, u.f) /\ p <= u.off
    BY <2>55, <2>3
  <2>7. a \in Nat /\ \A n \in Int : DataAt(g, u.f, p + n) = a + n
    BY <1>1, <2>6, DataFacts
  <2>8. u.off + 1 - p \in Int /\ p + (u.off + 1 - p) = u.off + 1
    BY <2>55, <2>6
  <2>9. d = a + (u.off + 1 - p)
    BY <2>7, <2>8
  <2> HIDE DEF a, d
  <2> DEFINE o == u.off
             n == Len(u.out)
  <2>95. /\ a \in Nat /\ o \in Nat /\ p \in Int /\ d = a + (o + 1 - p) /\ n \in Nat /\ w \in Nat
         /\ p <= o /\ o + 1 <= p + w /\ n + i < w /\ 2 * w < Numbers
    BY <2>55, <2>3, <2>6, <2>7, <2>9
  <2> HIDE DEF o, n
  <2>10. /\ d + i \in Int /\ a <= d + i /\ (d + i) - a < Numbers
         /\ (d + i) - a = o + 1 + i - p
    BY <2>95, NumbersType
  <2>11. Dist(a % Numbers, (d + i) % Numbers) = (d + i) - a
    BY <2>7, <2>10, DistPlaces
  <2>12. o + 1 + i - p < w
    BY <1>2, <1>3, <2>4, <2>10, <2>11
  <2> DEFINE e == u.out[j].pos
  <2>13. o \in Nat /\ e \in Nat /\ o + 1 + i - p < w /\ p <= e /\ p \in Int /\ w \in Nat
    BY <2>1, <2>5, <2>95, <2>12
  <2> HIDE DEF e
  <2>14. o + 1 + i < e + w
    BY <2>13
  <2> QED
    BY <2>14 DEF o, e
<1> QED
  BY <1>2, <1>4

\* The entries a fill of n chunks adds.
Chunks(u, n) == [i \in 1..n |-> Entry("D", (u.seq + i - 1) % Numbers, u.off + i)]

LEMMA FillIs ==
  ASSUME xfer \in Transfers, NEW g, PlanFor(g, xfer), NEW u, Ready(g, u)
  PROVE  \E n \in Nat :
           /\ Fill(u) = [u EXCEPT !.out = u.out \o Chunks(u, n), !.seq = (u.seq + n) % Numbers,
                                  !.off = u.off + n]
           /\ u.off + n <= g.chunks
           /\ \A i \in 0..n - 1 :
                window_has_room(Len(u.out) + i, OldestOf(u), (u.seq + i) % Numbers, u.sess.window)
           /\ u.out = <<>> /\ n = 0 => u.off = g.chunks
<1> DEFINE Room(i) == window_has_room(Len(u.out) + i, OldestOf(u), (u.seq + i) % Numbers, u.sess.window)
           M == xfer.chunks - u.off
           K == {k \in 0..M : \A i \in 0..k - 1 : Room(i)}
           n == Max(K)
           d == DataAt(g, u.f, u.off + 1)
<1>1. u.off \in Nat /\ g.chunks \in Nat /\ u.off <= g.chunks /\ g.chunks = xfer.chunks
      /\ u.sess.window >= 1 /\ u.sess.window \in Nat /\ d \in Nat
  BY ReadyFacts DEF PlanFor
<1>2. M \in Nat
  BY <1>1
<1>3. Fill(u) = [u EXCEPT !.out = u.out \o Chunks(u, n), !.seq = (u.seq + n) % Numbers,
                          !.off = u.off + n]
  BY DEF Fill, OldestOf, Chunks
<1> HIDE DEF M, Room
<1>4. 0 \in K /\ K \subseteq 0..M
  BY <1>2
<1>5. n \in K /\ \A b \in K : n >= b
  BY <1>2, <1>4, GreatestBelow
<1>6. n \in 0..M /\ \A i \in 0..n - 1 : Room(i)
  BY <1>5
<1>7. u.off + n <= g.chunks /\ n \in Nat
  BY <1>1, <1>6 DEF M
<1>8. u.out = <<>> => Room(0)
  <2>1. u.out = <<>> => Len(u.out) + 0 = 0 /\ OldestOf(u) = u.seq
    BY DEF OldestOf
  <2>2. u.seq = d % Numbers
    BY DEF Ready
  <2> HIDE DEF d
  <2>3. (u.seq + 0) % Numbers = d % Numbers
    BY <1>1, <2>2, NumberPlus
  <2>4. Dist(d % Numbers, d % Numbers) = 0
    <3>1. d \in Int /\ d <= d /\ d - d < Numbers /\ d - d = 0
      BY <1>1, NumbersType
    <3> QED
      BY <3>1, DistPlaces
  <2> QED
    BY <1>1, <2>1, <2>2, <2>3, <2>4 DEF Room, window_has_room
<1>9. u.out = <<>> /\ n = 0 => u.off = g.chunks
  <2> SUFFICES ASSUME u.out = <<>>, n = 0, u.off # g.chunks
               PROVE  FALSE
    OBVIOUS
  <2>1. 1 \in 0..M
    BY <1>1 DEF M
  <2>2. 1 \in K
    BY <1>8, <2>1
  <2>3. n >= 1
    BY <1>5, <2>2
  <2> HIDE DEF n
  <2> QED
    BY <2>3
<1> HIDE DEF n
<1> QED
  BY <1>3, <1>6, <1>7, <1>9 DEF Room

LEMMA EntryType ==
  ASSUME NEW a \in Int, NEW pos \in Nat
  PROVE  /\ Entry("D", a % Numbers, pos) \in Entries
         /\ Entry("D", a % Numbers, pos).seq = a % Numbers
         /\ Entry("D", a % Numbers, pos).pos = pos
<1>1. a % Numbers \in 0..Numbers - 1
  BY DivMod
<1>2. 0 \in 0..MaxRetries
  BY KermitAssumption
<1> HIDE DEF Entries
<1> QED
  BY <1>1, <1>2 DEF Entry, Entries

\* The chunks a fill adds stand where they should.
LEMMA ChunksFacts ==
  ASSUME xfer \in Transfers, NEW g, PlanFor(g, xfer), NEW u, Ready(g, u), NEW n \in Nat
  PROVE  /\ Chunks(u, n) \in Seq(Entries) /\ Len(Chunks(u, n)) = n
         /\ DOMAIN Chunks(u, n) = 1..n
         /\ \A i \in 1..n :
              /\ Chunks(u, n)[i].pos = u.off + i
              /\ Chunks(u, n)[i].seq = DataAt(g, u.f, u.off + i) % Numbers
<1> DEFINE d == DataAt(g, u.f, u.off + 1)
<1>1. ASSUME NEW i \in 1..n
      PROVE  /\ Entry("D", (u.seq + i - 1) % Numbers, u.off + i) \in Entries
             /\ Entry("D", (u.seq + i - 1) % Numbers, u.off + i).pos = u.off + i
             /\ Entry("D", (u.seq + i - 1) % Numbers, u.off + i).seq = DataAt(g, u.f, u.off + i) % Numbers
  <2>1. /\ u.off \in Nat /\ d \in Nat /\ u.seq = d % Numbers
        /\ u.seq \in Int /\ Skip(g, u.f) <= u.off /\ Skip(g, u.f) \in Nat
    <3>1. u.seq = d % Numbers
      BY DEF Ready
    <3>2. u.off \in Nat /\ d \in Nat /\ Skip(g, u.f) <= u.off /\ Skip(g, u.f) \in Nat
      BY ReadyFacts
    <3>3. d % Numbers \in 0..Numbers - 1
      BY <3>2, DivMod
    <3> HIDE DEF d
    <3> QED
      BY <3>1, <3>2, <3>3, NumbersType
  <2>2. i - 1 \in Int /\ u.off + (i - 1) >= Skip(g, u.f) /\ u.off + 1 + (i - 1) = u.off + i
    BY <2>1
  <2>3. DataAt(g, u.f, u.off + i) = d + (i - 1)
    BY <2>2, ReadyFacts
  <2>4. (u.seq + (i - 1)) % Numbers = (d + (i - 1)) % Numbers
    BY <2>1, <2>2, NumberPlus
  <2>5. u.seq + (i - 1) = u.seq + i - 1 /\ u.seq + i - 1 \in Int /\ u.off + i \in Nat
    BY <2>1
  <2> HIDE DEF d
  <2>6. (u.seq + i - 1) % Numbers = DataAt(g, u.f, u.off + i) % Numbers
    BY <2>3, <2>4, <2>5
  <2> QED
    BY <2>5, <2>6, EntryType
<1> DEFINE E(i) == Entry("D", (u.seq + i - 1) % Numbers, u.off + i)
<1>2. Chunks(u, n) = [i \in 1..n |-> E(i)]
  BY DEF Chunks
<1>3. \A i \in 1..n : E(i) \in Entries /\ E(i).pos = u.off + i
                      /\ E(i).seq = DataAt(g, u.f, u.off + i) % Numbers
  BY <1>1
<1> HIDE DEF E
<1> QED
  BY <1>2, <1>3

LEMMA FillKeeps ==
  ASSUME xfer \in Transfers, NEW g, PlanFor(g, xfer), NEW u, Ready(g, u)
  PROVE  LET v == Fill(u) IN
         /\ Ready(g, v) /\ v.pc = u.pc /\ v.f = u.f /\ v.sess = u.sess /\ v.ours = u.ours
         /\ v.off \in Nat /\ u.off <= v.off
         /\ Len(v.out) = Len(u.out) + (v.off - u.off)
         /\ \A i \in DOMAIN u.out : i \in DOMAIN v.out /\ v.out[i] = u.out[i]
         /\ \A i \in DOMAIN v.out : i > Len(u.out) => v.out[i].pos = u.off + (i - Len(u.out))
         /\ v.out = <<>> => v.off = g.chunks
<1> DEFINE v == Fill(u)
           L == Len(u.out)
           w == u.sess.window
           o == u.off
           sk == Skip(g, u.f)
<1>1. PICK n \in Nat :
        /\ v = [u EXCEPT !.out = u.out \o Chunks(u, n), !.seq = (u.seq + n) % Numbers,
                         !.off = u.off + n]
        /\ u.off + n <= g.chunks
        /\ \A i \in 0..n - 1 :
             window_has_room(Len(u.out) + i, OldestOf(u), (u.seq + i) % Numbers, u.sess.window)
        /\ u.out = <<>> /\ n = 0 => u.off = g.chunks
  BY FillIs
<1>2. /\ g \in Plans /\ u.f \in Nat \ {0} /\ o \in Nat /\ g.chunks \in Nat /\ sk \in Nat /\ sk <= o
      /\ u.out \in Seq(Entries) /\ w \in Nat /\ w >= 1 /\ L \in Nat /\ DOMAIN u.out = 1..L
      /\ g.chunks = xfer.chunks /\ u \in Senders(xfer) /\ 2 * w < Numbers
  BY ReadyFacts DEF Ready, PlanFor
<1>3. /\ Chunks(u, n) \in Seq(Entries) /\ Len(Chunks(u, n)) = n /\ DOMAIN Chunks(u, n) = 1..n
      /\ \A i \in 1..n :
           /\ Chunks(u, n)[i].pos = u.off + i
           /\ Chunks(u, n)[i].seq = DataAt(g, u.f, u.off + i) % Numbers
  BY ChunksFacts
<1> DEFINE c == Chunks(u, n)
           out2 == u.out \o c
<1> HIDE DEF c
<1>35. c \in Seq(Entries) /\ Len(c) = n
  BY <1>3 DEF c
<1>4. /\ out2 \in Seq(Entries) /\ Len(out2) = L + n /\ DOMAIN out2 = 1..L + n
      /\ \A i \in 1..L : out2[i] = u.out[i]
      /\ \A i \in 1..L + n : i > L => i - L \in 1..n /\ out2[i] = c[i - L]
  <2>1. u.out \in Seq(Entries) /\ L \in Nat /\ n \in Nat /\ DOMAIN u.out = 1..L
    BY <1>2
  <2>2. out2 \in Seq(Entries) /\ Len(out2) = L + n
    BY <1>35, <2>1
  <2>3. DOMAIN out2 = 1..L + n
    BY <2>1, <2>2
  <2>4. \A i \in 1..L : out2[i] = u.out[i]
    BY <1>35, <2>1
  <2>5. \A i \in 1..L + n : i > L => i - L \in 1..n
    BY <2>1
  <2>6. \A i \in 1..L + n : i > L => out2[i] = c[i - L]
    BY <1>35, <2>1
  <2> QED
    BY <2>2, <2>3, <2>4, <2>5, <2>6
<1>5. (u.seq + n) % Numbers = DataAt(g, u.f, u.off + n + 1) % Numbers /\ (u.seq + n) % Numbers \in 0..Numbers - 1
  <2> DEFINE d == DataAt(g, u.f, u.off + 1)
  <2>1. u.seq = d % Numbers
    BY DEF Ready
  <2>2. d \in Nat /\ n \in Int /\ u.off + n >= Skip(g, u.f)
    BY <1>2, ReadyFacts
  <2>3. DataAt(g, u.f, u.off + 1 + n) = d + n
    BY <2>2, ReadyFacts
  <2>4. u.off + 1 + n = u.off + n + 1
    BY <1>2
  <2> HIDE DEF d
  <2>5. (u.seq + n) % Numbers = (d + n) % Numbers /\ d + n \in Int
    BY <2>1, <2>2, NumberPlus
  <2> QED
    BY <2>3, <2>4, <2>5, DivMod
<1>6. /\ v \in Senders(xfer) /\ v.pc = u.pc /\ v.f = u.f /\ v.sess = u.sess /\ v.ours = u.ours
      /\ v.off = o + n /\ v.out = out2 /\ v.seq = (u.seq + n) % Numbers
  <2>1. u.off + n \in 0..xfer.chunks
    BY <1>1, <1>2
  <2> QED
    BY <1>1, <1>2, <1>4, <1>5, <2>1 DEF Senders, c
<1> HIDE DEF v, out2
<1>7. ASSUME NEW j \in 1..L
      PROVE  u.out[j].pos \in Nat /\ u.out[j].pos >= sk + 1 /\ u.out[j].pos <= o
             /\ o + n + 1 <= u.out[j].pos + w
  <2>1. u.out[j].pos \in sk + 1 .. o /\ o + 1 <= u.out[j].pos + w /\ j \in DOMAIN u.out
    BY <1>2 DEF Ready, OutShape
  <2>2. CASE n = 0
    BY <2>1, <2>2, <1>2
  <2>3. CASE n # 0
    <3>1. n - 1 \in 0..n - 1 /\ n - 1 \in Nat
      BY <2>3
    <3>2. u.off + 1 + (n - 1) < u.out[j].pos + u.sess.window
      BY <1>1, <2>1, <3>1, WindowRoom
    <3> DEFINE pj == u.out[j].pos
    <3>3. pj \in sk + 1 .. o /\ o + 1 + (n - 1) < pj + w
      BY <2>1, <3>2
    <3> HIDE DEF pj, o, w, sk
    <3>4. pj \in Nat /\ pj >= sk + 1 /\ pj <= o /\ o + n + 1 <= pj + w
      BY <3>3, <1>2
    <3> QED
      BY <3>4 DEF pj
  <2> QED
    BY <2>2, <2>3
<1>8. n <= w
  <2>1. CASE n = 0
    BY <2>1, <1>2
  <2>2. CASE n # 0
    <3>1. n - 1 \in 0..n - 1 /\ n - 1 \in Nat
      BY <2>2
    <3>2. L + (n - 1) < w
      BY <1>1, <3>1, WindowRoom
    <3> HIDE DEF L, w
    <3> QED
      BY <1>2, <3>2
  <2> QED
    BY <2>1, <2>2
<1>9. ASSUME NEW j \in 1..L + n, j > L
      PROVE  /\ out2[j].pos = o + (j - L) /\ j - L \in 1..n
             /\ out2[j].seq = DataAt(g, u.f, out2[j].pos) % Numbers
  BY <1>3, <1>4, <1>9 DEF c
<1> HIDE DEF L, w, o, sk
<1>95. o \in Nat /\ L \in Nat /\ w \in Nat /\ w >= 1 /\ sk \in Nat /\ sk <= o /\ n <= w /\ o + n <= g.chunks
       /\ g.chunks \in Nat
  BY <1>1, <1>2, <1>8 DEF o
<1>10. ASSUME NEW i \in 1..L + n
       PROVE  /\ out2[i].pos \in sk + 1 .. o + n
              /\ out2[i].seq = DataAt(g, u.f, out2[i].pos) % Numbers
              /\ o + n + 1 <= out2[i].pos + w
              /\ \A j \in 1..L + n : out2[i].pos = out2[j].pos => i = j
  <2>1. CASE i <= L
    <3>1. i \in 1..L /\ out2[i] = u.out[i]
      BY <2>1, <1>2, <1>4
    <3>2. /\ out2[i].pos \in Nat /\ out2[i].pos >= sk + 1 /\ out2[i].pos <= o
          /\ o + n + 1 <= out2[i].pos + w
      BY <3>1, <1>7
    <3>3. out2[i].seq = DataAt(g, u.f, out2[i].pos) % Numbers
      BY <3>1, <1>2 DEF Ready, OutShape
    <3>4. ASSUME NEW j \in 1..L + n, out2[i].pos = out2[j].pos
          PROVE  i = j
      <4>1. CASE j <= L
        <5>1. j \in 1..L /\ out2[j] = u.out[j]
          BY <4>1, <1>2, <1>4
        <5> QED
          BY <3>1, <3>4, <5>1, <1>2 DEF Ready, OutShape
      <4>2. CASE ~(j <= L)
        <5>1. j > L /\ j - L \in 1..n /\ out2[j].pos = o + (j - L)
          BY <4>2, <1>2, <1>9
        <5> QED
          BY <3>2, <3>4, <5>1, <1>2
      <4> QED
        BY <4>1, <4>2
    <3>5. out2[i].pos \in sk + 1 .. o + n
      BY <3>2, <1>2
    <3> QED
      BY <3>2, <3>3, <3>4, <3>5
  <2>2. CASE ~(i <= L)
    <3>1. i > L /\ i - L \in 1..n /\ out2[i].pos = o + (i - L)
      BY <2>2, <1>2, <1>9
    <3>2. out2[i].seq = DataAt(g, u.f, out2[i].pos) % Numbers
      BY <3>1, <1>9
    <3>3. out2[i].pos \in sk + 1 .. o + n /\ o + n + 1 <= out2[i].pos + w
      <4> DEFINE m == i - L
      <4>1. m \in 1..n /\ out2[i].pos = o + m
        BY <3>1
      <4> HIDE DEF m
      <4> QED
        BY <4>1, <1>95
    <3>4. ASSUME NEW j \in 1..L + n, out2[i].pos = out2[j].pos
          PROVE  i = j
      <4>1. CASE j <= L
        <5>1. j \in 1..L /\ out2[j] = u.out[j]
          BY <4>1, <1>2, <1>4
        <5>2. out2[j].pos \in Nat /\ out2[j].pos <= o
          BY <5>1, <1>7
        <5> QED
          BY <3>1, <3>4, <5>2, <1>2
      <4>2. CASE ~(j <= L)
        <5>1. j > L /\ j - L \in 1..n /\ out2[j].pos = o + (j - L)
          BY <4>2, <1>2, <1>9
        <5> QED
          BY <3>1, <3>4, <5>1, <1>2
      <4> QED
        BY <4>1, <4>2
    <3> QED
      BY <3>2, <3>3, <3>4
  <2> QED
    BY <2>1, <2>2
<1>11. OutShape(g, v)
  <2>1. DOMAIN v.out = 1..L + n /\ v.f = u.f /\ v.sess = u.sess /\ v.off = o + n /\ v.out = out2
    BY <1>4, <1>6
  <2> QED
    BY <1>10, <2>1 DEF OutShape, w, sk
<1>12. v.off \in Nat /\ u.off <= v.off /\ Len(v.out) = Len(u.out) + (v.off - u.off)
       /\ v.off \in Skip(g, v.f) .. g.chunks
  <2>1. v.off = o + n /\ Len(v.out) = L + n /\ Skip(g, v.f) = sk
    BY <1>4, <1>6 DEF sk
  <2>2. v.off \in Nat /\ o <= v.off /\ L + n = L + (v.off - o) /\ v.off \in sk .. g.chunks
    BY <1>95, <2>1
  <2> QED
    BY <2>1, <2>2 DEF o, L
<1>13. Ready(g, v)
  <2>1. v.seq = DataAt(g, v.f, v.off + 1) % Numbers
    BY <1>5, <1>6 DEF o
  <2> QED
    BY <1>6, <1>11, <1>12, <2>1 DEF Ready
<1>14. \A i \in DOMAIN u.out : i \in DOMAIN v.out /\ v.out[i] = u.out[i]
  BY <1>2, <1>4, <1>6
<1>15. \A i \in DOMAIN v.out : i > Len(u.out) => v.out[i].pos = u.off + (i - Len(u.out))
  BY <1>4, <1>6, <1>9 DEF o, L
<1>16. v.out = <<>> => v.off = g.chunks
  <2> SUFFICES ASSUME v.out = <<>>
               PROVE  v.off = g.chunks
    OBVIOUS
  <2>1. L + n = 0 /\ n = 0 /\ L = 0
    BY <1>2, <1>4, <1>6
  <2>2. u.out = <<>>
    BY <1>2, <2>1 DEF L
  <2> QED
    BY <1>1, <1>2, <1>6, <2>1, <2>2 DEF o
<1> QED
  BY <1>6, <1>12, <1>13, <1>14, <1>15, <1>16 DEF v

\* The sender's next state v is one it may be in, and ps, which it writes on the way, is
\* what it then waits for; every place from d on that it has sent is outstanding.
Proceeds(g, u, v, ps, d) ==
  /\ v \in Senders(xfer) /\ Alive(v.pc) /\ SenderShape(g, v)
  /\ v.sess = u.sess
  /\ d <= SendNext(g, v)
  /\ \A m \in d .. SendNext(g, v) - 1 : m \in Unacked(g, v)
  /\ ps \in Seq(ToR)
  /\ \A i \in DOMAIN ps :
       /\ GoodPacket(g, ps[i]) /\ At(g, ps[i]) \in Unacked(g, v)
       /\ v.pc = "W" => ps[i].k = "D"
       /\ ps[i].k = v.pc \/ ps[i].k = "D"

\* A state that waits for one packet.
\* ps are the packets of the places from d on, as written on a line without faults.
Exactly(g, v, ps, d) ==
  /\ SendNext(g, v) = d + Len(ps)
  /\ \A i \in DOMAIN ps : At(g, ps[i]) = d + i - 1 /\ ps[i].ok /\ ps[i].chk = v.sess.chk

LEMMA OneProceeds ==
  ASSUME xfer \in Transfers, NEW g, PlanFor(g, xfer), NEW u, NEW v \in Senders(xfer),
         SenderShape(g, v), v.pc \in StopAndWait, NEW before,
         v.sess = u.sess
  PROVE  /\ Proceeds(g, u, v, Entering(v, before), Waits(g, v))
         /\ v.pc # "S" => Exactly(g, v, Entering(v, before), Waits(g, v))
<1> DEFINE ps == Entering(v, before)
<1>1. ps = <<Current(v)>>
  BY DEF Entering
<1>2. Waits(g, v) \in Nat
  BY WaitsFacts
<1>3. SendNext(g, v) = Waits(g, v) + 1 /\ Unacked(g, v) = {Waits(g, v)} /\ Alive(v.pc) /\ v.pc # "W"
  BY DEF SendNext, Unacked, StopAndWait, Alive, Done
<1>4. /\ Current(v) \in ToR /\ GoodPacket(g, Current(v)) /\ At(g, Current(v)) = Waits(g, v)
      /\ Current(v).k = v.pc
  BY CurrentGood
<1> DEFINE p == Current(v)
<1> HIDE DEF p
<1>5. ps = <<p>> /\ p \in ToR /\ GoodPacket(g, p) /\ At(g, p) = Waits(g, v) /\ p.k = v.pc
  BY <1>1, <1>4 DEF p
<1>6. ps \in Seq(ToR) /\ \A i \in DOMAIN ps : ps[i] = p
  BY <1>5
<1> HIDE DEF ps
<1>7. Waits(g, v) <= SendNext(g, v) /\ \A m \in Waits(g, v) .. SendNext(g, v) - 1 : m \in Unacked(g, v)
  BY <1>2, <1>3
<1>8. Proceeds(g, u, v, ps, Waits(g, v))
  BY <1>3, <1>5, <1>6, <1>7 DEF Proceeds
<1>9. v.pc # "S" => p.ok /\ p.chk = v.sess.chk
  BY DEF p, Current, Packet, StopAndWait
<1>10. DOMAIN ps = {1} /\ Len(ps) = 1
  BY <1>5
<1>11. v.pc # "S" => Exactly(g, v, ps, Waits(g, v))
  <2>1. Waits(g, v) + 1 - 1 = Waits(g, v)
    BY <1>2
  <2> QED
    BY <1>3, <1>5, <1>6, <1>9, <1>10, <2>1 DEF Exactly
<1> QED
  BY <1>8, <1>11 DEF ps

LEMMA WindowLoopGoes ==
  ASSUME xfer \in Transfers, NEW g, PlanFor(g, xfer), NEW u, Ready(g, u), u.pc = "W"
  PROVE  LET v == WindowLoop(u) IN
         /\ Proceeds(g, u, v, Entering(v, Len(u.out)), DataAt(g, u.f, u.off + 1))
         /\ \A i \in DOMAIN u.out : DataAt(g, u.f, u.out[i].pos) \in Unacked(g, v)
         /\ v.pc \in {"W", "Z"}
         /\ Exactly(g, v, Entering(v, Len(u.out)), DataAt(g, u.f, u.off + 1))
         /\ \A m \in Unacked(g, v) :
              \/ \E i \in DOMAIN u.out : m = DataAt(g, u.f, u.out[i].pos)
              \/ m >= DataAt(g, u.f, u.off + 1)
<1> DEFINE v == WindowLoop(u)
           w == Fill(u)
           d == DataAt(g, u.f, u.off + 1)
           L == Len(u.out)
<1>1. /\ Ready(g, w) /\ w.pc = u.pc /\ w.f = u.f /\ w.sess = u.sess /\ w.ours = u.ours
      /\ w.off \in Nat /\ u.off <= w.off
      /\ Len(w.out) = Len(u.out) + (w.off - u.off)
      /\ \A i \in DOMAIN u.out : i \in DOMAIN w.out /\ w.out[i] = u.out[i]
      /\ \A i \in DOMAIN w.out : i > Len(u.out) => w.out[i].pos = u.off + (i - Len(u.out))
      /\ w.out = <<>> => w.off = g.chunks
  BY FillKeeps
<1>2. v = IF w.out = <<>> THEN [w EXCEPT !.pc = "Z"] ELSE w
  BY DEF WindowLoop
<1>3. /\ g \in Plans /\ u.f \in Nat \ {0} /\ u.off \in Nat /\ g.chunks \in Nat
      /\ Skip(g, u.f) \in Nat /\ Skip(g, u.f) <= u.off /\ u.out \in Seq(Entries)
      /\ d \in Nat /\ L \in Nat /\ DOMAIN u.out = 1..L
      /\ \A n \in Int : u.off + n >= Skip(g, u.f) => DataAt(g, u.f, u.off + 1 + n) = d + n
  BY ReadyFacts
<1>4. w \in Senders(xfer) /\ w.out \in Seq(Entries) /\ w.off <= g.chunks
  BY <1>1, ReadyFacts DEF Ready
<1> HIDE DEF w, v, d, L
<1>5. CASE w.out = <<>>
  <2>1. w.off = u.off /\ L = 0 /\ u.off = g.chunks /\ DOMAIN u.out = {}
    BY <1>1, <1>3, <1>5 DEF L
  <2>2. /\ v \in Senders(xfer) /\ v.pc = "Z" /\ v.f = u.f /\ v.sess = u.sess /\ v.ours = u.ours
        /\ v.out = <<>> /\ v.off = g.chunks /\ v.seq = w.seq
    BY <1>1, <1>2, <1>4, <1>5 DEF Senders, StopAndWait
  <2>3. Waits(g, v) = d
    BY <2>1, <2>2 DEF Waits, Place, EndAt, d
  <2>4. w.seq = d % Numbers
    BY <1>1, <2>1 DEF Ready, d
  <2>5. SenderShape(g, v)
    <3>1. OutShape(g, v)
      BY <2>2 DEF OutShape
    <3> QED
      BY <2>2, <2>3, <2>4, <3>1 DEF SenderShape
  <2>6. v.pc \in StopAndWait
    BY <2>2 DEF StopAndWait
  <2>7. Proceeds(g, u, v, Entering(v, Len(u.out)), d) /\ Exactly(g, v, Entering(v, Len(u.out)), d)
    BY <2>2, <2>3, <2>5, <2>6, OneProceeds
  <2>8. Unacked(g, v) = {d}
    BY <2>2, <2>3 DEF Unacked
  <2>9. d >= d
    BY <1>3
  <2> QED
    BY <2>1, <2>2, <2>7, <2>8, <2>9 DEF v, d
<1>6. CASE w.out # <<>>
  <2>1. v = w /\ v.pc = "W" /\ v \in Senders(xfer)
    BY <1>1, <1>2, <1>4, <1>6
  <2>2. SendNext(g, v) = DataAt(g, u.f, v.off + 1)
        /\ Unacked(g, v) = {DataAt(g, u.f, v.out[i].pos) : i \in DOMAIN v.out}
    BY <1>1, <2>1 DEF SendNext, Unacked
  <2>3. SenderShape(g, v)
    BY <1>1, <1>6, <2>1, <2>2 DEF SenderShape, Ready, StopAndWait
  <2>4. Alive(v.pc)
    BY <2>1 DEF Alive, Done
  <2> DEFINE n == v.off - u.off
  <2>5. n \in Nat /\ Len(v.out) = L + n /\ DOMAIN v.out = 1..L + n /\ v.off = u.off + n
    BY <1>1, <1>3, <1>4, <2>1 DEF L
  <2> HIDE DEF n
  <2>6. SendNext(g, v) = d + n
    <3>1. n \in Int /\ u.off + n >= Skip(g, u.f) /\ u.off + 1 + n = v.off + 1
      BY <1>3, <2>5
    <3> QED
      BY <1>3, <2>2, <3>1
  <2>7. d <= SendNext(g, v)
    BY <1>3, <2>5, <2>6
  <2>8. ASSUME NEW m \in d .. SendNext(g, v) - 1
        PROVE  m \in Unacked(g, v)
    <3> DEFINE k == m - d + 1
    <3>1. k \in 1..n /\ m = d + (k - 1) /\ k - 1 \in Int
      BY <1>3, <2>5, <2>6
    <3> HIDE DEF k
    <3>2. L + k \in DOMAIN v.out /\ L + k > L /\ (L + k) - L = k
      <4>1. L \in Nat /\ n \in Nat /\ k \in 1..n /\ DOMAIN v.out = 1..L + n
        BY <1>3, <2>5, <3>1
      <4>2. L + k \in 1..L + n /\ L + k > L /\ (L + k) - L = k
        BY <4>1
      <4> QED
        BY <4>1, <4>2
    <3>3. v.out[L + k].pos = u.off + k
      BY <1>1, <2>1, <3>2 DEF L
    <3>4. u.off + (k - 1) >= Skip(g, u.f) /\ u.off + 1 + (k - 1) = u.off + k
      <4> DEFINE o == u.off
                 b == Skip(g, u.f)
      <4>1. o \in Nat /\ b \in Nat /\ b <= o /\ k \in Nat /\ k >= 1
        BY <1>3, <2>5, <3>1
      <4> HIDE DEF o, b
      <4>2. o + (k - 1) >= b /\ o + 1 + (k - 1) = o + k
        BY <4>1
      <4> QED
        BY <4>2 DEF o, b
    <3>5. DataAt(g, u.f, u.off + k) = m
      BY <1>3, <3>1, <3>4
    <3> QED
      BY <2>2, <3>2, <3>3, <3>5
  <2>9. \A i \in DOMAIN u.out : DataAt(g, u.f, u.out[i].pos) \in Unacked(g, v)
    BY <1>1, <2>1, <2>2
  <2> DEFINE ps == Entering(v, Len(u.out))
  <2>10. ps = [i \in 1..n |-> Outgoing(v, v.out[L + i])]
    <3>1. v.pc \notin StopAndWait
      BY <2>1 DEF StopAndWait
    <3>2. Len(v.out) - L = n
      BY <1>3, <2>5
    <3> QED
      BY <3>1, <3>2 DEF Entering, L
  <2>11. ASSUME NEW i \in 1..n
         PROVE  /\ Outgoing(v, v.out[L + i]) \in ToR /\ GoodPacket(g, Outgoing(v, v.out[L + i]))
                /\ At(g, Outgoing(v, v.out[L + i])) \in Unacked(g, v)
                /\ Outgoing(v, v.out[L + i]).k = "D"
    <3>1. L + i \in DOMAIN v.out
      BY <1>3, <2>5
    <3>2. v.out[L + i] \in Entries
      BY <1>4, <2>1, <3>1
    <3>3. /\ v.out[L + i].pos \in Skip(g, v.f) + 1 .. v.off
          /\ v.out[L + i].seq = DataAt(g, v.f, v.out[L + i].pos) % Numbers
      BY <2>3, <3>1 DEF SenderShape, OutShape
    <3>4. v.out[L + i].pos \in Skip(g, v.f) + 1 .. g.chunks
      <4>1. v.f = u.f /\ v.off \in Nat /\ v.off <= g.chunks
        BY <1>1, <1>4, <2>1
      <4> QED
        BY <3>3, <4>1, <1>3
    <3>5. /\ Outgoing(v, v.out[L + i]) \in ToR /\ GoodPacket(g, Outgoing(v, v.out[L + i]))
          /\ At(g, Outgoing(v, v.out[L + i])) = DataAt(g, v.f, v.out[L + i].pos)
          /\ Outgoing(v, v.out[L + i]).k = "D"
      BY <2>1, <3>2, <3>3, <3>4, OutgoingGood
    <3>6. DataAt(g, v.f, v.out[L + i].pos) \in Unacked(g, v)
      BY <1>1, <2>1, <2>2, <3>1
    <3> QED
      BY <3>5, <3>6
  <2>12. ps \in Seq(ToR) /\ DOMAIN ps = 1..n
    BY <2>5, <2>10, <2>11
  <2>13. \A i \in DOMAIN ps :
           GoodPacket(g, ps[i]) /\ At(g, ps[i]) \in Unacked(g, v) /\ ps[i].k = "D"
    BY <2>10, <2>11, <2>12
  <2> HIDE DEF ps
  <2>14. v.f = u.f /\ v.sess = u.sess /\ v.ours = u.ours
    BY <1>1, <2>1
  <2>15. Proceeds(g, u, v, ps, d)
    BY <2>1, <2>3, <2>4, <2>7, <2>8, <2>12, <2>13, <2>14 DEF Proceeds
  <2>16. ASSUME NEW i \in DOMAIN v.out, i > L
         PROVE  DataAt(g, u.f, v.out[i].pos) = d + (i - L) - 1 /\ i - L \in Nat /\ i - L >= 1
    <3> DEFINE k == i - L
               o == u.off
               b == Skip(g, u.f)
    <3>1. i \in Nat /\ L \in Nat /\ o \in Nat /\ b \in Nat /\ b <= o /\ d \in Nat
      BY <1>3, <2>5
    <3> HIDE DEF o, b
    <3>2. k \in Nat /\ k >= 1 /\ k - 1 \in Int /\ o + (k - 1) >= b /\ o + 1 + (k - 1) = o + k /\ d + (k - 1) = d + k - 1
      BY <2>16, <3>1
    <3>3. v.out[i].pos = o + k
      BY <1>1, <2>1, <2>16 DEF L, o
    <3> HIDE DEF k
    <3>4. DataAt(g, u.f, o + k) = d + (k - 1)
      BY <1>3, <3>2 DEF o, b
    <3>5. DataAt(g, u.f, v.out[i].pos) = d + k - 1
      BY <3>2, <3>3, <3>4
    <3> QED
      BY <3>2, <3>5 DEF k
  <2>17. Exactly(g, v, ps, d)
    <3>1. Len(ps) = n
      BY <2>5, <2>12
    <3>2. ASSUME NEW i \in DOMAIN ps
          PROVE  At(g, ps[i]) = d + i - 1 /\ ps[i].ok /\ ps[i].chk = v.sess.chk
      <4>1. i \in 1..n /\ L + i \in DOMAIN v.out /\ L + i > L /\ (L + i) - L = i
        <5>1. i \in 1..n
          BY <2>12, <3>2
        <5>2. L \in Nat /\ n \in Nat /\ DOMAIN v.out = 1..L + n
          BY <1>3, <2>5
        <5>3. L + i \in 1..L + n /\ L + i > L /\ (L + i) - L = i
          BY <5>1, <5>2
        <5> QED
          BY <5>1, <5>2, <5>3
      <4>2. ps[i] = Outgoing(v, v.out[L + i])
        BY <2>10, <4>1 DEF ps
      <4>3. DataAt(g, u.f, v.out[L + i].pos) = d + i - 1
        BY <2>16, <4>1
      <4>4. ps[i].ok /\ ps[i].chk = v.sess.chk /\ ps[i].k = "D" /\ ps[i].f = v.f /\ ps[i].pos = v.out[L + i].pos
        <5>1. ps[i].k = "D"
          BY <2>13, <3>2
        <5> QED
          BY <4>2, <5>1 DEF Outgoing, Packet
      <4>5. At(g, ps[i]) = DataAt(g, u.f, v.out[L + i].pos)
        BY <2>14, <4>4 DEF At, Place
      <4> QED
        BY <4>3, <4>4, <4>5
    <3> QED
      BY <2>6, <3>1, <3>2 DEF Exactly
  <2>18. ASSUME NEW m \in Unacked(g, v)
         PROVE  \/ \E i \in DOMAIN u.out : m = DataAt(g, u.f, u.out[i].pos)
                \/ m >= d
    <3>1. PICK i \in DOMAIN v.out : m = DataAt(g, u.f, v.out[i].pos)
      BY <2>2, <2>18
    <3>2. CASE i > L
      <4>1. m = d + (i - L) - 1 /\ i - L \in Nat /\ i - L >= 1
        BY <2>16, <3>1, <3>2
      <4> QED
        BY <1>3, <4>1
    <3>3. CASE ~(i > L)
      <4>1. i \in DOMAIN u.out
        BY <1>3, <2>5, <3>3
      <4>2. v.out[i] = u.out[i]
        BY <1>1, <2>1, <4>1
      <4> QED
        BY <3>1, <4>1, <4>2
    <3> QED
      BY <3>2, <3>3
  <2> QED
    BY <2>1, <2>9, <2>15, <2>17, <2>18 DEF ps, v, d
<1> QED
  BY <1>5, <1>6

\* Everything v waits for is in ps.
Afresh(g, v, ps, d) == Exactly(g, v, ps, d) /\ \A m \in Unacked(g, v) : m >= d

LEMMA DataPhaseGoes ==
  ASSUME xfer \in Transfers, NEW g, PlanFor(g, xfer), NEW u, Ready(g, u), u.out = <<>>
  PROVE  /\ Proceeds(g, u, DataPhase(u), Entering(DataPhase(u), 0), DataAt(g, u.f, u.off + 1))
         /\ DataPhase(u).pc \in {"W", "D", "Z"}
         /\ Afresh(g, DataPhase(u), Entering(DataPhase(u), 0), DataAt(g, u.f, u.off + 1))
<1>1. /\ u \in Senders(xfer) /\ ~u.sess.stream /\ u.off \in Nat /\ g.chunks \in Nat
      /\ u.off <= g.chunks /\ Skip(g, u.f) <= u.off /\ Skip(g, u.f) \in Nat
      /\ u.sess.window \in Nat /\ u.sess.window >= 1 /\ g.chunks = xfer.chunks
  BY ReadyFacts DEF Ready, PlanFor
<1>2. CASE u.sess.window > 1
  <2> DEFINE t == [u EXCEPT !.pc = "W"]
  <2>1. t \in Senders(xfer) /\ t.pc = "W" /\ t.f = u.f /\ t.sess = u.sess /\ t.ours = u.ours
        /\ t.out = u.out /\ t.off = u.off /\ t.seq = u.seq
    BY <1>1 DEF Senders
  <2>2. DataPhase(u) = WindowLoop(t)
    BY <1>1, <1>2 DEF DataPhase
  <2> HIDE DEF t
  <2>3. Ready(g, t)
    BY <2>1 DEF Ready, OutShape
  <2>4. Len(t.out) = 0
    BY <2>1
  <2>5. Proceeds(g, t, WindowLoop(t), Entering(WindowLoop(t), 0), DataAt(g, u.f, u.off + 1))
        /\ WindowLoop(t).pc \in {"W", "Z"}
    BY <2>1, <2>3, <2>4, WindowLoopGoes
  <2>7. Afresh(g, WindowLoop(t), Entering(WindowLoop(t), 0), DataAt(g, u.f, u.off + 1))
    <3>1. DOMAIN t.out = {}
      BY <2>1
    <3> QED
      BY <2>1, <2>3, <2>4, <3>1, WindowLoopGoes DEF Afresh
  <2>6. Proceeds(g, u, WindowLoop(t), Entering(WindowLoop(t), 0), DataAt(g, u.f, u.off + 1))
    BY <2>1, <2>5 DEF Proceeds
  <2> QED
    BY <2>2, <2>5, <2>6, <2>7
<1>3. CASE ~(u.sess.window > 1)
  <2> DEFINE v == DataPhase(u)
  <2>1. v = [u EXCEPT !.pc = IF u.off < xfer.chunks THEN "D" ELSE "Z"]
    BY <1>1, <1>3 DEF DataPhase
  <2>2. /\ v \in Senders(xfer) /\ v.pc = (IF u.off < xfer.chunks THEN "D" ELSE "Z")
        /\ v.f = u.f /\ v.sess = u.sess /\ v.ours = u.ours /\ v.out = <<>> /\ v.off = u.off /\ v.seq = u.seq
    BY <1>1, <2>1 DEF Senders, StopAndWait
  <2> HIDE DEF v
  <2>3. Waits(g, v) = DataAt(g, u.f, u.off + 1)
    <3>1. CASE u.off < xfer.chunks
      BY <2>2, <3>1 DEF Waits, Place
    <3>2. CASE ~(u.off < xfer.chunks)
      <4>1. u.off = g.chunks
        BY <1>1, <3>2
      <4> QED
        BY <2>2, <3>2, <4>1 DEF Waits, Place, EndAt
    <3> QED
      BY <3>1, <3>2
  <2>4. SenderShape(g, v)
    <3>1. OutShape(g, v)
      BY <2>2 DEF OutShape
    <3>2. v.pc = "D" => v.off \in Skip(g, v.f) .. g.chunks - 1
      BY <1>1, <2>2
    <3>3. v.seq = Waits(g, v) % Numbers
      BY <2>2, <2>3 DEF Ready
    <3> QED
      BY <2>2, <3>1, <3>2, <3>3 DEF SenderShape
  <2>5. v.pc \in StopAndWait /\ v.pc \in {"D", "Z"}
    BY <2>2 DEF StopAndWait
  <2>6. Proceeds(g, u, v, Entering(v, 0), Waits(g, v)) /\ Exactly(g, v, Entering(v, 0), Waits(g, v))
    BY <2>2, <2>4, <2>5, OneProceeds
  <2>7. Afresh(g, v, Entering(v, 0), Waits(g, v))
    <3>1. Unacked(g, v) = {Waits(g, v)} /\ Waits(g, v) >= Waits(g, v)
      BY <2>2, <2>4, <2>5, WaitsFacts DEF Unacked
    <3> QED
      BY <2>6, <3>1 DEF Afresh
  <2> QED
    BY <2>3, <2>5, <2>6, <2>7 DEF v
<1> QED
  BY <1>2, <1>3

LEMMA SuccPlace ==
  ASSUME NEW a \in Int
  PROVE  Succ(a % Numbers) = (a + 1) % Numbers /\ Succ(a % Numbers) \in 0..Numbers - 1
<1>1. Succ(a % Numbers) = (a + 1) % Numbers
  BY NumberPlus DEF Succ
<1>2. a + 1 \in Int
  OBVIOUS
<1> QED
  BY <1>1, <1>2, DivMod

\* What an acknowledged packet other than S and B leads to.
LEMMA AckedGoes ==
  ASSUME xfer \in Transfers, NEW g, PlanFor(g, xfer), NEW u \in Senders(xfer), SenderShape(g, u),
         u.pc \in {"F", "A", "D", "Z"}, ~u.sess.stream, 2 * u.sess.window < Numbers,
         u.sess.attrs <=> g.att = 1, NEW ack, u.pc = "A" => ack.pos = Skip(g, u.f)
  PROVE  /\ Proceeds(g, u, Acked(u, ack), Entering(Acked(u, ack), 0), Waits(g, u) + 1)
         /\ Acked(u, ack).pc \in {"F", "A", "D", "Z", "B", "W"}
         /\ Afresh(g, Acked(u, ack), Entering(Acked(u, ack), 0), Waits(g, u) + 1)
<1> DEFINE t == [u EXCEPT !.seq = Succ(@), !.att = 0]
           v == Acked(u, ack)
           a == Waits(g, u)
<1>1. /\ g \in Plans /\ g.chunks = xfer.chunks /\ g.files = xfer.files /\ u.pc \in StopAndWait
      /\ g.att \in {0, 1} /\ g.chunks \in Nat /\ g.files \in Nat
  BY PlanFacts DEF PlanFor, StopAndWait
<1>2. u.f \in Nat \ {0} /\ u.f <= g.files /\ u.off \in Nat /\ u.out = <<>>
  BY <1>1, SenderFields DEF SenderShape
<1>3. a \in Nat /\ u.seq = a % Numbers
  BY <1>1, WaitsFacts DEF SenderShape
<1>4. Skip(g, u.f) \in Nat /\ Skip(g, u.f) <= g.chunks /\ (g.att = 0 => Skip(g, u.f) = 0)
  BY <1>1, <1>2, PlanFacts DEF Skip
<1>5. /\ First(g, u.f) \in Nat
      /\ First(g, u.f + 1) = First(g, u.f) + 2 + g.att + g.chunks - Skip(g, u.f)
      /\ EndAt(g, u.f) = First(g, u.f) + g.att + g.chunks + 1 - Skip(g, u.f)
  BY <1>1, <1>2, FirstFacts
<1> HIDE DEF a
<1>6. Succ(u.seq) = (a + 1) % Numbers /\ Succ(u.seq) \in 0..Numbers - 1
  BY <1>3, SuccPlace
<1>7. /\ t \in Senders(xfer) /\ t.seq = (a + 1) % Numbers /\ t.pc = u.pc /\ t.f = u.f
      /\ t.off = u.off /\ t.sess = u.sess /\ t.ours = u.ours /\ t.out = <<>>
  BY <1>2, <1>6 DEF Senders
<1>8. v = CASE u.pc = "F" -> (IF u.sess.attrs THEN [t EXCEPT !.pc = "A"] ELSE DataPhase(t))
            [] u.pc = "A" -> DataPhase([t EXCEPT !.off = Lower(ack.pos, xfer.chunks)])
            [] u.pc = "D" -> DataPhase([t EXCEPT !.off = @ + 1])
            [] u.pc = "Z" -> NextFile(t)
  BY DEF Acked
<1> HIDE DEF t, v
\* The data of the file from off on, when the next place is that of the chunk after off.
<1>9. ASSUME NEW z, z \in Senders(xfer), z.seq = t.seq, z.f = u.f, z.sess = u.sess, z.ours = u.ours,
             z.out = <<>>, z.off \in Skip(g, u.f) .. g.chunks, DataAt(g, u.f, z.off + 1) = a + 1
      PROVE  /\ Proceeds(g, u, DataPhase(z), Entering(DataPhase(z), 0), a + 1)
             /\ DataPhase(z).pc \in {"D", "Z", "W"}
             /\ Afresh(g, DataPhase(z), Entering(DataPhase(z), 0), a + 1)
  <2>1. OutShape(g, z)
    BY <1>9 DEF OutShape
  <2>2. Ready(g, z)
    BY <1>7, <1>9, <2>1 DEF Ready
  <2>3. /\ Proceeds(g, z, DataPhase(z), Entering(DataPhase(z), 0), a + 1)
        /\ DataPhase(z).pc \in {"D", "Z", "W"}
        /\ Afresh(g, DataPhase(z), Entering(DataPhase(z), 0), a + 1)
    BY <1>9, <2>2, DataPhaseGoes
  <2> QED
    BY <1>9, <2>3 DEF Proceeds
\* One packet.
<1>10. ASSUME NEW z, z \in Senders(xfer), z.seq = t.seq, z.sess = u.sess, z.ours = u.ours, z.out = <<>>,
              z.pc \in {"F", "A", "B"}, z.pc = "F" => z.off = 0, z.pc = "A" => g.att = 1,
              z.pc = "B" => z.f = g.files, Waits(g, z) = a + 1
       PROVE  Proceeds(g, u, z, Entering(z, 0), a + 1) /\ Afresh(g, z, Entering(z, 0), a + 1)
  <2>1. z.pc \in StopAndWait
    BY <1>10 DEF StopAndWait
  <2>2. OutShape(g, z)
    BY <1>10 DEF OutShape
  <2>3. SenderShape(g, z)
    BY <1>7, <1>10, <2>1, <2>2 DEF SenderShape
  <2>4. Proceeds(g, z, z, Entering(z, 0), a + 1) /\ Exactly(g, z, Entering(z, 0), a + 1)
    BY <1>10, <2>1, <2>3, OneProceeds
  <2>5. Afresh(g, z, Entering(z, 0), a + 1)
    <3>1. Unacked(g, z) = {a + 1} /\ a + 1 >= a + 1
      BY <1>3, <1>10 DEF Unacked
    <3> QED
      BY <2>4, <3>1 DEF Afresh
  <2> QED
    BY <1>10, <2>4, <2>5 DEF Proceeds
<1>11. CASE u.pc = "F" /\ u.sess.attrs
  <2>1. v = [t EXCEPT !.pc = "A"]
    BY <1>8, <1>11
  <2>2. /\ v \in Senders(xfer) /\ v.seq = t.seq /\ v.sess = u.sess /\ v.ours = u.ours /\ v.out = <<>>
        /\ v.pc = "A" /\ v.f = u.f
    BY <1>7, <2>1 DEF Senders, StopAndWait
  <2>3. a = First(g, u.f) /\ Waits(g, v) = First(g, u.f) + 1
    BY <1>11, <2>2 DEF a, Waits, Place
  <2>4. g.att = 1 /\ Waits(g, v) = a + 1
    BY <1>11, <2>3
  <2>5. Proceeds(g, u, v, Entering(v, 0), a + 1) /\ Afresh(g, v, Entering(v, 0), a + 1)
    BY <2>2, <2>4, <1>10
  <2> QED
    BY <2>2, <2>5 DEF v, a
<1>12. CASE u.pc = "F" /\ ~u.sess.attrs
  <2>1. v = DataPhase(t)
    BY <1>8, <1>12
  <2>2. t.off = 0 /\ g.att = 0 /\ Skip(g, u.f) = 0
    BY <1>1, <1>4, <1>7, <1>12 DEF SenderShape
  <2>3. a = First(g, u.f)
    BY <1>12 DEF a, Waits, Place
  <2>4. DataAt(g, u.f, t.off + 1) = a + 1 /\ t.off \in Skip(g, u.f) .. g.chunks
    BY <1>1, <1>5, <2>2, <2>3 DEF DataAt
  <2>5. Afresh(g, v, Entering(v, 0), a + 1) /\ Proceeds(g, u, v, Entering(v, 0), a + 1) /\ v.pc \in {"D", "Z", "W"}
    BY <1>7, <2>1, <2>4, <1>9
  <2> QED
    BY <2>5 DEF v, a
<1>13. CASE u.pc = "A"
  <2> DEFINE z == [t EXCEPT !.off = Lower(ack.pos, xfer.chunks)]
  <2>1. v = DataPhase(z)
    BY <1>8, <1>13
  <2>2. Lower(ack.pos, xfer.chunks) = Skip(g, u.f) /\ Skip(g, u.f) \in 0..xfer.chunks /\ g.att = 1
    BY <1>1, <1>4, <1>13 DEF Lower, SenderShape
  <2>3. /\ z \in Senders(xfer) /\ z.seq = t.seq /\ z.sess = u.sess /\ z.ours = u.ours /\ z.out = <<>>
        /\ z.f = u.f /\ z.off = Skip(g, u.f)
    BY <1>7, <2>2 DEF Senders
  <2> HIDE DEF z
  <2>4. a = First(g, u.f) + 1
    BY <1>13 DEF a, Waits, Place
  <2>5. DataAt(g, u.f, z.off + 1) = a + 1 /\ z.off \in Skip(g, u.f) .. g.chunks
    BY <1>1, <1>4, <1>5, <2>2, <2>3, <2>4 DEF DataAt
  <2>6. Afresh(g, v, Entering(v, 0), a + 1) /\ Proceeds(g, u, v, Entering(v, 0), a + 1) /\ v.pc \in {"D", "Z", "W"}
    BY <2>1, <2>3, <2>5, <1>9
  <2> QED
    BY <2>6 DEF v, a
<1>14. CASE u.pc = "D"
  <2> DEFINE z == [t EXCEPT !.off = @ + 1]
  <2>1. v = DataPhase(z)
    BY <1>8, <1>14
  <2>2. u.off \in Skip(g, u.f) .. g.chunks - 1
    BY <1>14 DEF SenderShape
  <2>3. u.off + 1 \in 0..xfer.chunks /\ u.off + 1 \in Skip(g, u.f) .. g.chunks
    BY <1>1, <1>2, <1>4, <2>2
  <2>4. /\ z \in Senders(xfer) /\ z.seq = t.seq /\ z.sess = u.sess /\ z.ours = u.ours /\ z.out = <<>>
        /\ z.f = u.f /\ z.off = u.off + 1
    BY <1>7, <2>3 DEF Senders
  <2> HIDE DEF z
  <2>5. a = DataAt(g, u.f, u.off + 1)
    BY <1>14 DEF a, Waits, Place
  <2>6. DataAt(g, u.f, z.off + 1) = a + 1
    <3> DEFINE o == u.off
               b == First(g, u.f)
               k == Skip(g, u.f)
               w == g.att
    <3>1. o \in Nat /\ b \in Nat /\ k \in Nat /\ w \in Nat
      BY <1>1, <1>2, <1>4, <1>5, SMTT(30)
    <3>2. a = b + w + (o + 1) - k /\ DataAt(g, u.f, z.off + 1) = b + w + (o + 1 + 1) - k
      BY <2>4, <2>5 DEF DataAt
    <3> HIDE DEF o, b, k, w
    <3> QED
      BY <3>1, <3>2
  <2>7. Afresh(g, v, Entering(v, 0), a + 1) /\ Proceeds(g, u, v, Entering(v, 0), a + 1) /\ v.pc \in {"D", "Z", "W"}
    BY <2>1, <2>3, <2>4, <2>6, <1>9
  <2> QED
    BY <2>7 DEF v, a
<1>15. CASE u.pc = "Z"
  <2>1. a = EndAt(g, u.f)
    BY <1>15 DEF a, Waits, Place
  <2>2. a + 1 = First(g, u.f + 1)
    BY <1>1, <1>4, <1>5, <2>1
  <2>3. CASE u.f < xfer.files
    <3>1. v = [t EXCEPT !.pc = "F", !.f = @ + 1, !.off = 0]
      BY <1>7, <1>8, <1>15, <2>3 DEF NextFile
    <3>2. t.f + 1 \in 1..xfer.files /\ t.f + 1 = u.f + 1 /\ 0 \in 0..xfer.chunks
      BY <1>1, <1>2, <1>7, <2>3
    <3>3. /\ v \in Senders(xfer) /\ v.seq = t.seq /\ v.sess = u.sess /\ v.ours = u.ours /\ v.out = <<>>
          /\ v.pc = "F" /\ v.f = u.f + 1 /\ v.off = 0
      BY <1>1, <1>7, <3>1, <3>2 DEF Senders, StopAndWait
    <3>4. Waits(g, v) = a + 1
      BY <2>2, <3>3 DEF Waits, Place
    <3>5. Proceeds(g, u, v, Entering(v, 0), a + 1) /\ Afresh(g, v, Entering(v, 0), a + 1)
      BY <3>3, <3>4, <1>10
    <3> QED
      BY <3>3, <3>5 DEF v, a
  <2>4. CASE ~(u.f < xfer.files)
    <3>1. v = [t EXCEPT !.pc = "B"]
      BY <1>7, <1>8, <1>15, <2>4 DEF NextFile
    <3>2. u.f = g.files
      BY <1>1, <1>2, <2>4
    <3>3. /\ v \in Senders(xfer) /\ v.seq = t.seq /\ v.sess = u.sess /\ v.ours = u.ours /\ v.out = <<>>
          /\ v.pc = "B" /\ v.f = g.files
      BY <1>7, <3>1, <3>2 DEF Senders, StopAndWait
    <3>4. Waits(g, v) = a + 1
      BY <2>2, <3>2, <3>3 DEF Waits, Place, BreakAt
    <3>5. Proceeds(g, u, v, Entering(v, 0), a + 1) /\ Afresh(g, v, Entering(v, 0), a + 1)
      BY <3>3, <3>4, <1>10
    <3> QED
      BY <3>3, <3>5 DEF v, a
  <2> QED
    BY <2>3, <2>4
<1> QED
  BY <1>11, <1>12, <1>13, <1>14, <1>15

-----------------------------------------------------------------------------
(* The sender's actions.                                                    *)

LEMMA ProceedsLater ==
  ASSUME NEW g, NEW u, NEW v, NEW ps, NEW d \in Nat, NEW e \in Nat, d <= e,
         SendNext(g, v) \in Nat, e <= SendNext(g, v), Proceeds(g, u, v, ps, d)
  PROVE  Proceeds(g, u, v, ps, e)
<1>1. \A m \in e .. SendNext(g, v) - 1 : m \in d .. SendNext(g, v) - 1
  OBVIOUS
<1> QED
  BY <1>1 DEF Proceeds

LEMMA SenderProceeds ==
  ASSUME xfer \in Transfers, NEW g, PlanFor(g, xfer), NEW u, NEW v, NEW t, NEW qR, NEW qR2, NEW qS,
         NEW qS2, NEW h, NEW ps, NEW c, Core(g, xfer, u, t, qR, qS, h), Alive(u.pc),
         Proceeds(g, u, v, ps, SendNext(g, u)),
         \A m \in Unacked(g, u) : m # c => m \in Unacked(g, v),
         v.pc \in {"poke", "S"} => u.pc \in {"poke", "S"},
         \A i \in DOMAIN ps : ps[i].k = "S" => ps[i].caps \in {xfer.ours, Classic},
         qR2 = qR \/ qR2 = qR \o ps,
         \/ c = None /\ qS2 = qS
         \/ qS # <<>> /\ qS2 = Tail(qS) /\ c \in Unacked(g, u) /\ Confirms(Head(qS), c)
  PROVE  Core(g, xfer, v, t, qR2, qS2, h)
<1>1. /\ v \in Senders(xfer) /\ Alive(v.pc) /\ SenderShape(g, v) /\ v.sess = u.sess
      /\ ps \in Seq(ToR)
  BY DEF Proceeds
<1>2. SenderMove(g, u, v, ps, c)
  BY DEF Proceeds, SenderMove
<1>3. qR \in Seq(ToR) /\ Sessions(xfer, u, t, qR)
  BY DEF Core, Types
<1>4. \A j \in DOMAIN qR2 : qR2[j].k = "S" => qR2[j].caps \in {xfer.ours, Classic}
  <2>1. CASE qR2 = qR
    BY <1>3, <2>1 DEF Sessions
  <2>2. CASE qR2 = qR \o ps
    <3>1. \A j \in DOMAIN qR2 : \/ j \in DOMAIN qR /\ qR2[j] = qR[j]
                                \/ j - Len(qR) \in DOMAIN ps /\ qR2[j] = ps[j - Len(qR)]
      BY <1>1, <1>3, <2>2, ConcatFacts
    <3> QED
      BY <1>3, <3>1 DEF Sessions
  <2> QED
    BY <2>1, <2>2
<1>5. Sessions(xfer, v, t, qR2)
  BY <1>1, <1>3, <1>4 DEF Sessions
<1>6. v.pc = "S" => u.pc \in {"poke", "S"}
  OBVIOUS
<1> QED
  BY <1>1, <1>2, <1>5, <1>6, SenderSteps

\* The same, when nothing was read.
LEMMA SenderRepeats ==
  ASSUME xfer \in Transfers, NEW g, PlanFor(g, xfer), NEW u, NEW v, NEW t, NEW qR, NEW qR2, NEW qS,
         NEW h, NEW ps, Core(g, xfer, u, t, qR, qS, h), Alive(u.pc),
         Proceeds(g, u, v, ps, SendNext(g, u)),
         \A m \in Unacked(g, u) : m \in Unacked(g, v),
         v.pc \in {"poke", "S"} => u.pc \in {"poke", "S"},
         \A i \in DOMAIN ps : ps[i].k = "S" => ps[i].caps \in {xfer.ours, Classic},
         qR2 = qR \/ qR2 = qR \o ps
  PROVE  Core(g, xfer, v, t, qR2, qS, h)
<1> DEFINE c == None
<1>1. c = None /\ qS = qS /\ \A m \in Unacked(g, u) : m # c => m \in Unacked(g, v)
  OBVIOUS
<1> HIDE DEF c
<1> QED
  BY <1>1, SenderProceeds, ZenonT(150)

\* A state that waits for one packet, of another that waits for it or for nothing yet.
LEMMA OneAgain ==
  ASSUME xfer \in Transfers, NEW g, PlanFor(g, xfer), NEW u, NEW v \in Senders(xfer), NEW t, NEW qR,
         NEW qR2, NEW qS, NEW h, Core(g, xfer, u, t, qR, qS, h), SenderShape(g, v),
         v.pc \in StopAndWait, v.sess = u.sess,
         \/ u.pc = v.pc /\ Waits(g, v) = Waits(g, u)
         \/ u.pc = "poke" /\ v.pc = "S",
         qR2 = qR \/ qR2 = qR \o Entering(v, 0)
  PROVE  Core(g, xfer, v, t, qR2, qS, h)
<1>1. Alive(u.pc) /\ Alive(v.pc) /\ v.pc \notin {"poke", "W"}
  BY DEF StopAndWait, Alive, Done
<1>2. Waits(g, v) \in Nat /\ SendNext(g, v) = Waits(g, v) + 1 /\ Unacked(g, v) = {Waits(g, v)}
  BY <1>1, WaitsFacts DEF SendNext, Unacked
<1>3. SendNext(g, v) \in Nat
  BY <1>2
<1>4. Proceeds(g, u, v, Entering(v, 0), Waits(g, v))
  BY OneProceeds
<1>5. /\ Entering(v, 0) = <<Current(v)>>
      /\ Current(v).k = v.pc /\ (v.pc = "S" => Current(v).caps \in {xfer.ours, Classic})
  BY CurrentGood DEF Entering
<1>6. \A i \in DOMAIN Entering(v, 0) :
        Entering(v, 0)[i].k = "S" => Entering(v, 0)[i].caps \in {xfer.ours, Classic}
  BY <1>5
<1>7. CASE u.pc = v.pc /\ Waits(g, v) = Waits(g, u)
  <2>1. SendNext(g, u) = SendNext(g, v) /\ Unacked(g, u) = Unacked(g, v)
    BY <1>1, <1>2, <1>7 DEF SendNext, Unacked
  <2>2. Proceeds(g, u, v, Entering(v, 0), SendNext(g, u))
    BY <1>2, <1>3, <1>4, <2>1, ProceedsLater
  <2> QED
    BY <1>1, <1>6, <1>7, <2>1, <2>2, SenderProceeds
<1>8. CASE u.pc = "poke" /\ v.pc = "S"
  <2>1. SendNext(g, u) = 0 /\ Unacked(g, u) = {} /\ Waits(g, v) = 0
    BY <1>8 DEF SendNext, Unacked, Waits, Place
  <2>2. Proceeds(g, u, v, Entering(v, 0), SendNext(g, u))
    BY <1>4, <2>1
  <2> QED
    BY <1>1, <1>6, <1>8, <2>1, <2>2, SenderProceeds
<1> QED
  BY <1>7, <1>8

LEMMA FailsKeeps ==
  ASSUME xfer \in Transfers, NEW g, PlanFor(g, xfer), NEW t, NEW qS, NEW qS2, NEW h,
         Core(g, xfer, s, t, toR, qS, h), qS2 \in Seq(ToS), NEW byPeer, SenderFails(byPeer)
  PROVE  Core(g, xfer, s', t, toR', qS2, h) /\ s'.sess = s.sess
<1> DEFINE v == [s EXCEPT !.pc = "err", !.out = <<>>]
           p == Reply("E", 0, s.sess.chk)
<1>1. s \in Senders(xfer)
  BY DEF Core, Types
<1>2. s.sess \in Caps /\ s.sess.chk \in 1..3 /\ Classic \in Caps
  BY <1>1, SenderFields, CapsFacts, TransferFacts
<1>3. v \in Senders(xfer) /\ v.sess = s.sess /\ v.pc = "err"
  <2>1. <<>> \in Seq(Entries) /\ "err" \in Done
    BY DEF Done
  <2> QED
    BY <1>1, <2>1 DEF Senders
<1>4. p \in ToR /\ p.k = "E"
  BY <1>2 DEF Reply, Packet, ToR, PacketsOf
<1>5. s' = v /\ (toR' = toR \/ toR' = toR \o <<p>>)
  BY DEF SenderFails, WriteToR
<1> HIDE DEF v, p
<1>6. Core(g, xfer, v, t, toR', qS2, h)
  BY <1>3, <1>4, <1>5, SenderEnds
<1> QED
  BY <1>3, <1>5, <1>6

LEMMA ResendKeeps ==
  ASSUME xfer \in Transfers, NEW g, PlanFor(g, xfer), NEW t, NEW qS, NEW h,
         Core(g, xfer, s, t, toR, qS, h), s.pc \in StopAndWait, NEW silent, Resend(silent)
  PROVE  Core(g, xfer, s', t, toR', qS, h) /\ s'.sess = s.sess
<1>1. s \in Senders(xfer) /\ qS \in Seq(ToS) /\ Alive(s.pc)
  BY DEF Core, Types, StopAndWait, Alive, Done
<1>2. SenderShape(g, s)
  BY <1>1 DEF Core
<1> DEFINE v == [s EXCEPT !.att = @ + 1]
           z == [s EXCEPT !.att = 0, !.legacy = TRUE, !.ours = Classic]
<1>3. \/ s' = v /\ toR' = WriteToR(<<Current(v)>>)
      \/ s' = z /\ toR' = WriteToR(<<Current(z)>>)
      \/ SenderFails(FALSE)
  BY DEF Resend
<1>4. CASE SenderFails(FALSE)
  BY <1>1, <1>4, FailsKeeps
<1>5. ASSUME NEW k, k \in Senders(xfer), k.pc = s.pc, k.f = s.f, k.off = s.off, k.seq = s.seq,
             k.out = s.out, k.sess = s.sess, s' = k, toR' = WriteToR(<<Current(k)>>)
      PROVE  Core(g, xfer, s', t, toR', qS, h) /\ s'.sess = s.sess
  <2>1. Waits(g, k) = Waits(g, s) /\ SendNext(g, k) = SendNext(g, s)
    BY <1>5 DEF Waits, SendNext
  <2>2. OutShape(g, k)
    BY <1>2, <1>5 DEF SenderShape, OutShape
  <2>3. SenderShape(g, k)
    BY <1>2, <1>5, <2>1, <2>2 DEF SenderShape
  <2>4. toR' = toR \/ toR' = toR \o Entering(k, 0)
    BY <1>5 DEF WriteToR, Entering
  <2>5. Core(g, xfer, k, t, toR', qS, h)
    BY <1>5, <2>1, <2>3, <2>4, OneAgain
  <2> QED
    BY <1>5, <2>5
<1>6. /\ v \in Senders(xfer) /\ v.pc = s.pc /\ v.f = s.f /\ v.off = s.off /\ v.seq = s.seq
      /\ v.out = s.out /\ v.sess = s.sess
  <2>1. s.att + 1 \in Nat
    BY <1>1, SenderFields
  <2> QED
    BY <1>1, <2>1 DEF Senders
<1>7. /\ z \in Senders(xfer) /\ z.pc = s.pc /\ z.f = s.f /\ z.off = s.off /\ z.seq = s.seq
      /\ z.out = s.out /\ z.sess = s.sess
  BY <1>1 DEF Senders
<1> HIDE DEF v, z
<1> QED
  BY <1>3, <1>4, <1>5, <1>6, <1>7

LEMMA PokedKeeps ==
  ASSUME xfer \in Transfers, NEW g, PlanFor(g, xfer), NEW t, NEW qS, NEW h,
         Core(g, xfer, s, t, toR, qS, h), s.pc = "poke", Enter([s EXCEPT !.pc = "S"], 0)
  PROVE  Core(g, xfer, s', t, toR', qS, h) /\ s'.sess = s.sess
<1> DEFINE v == [s EXCEPT !.pc = "S"]
<1>1. s \in Senders(xfer) /\ Alive(s.pc)
  BY DEF Core, Types, Alive, Done
<1>2. SenderShape(g, s)
  BY <1>1 DEF Core
<1>3. /\ v \in Senders(xfer) /\ v.pc = "S" /\ v.f = s.f /\ v.off = s.off /\ v.seq = s.seq
      /\ v.out = s.out /\ v.sess = s.sess
  BY <1>1 DEF Senders, StopAndWait
<1>4. s' = v /\ (toR' = toR \/ toR' = toR \o Entering(v, 0))
  BY DEF Enter, WriteToR
<1> HIDE DEF v
<1>5. v.pc \in StopAndWait /\ Waits(g, v) = 0
  BY <1>3 DEF StopAndWait, Waits, Place
<1>6. SenderShape(g, v)
  <2>1. OutShape(g, v)
    BY <1>2, <1>3 DEF SenderShape, OutShape
  <2>2. v.out = <<>> /\ v.seq = 0 /\ 0 % Numbers = 0
    BY <1>2, <1>3, NumbersType DEF SenderShape
  <2> QED
    BY <1>2, <1>3, <1>5, <2>1, <2>2 DEF SenderShape
<1>7. Core(g, xfer, v, t, toR', qS, h)
  BY <1>3, <1>4, <1>5, <1>6, OneAgain
<1> QED
  BY <1>3, <1>4, <1>7

LEMMA IntersectFacts ==
  ASSUME NEW a \in Caps, NEW b \in Caps
  PROVE  /\ intersect_capabilities(a, b) \in Caps
         /\ intersect_capabilities(a, b).window <= a.window
         /\ intersect_capabilities(a, b).window <= b.window
         /\ intersect_capabilities(a, b).attrs <=> a.attrs /\ b.attrs
         /\ intersect_capabilities(a, b).stream <=> a.stream /\ b.stream
         /\ intersect_capabilities(a, b).resend <=> a.resend /\ b.resend
<1> DEFINE w == Lower(a.window, b.window)
           k == Lower(a.chk, b.chk)
<1>1. w \in Nat \ {0} /\ w <= a.window /\ w <= b.window
  BY CapsFacts DEF Lower
<1>2. k \in 1..3
  BY CapsFacts DEF Lower
<1>3. intersect_capabilities(a, b) =
        [window |-> w, chk |-> k, attrs |-> a.attrs /\ b.attrs, stream |-> a.stream /\ b.stream,
         resend |-> a.resend /\ b.resend]
  BY DEF intersect_capabilities
<1> HIDE DEF w, k
<1>4. (a.attrs /\ b.attrs) \in BOOLEAN /\ (a.stream /\ b.stream) \in BOOLEAN /\ (a.resend /\ b.resend) \in BOOLEAN
  OBVIOUS
<1> QED
  BY <1>1, <1>2, <1>3, <1>4 DEF Caps

\* What the sender takes for an acknowledgement confirms the packet it waits for.
LEMMA AcknowledgedIs ==
  ASSUME xfer \in Transfers, NEW g, PlanFor(g, xfer), NEW t, NEW h,
         Core(g, xfer, s, t, toR, toS, h), s.pc \in StopAndWait, toS # <<>>, Acknowledges(Head(toS))
  PROVE  LET c == Waits(g, s) IN
         /\ c \in Nat /\ SendNext(g, s) = c + 1 /\ Unacked(g, s) = {c} /\ Confirms(Head(toS), c)
         /\ SenderShape(g, s) /\ Alive(s.pc) /\ s \in Senders(xfer) /\ toS \in Seq(ToS)
         /\ \E m \in Nat : /\ ReplyTells(g, s, t, Head(toS), m)
                           /\ Head(toS).k = "Y" => m = c
                           /\ Head(toS).k = "N" => m = c + 1
                           /\ Alive(t.pc) => Rcvd(g, t, c)
<1> DEFINE c == Waits(g, s)
           p == Head(toS)
<1>1. Alive(s.pc) /\ s \in Senders(xfer) /\ toS \in Seq(ToS) /\ s.pc \notin {"poke", "W"}
  BY DEF StopAndWait, Alive, Done, Core, Types
<1>2. SenderShape(g, s) /\ RepliesSound(g, s, t, h, toS)
  BY <1>1 DEF Core
<1>3. c \in Nat
  BY <1>1, <1>2, WaitsFacts
<1>4. s.seq = c % Numbers /\ Succ(s.seq) = (c + 1) % Numbers
  BY <1>2, <1>3, SuccPlace DEF SenderShape
<1>5. SendNext(g, s) = c + 1 /\ Unacked(g, s) = {c}
  BY <1>1 DEF SendNext, Unacked
<1>6. p = toS[1] /\ 1 \in DOMAIN toS
  BY <1>1, TailFacts
<1>7. Confirms(p, c)
  <2>1. CASE s.pc # "S"
    BY <1>4, <2>1 DEF Acknowledges, Confirms
  <2>2. CASE s.pc = "S"
    <3>1. p.k = "Y" /\ c = 0
      BY <2>2 DEF Acknowledges, Waits, Place
    <3>2. PICK m \in Nat, e \in Nat : ReplySound(g, s, t, h, toS[1], m, e)
      BY <1>2, <1>6, <3>1 DEF RepliesSound
    <3>3. p.seq = m % Numbers /\ m < c + 1
      BY <1>5, <1>6, <3>1, <3>2 DEF ReplySound
    <3>4. m = c
      BY <3>1, <3>3
    <3> QED
      BY <3>1, <3>3, <3>4 DEF Confirms
  <2> QED
    BY <2>1, <2>2
<1>8. \E m \in Nat : /\ ReplyTells(g, s, t, p, m)
                     /\ p.k = "Y" => m = c
                     /\ p.k = "N" => m = c + 1
                     /\ Alive(t.pc) => Rcvd(g, t, c)
  BY <1>1, <1>5, <1>7, HeadConfirms
<1> QED
  BY <1>1, <1>2, <1>3, <1>5, <1>7, <1>8

\* F, A, D and Z.
LEMMA AckedKeeps ==
  ASSUME xfer \in Transfers, NEW g, PlanFor(g, xfer), NEW t, NEW h,
         Core(g, xfer, s, t, toR, toS, h), s.pc \in {"F", "A", "D", "Z"}, toS # <<>>,
         Acknowledges(Head(toS)), s.sess.attrs <=> g.att = 1,
         Enter(Acked(s, Head(toS)), 0)
  PROVE  Core(g, xfer, s', t, toR', Tail(toS), h) /\ s'.sess = s.sess
<1> DEFINE c == Waits(g, s)
           p == Head(toS)
           v == Acked(s, p)
           ps == Entering(v, 0)
<1>1. s.pc \in StopAndWait
  BY DEF StopAndWait
<1>2. /\ c \in Nat /\ SendNext(g, s) = c + 1 /\ Unacked(g, s) = {c} /\ Confirms(p, c)
      /\ SenderShape(g, s) /\ Alive(s.pc) /\ s \in Senders(xfer)
  BY <1>1, AcknowledgedIs
<1>3. PICK m \in Nat : /\ ReplyTells(g, s, t, p, m)
                       /\ p.k = "Y" => m = c
  BY <1>1, AcknowledgedIs
<1>4. s.pc = "A" => p.pos = Skip(g, s.f)
  <2> SUFFICES ASSUME s.pc = "A" PROVE p.pos = Skip(g, s.f)
    OBVIOUS
  <2>1. p.k = "Y" /\ c = First(g, s.f) + 1 /\ g.att = 1 /\ s.f \in 1..g.files
    BY <1>2, SenderFields DEF Acknowledges, Waits, Place, SenderShape, PlanFor
  <2> QED
    BY <1>3, <2>1 DEF ReplyTells
<1>5. ~s.sess.stream /\ 2 * s.sess.window < Numbers
  <2>1. Sessions(xfer, s, t, toR)
    BY DEF Core
  <2>2. s.sess.window \in Nat /\ t.sess.window \in Nat /\ Numbers \in Nat
    BY <1>2, SenderFields, CapsFacts, CoreFacts, NumbersType
  <2> QED
    BY <2>1, <2>2 DEF Sessions
<1>6. /\ Proceeds(g, s, v, ps, c + 1) /\ v.pc \in {"F", "A", "D", "Z", "B", "W"}
  BY <1>2, <1>4, <1>5, AckedGoes
<1>7. s' = v /\ (toR' = toR \/ toR' = toR \o ps)
  BY DEF Enter, WriteToR
<1> HIDE DEF v, ps, p, c
<1>8. Proceeds(g, s, v, ps, SendNext(g, s))
  BY <1>2, <1>6
<1>9. \A i \in DOMAIN ps : ps[i].k = "S" => ps[i].caps \in {xfer.ours, Classic}
  BY <1>6 DEF Proceeds
<1>10. \A d \in Unacked(g, s) : d # c => d \in Unacked(g, v)
  BY <1>2
<1>11. v.pc \in {"poke", "S"} => s.pc \in {"poke", "S"}
  BY <1>6
<1>12. c \in Unacked(g, s) /\ Confirms(Head(toS), c)
  BY <1>2 DEF p
<1>13. Core(g, xfer, v, t, toR', Tail(toS), h)
  BY <1>2, <1>7, <1>8, <1>9, <1>10, <1>11, <1>12, SenderProceeds, ZenonT(60)
<1>14. v.sess = s.sess
  BY <1>6 DEF Proceeds
<1> QED
  BY <1>7, <1>13, <1>14

\* The B, and with it the transfer.
LEMMA BreakAcked ==
  ASSUME xfer \in Transfers, NEW g, PlanFor(g, xfer), NEW t, NEW h,
         Core(g, xfer, s, t, toR, toS, h), s.pc = "B", toS # <<>>,
         Acknowledges(Head(toS)), s' = Acked(s, Head(toS)), toR' = toR
  PROVE  Core(g, xfer, s', t, toR', Tail(toS), h) /\ s'.sess = s.sess
<1> DEFINE c == Waits(g, s)
           p == Head(toS)
<1>1. s.pc \in StopAndWait
  BY DEF StopAndWait
<1>2. /\ c \in Nat /\ Confirms(p, c) /\ s \in Senders(xfer) /\ toS \in Seq(ToS)
  BY <1>1, AcknowledgedIs
<1>3. PICK m \in Nat : /\ ReplyTells(g, s, t, p, m)
                       /\ p.k = "Y" => m = c
                       /\ p.k = "N" => m = c + 1
  BY <1>1, AcknowledgedIs
<1>4. c = BreakAt(g)
  BY DEF Waits, Place
<1>5. t.pc = "ok"
  <2>1. p.k # "N"
    BY <1>2, <1>3, <1>4 DEF ReplyTells
  <2>2. p.k = "Y" /\ m >= BreakAt(g)
    BY <1>2, <1>3, <1>4, <2>1 DEF Confirms
  <2> QED
    BY <1>3, <2>2 DEF ReplyTells
<1>6. s' = [s EXCEPT !.seq = Succ(@), !.att = 0, !.pc = "ok"]
  BY DEF Acked
<1>7. Succ(s.seq) \in 0..Numbers - 1
  <2>1. s.seq + 1 \in Int
    BY <1>2, SenderFields, NumbersType
  <2> QED
    BY <2>1, DivMod DEF Succ
<1>8. s' \in Senders(xfer) /\ s'.pc = "ok" /\ s'.sess = s.sess
  <2> DEFINE n == Succ(s.seq)
             v == [s EXCEPT !.seq = n, !.att = 0, !.pc = "ok"]
  <2>1. s' = v
    BY <1>6
  <2> HIDE DEF n
  <2>2. v \in Senders(xfer) /\ v.pc = "ok" /\ v.sess = s.sess
    BY <1>2, <1>7 DEF Senders, Done, n
  <2> QED
    BY <2>1, <2>2
<1>9. Tail(toS) \in Seq(ToS)
  BY <1>2, TailFacts
<1>10. Types(xfer, s', t, toR, Tail(toS))
  BY <1>8, <1>9 DEF Core, Types
<1>11. Sessions(xfer, s', t, toR)
  BY <1>8 DEF Core, Sessions
<1>12. ~Alive(s'.pc)
  BY <1>8 DEF Alive, Done
<1> QED
  BY <1>5, <1>8, <1>10, <1>11, <1>12 DEF Core

\* The Send-Init: from here on the two ends have agreed, and the plan is theirs.
LEMMA InitAcked ==
  ASSUME xfer \in Transfers, NEW g, PlanFor(g, xfer), NEW g2, PlanFor(g2, xfer), g.att = 0,
         NEW t, NEW h, Core(g, xfer, s, t, toR, toS, h), s.pc = "S", toS # <<>>,
         Acknowledges(Head(toS)), Enter(Acked(s, Head(toS)), 0)
  PROVE  Core(g2, xfer, s', t, toR', Tail(toS), h)
<1> DEFINE p == Head(toS)
           v == Acked(s, p)
           ps == Entering(v, 0)
<1>1. s.pc \in StopAndWait /\ Waits(g, s) = 0 /\ Waits(g2, s) = 0
  BY DEF StopAndWait, Waits, Place
<1>2. /\ Confirms(p, 0) /\ SenderShape(g, s) /\ Alive(s.pc) /\ s \in Senders(xfer)
  BY <1>1, AcknowledgedIs
<1>3. PICK m \in Nat : ReplyTells(g, s, t, p, m) /\ (Alive(t.pc) => Rcvd(g, t, 0))
  BY <1>1, AcknowledgedIs
<1>4. p.k = "Y" /\ p.caps = t.sess
  BY <1>3 DEF Acknowledges, ReplyTells
<1>5. t.sess \in Caps /\ s.ours \in Caps /\ t.sess.window \in Nat /\ t \in Receivers
  BY <1>2, CoreFacts, SenderFields, TransferFacts
<1>6. t.pc # "init"
  <2> SUFFICES ASSUME t.pc = "init" PROVE FALSE
    OBVIOUS
  <2>1. Alive(t.pc)
    BY DEF Alive, Done
  <2>2. t.buf = {} /\ Exp(g, t) = 0
    BY <2>1 DEF Core, ReceiverShape, Exp
  <2> QED
    BY <1>3, <2>1, <2>2 DEF Rcvd, BufAt
<1>7. Core(g2, xfer, s, t, toR, toS, h)
  BY PlanSwitch
<1> DEFINE sess == intersect_capabilities(s.ours, p.caps)
<1>8. /\ sess \in Caps /\ sess.window <= t.sess.window /\ (sess.attrs => t.sess.attrs)
      /\ (sess.stream => t.sess.stream)
  BY <1>4, <1>5, IntersectFacts
<1>9. v = [s EXCEPT !.seq = Succ(@), !.att = 0, !.pc = "F", !.sess = sess]
  BY DEF Acked
<1> HIDE DEF sess
<1>10. s.seq = 0 /\ s.f = 1 /\ s.off = 0 /\ s.out = <<>>
  BY <1>2 DEF SenderShape
<1>11. Succ(s.seq) = 1 % Numbers /\ Succ(s.seq) \in 0..Numbers - 1
  <2>1. 0 % Numbers = 0 /\ 0 \in Int /\ 0 + 1 = 1
    BY NumbersType
  <2> QED
    BY <1>10, <2>1, SuccPlace
<1>12. /\ v \in Senders(xfer) /\ v.pc = "F" /\ v.f = 1 /\ v.off = 0 /\ v.out = <<>>
       /\ v.sess = sess /\ v.seq = 1 % Numbers
  <2> DEFINE n == Succ(s.seq)
  <2>1. n \in 0..Numbers - 1 /\ n = 1 % Numbers /\ 0 \in Nat
    BY <1>11
  <2>2. v = [s EXCEPT !.seq = n, !.att = 0, !.pc = "F", !.sess = sess]
    BY <1>9
  <2> HIDE DEF n
  <2>3. /\ v \in Senders(xfer) /\ v.pc = "F" /\ v.f = s.f /\ v.off = s.off /\ v.out = s.out
        /\ v.sess = sess /\ v.seq = n
    BY <1>2, <1>8, <2>1, <2>2 DEF Senders, StopAndWait
  <2> QED
    BY <1>10, <2>1, <2>3
<1>13. s' = v /\ (toR' = toR \/ toR' = toR \o ps)
  BY DEF Enter, WriteToR
<1> HIDE DEF v, ps, p
<1>14. Waits(g2, v) = 1 /\ v.pc \in StopAndWait
  BY <1>12 DEF Waits, Place, First, StopAndWait
<1>15. SenderShape(g2, v)
  <2>1. OutShape(g2, v)
    BY <1>12 DEF OutShape
  <2> QED
    BY <1>12, <1>14, <2>1 DEF SenderShape
<1>16. Proceeds(g2, v, v, ps, 1)
  <2>1. Proceeds(g2, v, v, Entering(v, 0), Waits(g2, v))
    BY <1>12, <1>14, <1>15, OneProceeds
  <2> QED
    BY <1>14, <2>1 DEF ps
<1>17. SendNext(g2, s) = 1 /\ Unacked(g2, s) = {0}
  BY <1>1 DEF SendNext, Unacked
<1>18. SenderMove(g2, s, v, ps, 0) /\ ps \in Seq(ToR) /\ Alive(v.pc)
  BY <1>16, <1>17 DEF Proceeds, SenderMove
<1>19. Sessions(xfer, v, t, toR')
  <2>1. Sessions(xfer, s, t, toR) /\ toR \in Seq(ToR)
    BY DEF Core, Types
  <2>2. \A i \in DOMAIN ps : ps[i].k # "S"
    BY <1>12, <1>16 DEF Proceeds
  <2>3. \A j \in DOMAIN toR' : toR'[j].k = "S" => toR'[j].caps \in {xfer.ours, Classic}
    <3>1. CASE toR' = toR
      BY <2>1, <3>1 DEF Sessions
    <3>2. CASE toR' = toR \o ps
      <4>1. \A j \in DOMAIN (toR \o ps) :
               \/ j \in DOMAIN toR /\ (toR \o ps)[j] = toR[j]
               \/ j - Len(toR) \in DOMAIN ps /\ (toR \o ps)[j] = ps[j - Len(toR)]
        BY <1>18, <2>1, ConcatFacts
      <4> QED
        BY <2>1, <2>2, <3>2, <4>1 DEF Sessions
    <3> QED
      BY <1>13, <3>1, <3>2
  <2> QED
    BY <1>6, <1>8, <1>12, <2>1, <2>3 DEF Sessions
<1>20. Core(g2, xfer, v, t, toR', Tail(toS), h)
  <2>1. v.pc = "S" => s.pc \in {"poke", "S"}
    OBVIOUS
  <2>2. 0 \in Unacked(g2, s) /\ Confirms(Head(toS), 0)
    BY <1>2, <1>17 DEF p
  <2> QED
    BY <1>2, <1>7, <1>12, <1>13, <1>15, <1>18, <1>19, <2>1, <2>2, SenderSteps
<1> QED
  BY <1>13, <1>20

LEMMA RemoveAtFacts ==
  ASSUME NEW S, NEW q \in Seq(S), NEW i \in DOMAIN q
  PROVE  /\ RemoveAt(q, i) \in Seq(S)
         /\ \A j \in DOMAIN RemoveAt(q, i) :
              \/ j < i /\ j \in DOMAIN q /\ RemoveAt(q, i)[j] = q[j]
              \/ j >= i /\ j + 1 \in DOMAIN q /\ RemoveAt(q, i)[j] = q[j + 1]
         /\ \A j \in DOMAIN q : j # i => \E n \in DOMAIN RemoveAt(q, i) : RemoveAt(q, i)[n] = q[j]
<1> DEFINE L == Len(q)
           a == SubSeq(q, 1, i - 1)
           b == SubSeq(q, i + 1, L)
<1>1. L \in Nat /\ i \in 1..L /\ DOMAIN q = 1..L
  OBVIOUS
<1>2. a \in Seq(S) /\ Len(a) = i - 1 /\ \A j \in 1..i - 1 : a[j] = q[j]
  BY <1>1
<1>3. b \in Seq(S) /\ Len(b) = L - i /\ \A j \in 1..L - i : b[j] = q[i + j]
  BY <1>1
<1>4. RemoveAt(q, i) = a \o b
  BY DEF RemoveAt
<1> DEFINE z == a \o b
<1> HIDE DEF a, b
<1>5. z \in Seq(S) /\ DOMAIN z = 1..L - 1 /\ \A j \in 1..L - 1 : z[j] = IF j < i THEN a[j] ELSE b[j - (i - 1)]
  <2>1. /\ z \in Seq(S) /\ Len(z) = Len(a) + Len(b)
        /\ \A j \in 1..Len(a) + Len(b) : z[j] = IF j <= Len(a) THEN a[j] ELSE b[j - Len(a)]
    BY <1>2, <1>3, ConcatProperties
  <2>2. Len(a) + Len(b) = L - 1 /\ \A j \in 1..L - 1 : j <= i - 1 <=> j < i
    BY <1>1, <1>2, <1>3
  <2>3. DOMAIN z = 1..L - 1
    BY <2>1, <2>2
  <2> QED
    BY <1>2, <2>1, <2>2, <2>3
<1> HIDE DEF z, L
<1>6. \A j \in 1..L - 1 : z[j] = IF j < i THEN q[j] ELSE q[j + 1]
  <2> TAKE j \in 1..L - 1
  <2>1. j \in Nat /\ i \in Nat /\ L \in Nat /\ j >= 1 /\ j <= L - 1 /\ i >= 1 /\ i <= L
    BY <1>1
  <2>2. CASE j < i
    <3>1. j \in 1..i - 1
      BY <2>1, <2>2
    <3> QED
      BY <1>2, <1>5, <2>2, <3>1
  <2>3. CASE ~(j < i)
    <3>1. j - (i - 1) \in 1..L - i /\ i + (j - (i - 1)) = j + 1
      BY <2>1, <2>3
    <3> QED
      BY <1>3, <1>5, <2>3, <3>1
  <2> QED
    BY <2>2, <2>3
<1>7. \A j \in DOMAIN z : \/ j < i /\ j \in DOMAIN q /\ z[j] = q[j]
                          \/ j >= i /\ j + 1 \in DOMAIN q /\ z[j] = q[j + 1]
  BY <1>1, <1>5, <1>6
<1>8. ASSUME NEW j \in DOMAIN q, j # i
      PROVE  \E n \in DOMAIN z : z[n] = q[j]
  <2>1. j < i => j \in 1..L - 1 /\ z[j] = q[j]
    BY <1>1, <1>6
  <2>2. j > i => j - 1 \in 1..L - 1 /\ ~(j - 1 < i) /\ (j - 1) + 1 = j
    BY <1>1
  <2>3. j > i => z[j - 1] = q[j]
    BY <1>6, <2>2
  <2>4. j < i \/ j > i
    BY <1>1, <1>8
  <2> QED
    BY <1>5, <2>1, <2>2, <2>3, <2>4
<1> QED
  BY <1>4, <1>5, <1>7, <1>8 DEF z

Without(u, i) == [u EXCEPT !.out = RemoveAt(@, i)]

\* A window's packets, after an ACK: the chunk it was about is no longer waited for.
LEMMA WindowAcked ==
  ASSUME xfer \in Transfers, NEW g, PlanFor(g, xfer), NEW t, NEW h,
         Core(g, xfer, s, t, toR, toS, h), s.pc = "W", toS # <<>>, Head(toS).k = "Y",
         NEW i, i \in Indices("D", Head(toS).seq),
         NEW z, z = Without(s, i),
         Enter(WindowLoop(z), Len(z.out))
  PROVE  Core(g, xfer, s', t, toR', Tail(toS), h) /\ s'.sess = s.sess
<1> DEFINE c == DataAt(g, s.f, s.out[i].pos)
           p == Head(toS)
           v == WindowLoop(z)
           ps == Entering(v, Len(z.out))
<1>1. Alive(s.pc) /\ s \in Senders(xfer) /\ Sessions(xfer, s, t, toR)
  BY DEF Alive, Done, Core, Types
<1>2. SenderShape(g, s) /\ s.out \in Seq(Entries)
  BY <1>1, SenderFields DEF Core
<1>3. i \in DOMAIN s.out /\ s.out[i].seq = p.seq
  BY DEF Indices
<1>4. OutShape(g, s) /\ s.off \in Skip(g, s.f) .. g.chunks /\ s.seq = DataAt(g, s.f, s.off + 1) % Numbers
  BY <1>2 DEF SenderShape, SendNext
<1>5. Confirms(p, c)
  BY <1>3, <1>4 DEF OutShape, Confirms
<1>6. Unacked(g, s) = {DataAt(g, s.f, s.out[j].pos) : j \in DOMAIN s.out}
      /\ SendNext(g, s) = DataAt(g, s.f, s.off + 1)
  BY DEF Unacked, SendNext
<1>7. c \in Unacked(g, s)
  BY <1>3, <1>6
<1> DEFINE o == RemoveAt(s.out, i)
<1>8. /\ o \in Seq(Entries)
      /\ \A j \in DOMAIN o : \/ j < i /\ j \in DOMAIN s.out /\ o[j] = s.out[j]
                             \/ j >= i /\ j + 1 \in DOMAIN s.out /\ o[j] = s.out[j + 1]
      /\ \A j \in DOMAIN s.out : j # i => \E n \in DOMAIN o : o[n] = s.out[j]
  BY <1>2, <1>3, RemoveAtFacts
<1> HIDE DEF o
<1>9. /\ z \in Senders(xfer) /\ z.pc = "W" /\ z.f = s.f /\ z.off = s.off /\ z.seq = s.seq
      /\ z.sess = s.sess /\ z.out = o
  <2>1. z = [s EXCEPT !.out = o]
    BY DEF o, Without
  <2> QED
    BY <1>1, <1>8, <2>1 DEF Senders
<1>10. OutShape(g, z)
  <2> SUFFICES ASSUME NEW j \in DOMAIN z.out
               PROVE  /\ z.out[j].pos \in Skip(g, z.f) + 1 .. z.off
                      /\ z.out[j].seq = DataAt(g, z.f, z.out[j].pos) % Numbers
                      /\ z.off + 1 <= z.out[j].pos + z.sess.window
                      /\ \A n \in DOMAIN z.out : z.out[j].pos = z.out[n].pos => j = n
    BY DEF OutShape
  <2>1. PICK a \in DOMAIN s.out : o[j] = s.out[a] /\ ((a = j /\ j < i) \/ (a = j + 1 /\ j >= i))
    <3>1. \/ j < i /\ j \in DOMAIN s.out /\ o[j] = s.out[j]
          \/ j >= i /\ j + 1 \in DOMAIN s.out /\ o[j] = s.out[j + 1]
      BY <1>8, <1>9
    <3> QED
      BY <3>1
  <2>2. ASSUME NEW n \in DOMAIN z.out, z.out[j].pos = z.out[n].pos
        PROVE  j = n
    <3>1. PICK b \in DOMAIN s.out : o[n] = s.out[b] /\ ((b = n /\ n < i) \/ (b = n + 1 /\ n >= i))
      <4>1. \/ n < i /\ n \in DOMAIN s.out /\ o[n] = s.out[n]
            \/ n >= i /\ n + 1 \in DOMAIN s.out /\ o[n] = s.out[n + 1]
        BY <1>8, <1>9
      <4> QED
        BY <4>1
    <3>2. a = b
      BY <1>4, <1>9, <2>1, <2>2, <3>1 DEF OutShape
    <3>3. i \in Nat /\ j \in Nat /\ n \in Nat
      BY <1>2, <1>3, <1>8, <1>9
    <3> QED
      BY <2>1, <3>1, <3>2, <3>3
  <2> QED
    BY <1>4, <1>9, <2>1, <2>2 DEF OutShape
<1>11. ~s.sess.stream /\ 2 * s.sess.window < Numbers
  <2>1. s.sess.window \in Nat /\ t.sess.window \in Nat /\ Numbers \in Nat
    BY <1>1, SenderFields, CapsFacts, CoreFacts, NumbersType
  <2> QED
    BY <1>1, <2>1 DEF Sessions
<1>12. Ready(g, z)
  BY <1>4, <1>9, <1>10, <1>11 DEF Ready
<1>13. /\ Proceeds(g, z, v, ps, DataAt(g, z.f, z.off + 1))
       /\ \A j \in DOMAIN z.out : DataAt(g, z.f, z.out[j].pos) \in Unacked(g, v)
       /\ v.pc \in {"W", "Z"}
  BY <1>9, <1>12, WindowLoopGoes
<1>14. s' = v /\ (toR' = toR \/ toR' = toR \o ps)
  BY DEF Enter, WriteToR
<1> HIDE DEF v, ps, p, c
<1>15. Proceeds(g, s, v, ps, SendNext(g, s)) /\ v.sess = s.sess
  BY <1>6, <1>9, <1>13 DEF Proceeds
<1>16. \A m \in Unacked(g, s) : m # c => m \in Unacked(g, v)
  <2> SUFFICES ASSUME NEW m \in Unacked(g, s), m # c PROVE m \in Unacked(g, v)
    OBVIOUS
  <2>1. PICK j \in DOMAIN s.out : m = DataAt(g, s.f, s.out[j].pos)
    BY <1>6
  <2>2. j # i
    BY <2>1 DEF c
  <2>3. PICK n \in DOMAIN o : o[n] = s.out[j]
    BY <1>8, <2>2
  <2> QED
    BY <1>9, <1>13, <2>1, <2>3
<1>17. \A j \in DOMAIN ps : ps[j].k = "S" => ps[j].caps \in {xfer.ours, Classic}
  BY <1>13 DEF Proceeds
<1>18. v.pc \in {"poke", "S"} => s.pc \in {"poke", "S"}
  BY <1>13
<1>19. c \in Unacked(g, s) /\ Confirms(Head(toS), c)
  BY <1>5, <1>7 DEF p
<1>20. Core(g, xfer, v, t, toR', Tail(toS), h)
  <2>1. Alive(s.pc) /\ (toR' = toR \/ toR' = toR \o ps) /\ Proceeds(g, s, v, ps, SendNext(g, s))
    BY <1>1, <1>14, <1>15
  <2> QED
    BY <1>16, <1>17, <1>18, <1>19, <2>1, SenderProceeds, ZenonT(60)
<1> QED
  BY <1>14, <1>15, <1>20

\* Every element of S, each once.
ListOf(S, q) ==
  /\ q \in Seq(S)
  /\ \A i, j \in DOMAIN q : q[i] = q[j] => i = j
  /\ \A e \in S : \E i \in DOMAIN q : q[i] = e

InRank(S, R, q) ==
  /\ DOMAIN q = 1..Cardinality(S) /\ q = [i \in 1..Cardinality(S) |-> q[i]]
  /\ \A i \in 1..Cardinality(S) : q[i] \in S /\ Rank(S, R, q[i]) = i - 1

\* A set laid out in an order is laid out whole, nothing twice.
LEMMA Sorted ==
  ASSUME NEW S, IsFiniteSet(S), NEW R, StrictOrder(S, R), NEW q,
         InRank(S, R, q)
  PROVE  ListOf(S, q)
<1> DEFINE N == Cardinality(S)
<1>1. /\ N \in Nat
      /\ \A e \in S : Rank(S, R, e) \in 0..N - 1
      /\ \A a, b \in S : Rank(S, R, a) = Rank(S, R, b) => a = b
  BY Ranks
<1>2. DOMAIN q = 1..N /\ q = [i \in 1..N |-> q[i]]
  BY DEF InRank
<1>3. \A i \in 1..N : q[i] \in S /\ Rank(S, R, q[i]) = i - 1
  BY DEF InRank
<1> HIDE DEF N
<1>4. q \in Seq(S)
  <2>1. q \in [1..N -> S]
    BY <1>2, <1>3
  <2> QED
    BY <1>1, <2>1, SeqDef
<1>5. \A i, j \in DOMAIN q : q[i] = q[j] => i = j
  <2> SUFFICES ASSUME NEW i \in 1..N, NEW j \in 1..N, q[i] = q[j] PROVE i = j
    BY <1>2
  <2>1. i - 1 = j - 1
    BY <1>3
  <2>2. i \in Int /\ j \in Int
    BY <1>1
  <2> QED
    BY <2>1, <2>2
<1>6. \A e \in S : \E i \in DOMAIN q : q[i] = e
  <2> TAKE e \in S
  <2> DEFINE n == Rank(S, R, e) + 1
  <2>1. n \in 1..N /\ n - 1 = Rank(S, R, e)
    BY <1>1
  <2> HIDE DEF n
  <2>2. q[n] \in S /\ Rank(S, R, q[n]) = Rank(S, R, e)
    BY <1>3, <2>1
  <2>3. q[n] = e
    BY <1>1, <2>2
  <2> QED
    BY <1>2, <2>1, <2>3
<1> QED
  BY <1>4, <1>5, <1>6 DEF ListOf

Tried(o) == [o EXCEPT !.retries = @ + 1]

LEMMA TriedFacts ==
  ASSUME NEW o \in Entries
  PROVE  /\ Tried(o).k = "D" /\ Tried(o).seq = o.seq /\ Tried(o).pos = o.pos /\ Tried(o).pos \in Nat
         /\ Tried(o).retries = o.retries + 1 /\ Tried(o).retries \in Nat
         /\ Tried(o).retries <= MaxRetries => Tried(o) \in Entries
<1>1. MaxRetries \in Nat
  BY KermitAssumption
<1>2. o.k = "D" /\ o.seq \in 0..Numbers - 1 /\ o.pos \in Nat /\ o.retries \in 0..MaxRetries
  BY DEF Entries
<1>3. o.retries + 1 \in Nat
  BY <1>1, <1>2
<1>4. o.retries + 1 <= MaxRetries => o.retries + 1 \in 0..MaxRetries
  BY <1>1, <1>3
<1> QED
  BY <1>2, <1>3, <1>4 DEF Tried, Entries

Distinct(out) == \A i, j \in DOMAIN out : out[i].pos = out[j].pos => i = j

Retried(out, es) == {Tried(out[i]) : i \in es}

AgainOf(out, es) ==
  InOrder(Retried(out, es), LAMBDA a, b : a # b /\ (a.k = "Z" \/ (b.k # "Z" /\ a.pos < b.pos)))

RestOf(S) == InOrder(S, <)

\* The packets a retransmission sends, and those it leaves as they are.
LEMMA AgainIs ==
  ASSUME NEW out \in Seq(Entries), Distinct(out), NEW es, es \subseteq DOMAIN out, NEW again,
         again = AgainOf(out, es)
  PROVE  ListOf(Retried(out, es), again)
<1> DEFINE E == Retried(out, es)
           R == {w \in E \X E : w[1].pos < w[2].pos}
           Before(a, b) == a # b /\ (a.k = "Z" \/ (b.k # "Z" /\ a.pos < b.pos))
           C(e) == Cardinality({d \in E : Before(d, e)})
<1>1. \A e \in E : \E i \in es : e = Tried(out[i]) /\ e.pos = out[i].pos /\ e.pos \in Nat /\ e.k = "D"
  <2> TAKE e \in E
  <2>1. PICK i \in es : e = Tried(out[i])
    BY DEF Retried
  <2>2. out[i] \in Entries
    OBVIOUS
  <2> QED
    BY <2>1, <2>2, TriedFacts
<1>2. \A a, b \in E : a.pos = b.pos => a = b
  <2> SUFFICES ASSUME NEW a \in E, NEW b \in E, a.pos = b.pos PROVE a = b
    OBVIOUS
  <2>1. PICK i \in es : a = Tried(out[i]) /\ a.pos = out[i].pos
    BY <1>1
  <2>2. PICK j \in es : b = Tried(out[j]) /\ b.pos = out[j].pos
    BY <1>1
  <2>3. i = j
    BY <2>1, <2>2 DEF Distinct
  <2> QED
    BY <2>1, <2>2, <2>3
<1>3. IsFiniteSet(E)
  <2> DEFINE f == [i \in es |-> Tried(out[i])]
  <2>1. f \in Surjection(es, E)
    BY DEF Surjection, Retried
  <2>2. IsFiniteSet(1..Len(out)) /\ es \in SUBSET (1..Len(out))
    <3>1. Len(out) \in Int /\ 1 \in Int
      OBVIOUS
    <3> QED
      BY <3>1, FS_Interval
  <2>3. IsFiniteSet(es)
    BY <2>2, FS_Subset
  <2> HIDE DEF E, f
  <2> QED
    BY <2>1, <2>3, FS_Surjection
<1>4. again = [i \in 1..Cardinality(E) |-> CHOOSE e \in E : C(e) = i - 1]
  BY DEF InOrder, AgainOf
<1> HIDE DEF E
<1>5. \A a, b \in E : Before(a, b) <=> <<a, b>> \in R
  <2> SUFFICES ASSUME NEW a \in E, NEW b \in E PROVE Before(a, b) <=> <<a, b>> \in R
    OBVIOUS
  <2>1. a.k = "D" /\ b.k = "D" /\ a.pos \in Nat /\ b.pos \in Nat
    BY <1>1
  <2>2. a.pos < b.pos => a # b
    BY <2>1
  <2> QED
    BY <2>1, <2>2
<1>6. StrictOrder(E, R)
  <2>1. \A a \in E : <<a, a>> \notin R
    BY <1>1
  <2>2. \A a, b, c \in E : <<a, b>> \in R /\ <<b, c>> \in R => <<a, c>> \in R
    <3> SUFFICES ASSUME NEW a \in E, NEW b \in E, NEW c \in E, a.pos < b.pos, b.pos < c.pos
                 PROVE  a.pos < c.pos
      OBVIOUS
    <3>1. a.pos \in Nat /\ b.pos \in Nat /\ c.pos \in Nat
      BY <1>1
    <3> QED
      BY <3>1
  <2>3. \A a, b \in E : a # b => <<a, b>> \in R \/ <<b, a>> \in R
    <3> SUFFICES ASSUME NEW a \in E, NEW b \in E, a # b PROVE a.pos < b.pos \/ b.pos < a.pos
      OBVIOUS
    <3>1. a.pos \in Nat /\ b.pos \in Nat /\ a.pos # b.pos
      BY <1>1, <1>2
    <3> QED
      BY <3>1
  <2> HIDE DEF R
  <2> QED
    BY <2>1, <2>2, <2>3 DEF StrictOrder
<1>7. \A e \in E : C(e) = Rank(E, R, e)
  <2> TAKE e \in E
  <2>1. {d \in E : Before(d, e)} = {d \in E : <<d, e>> \in R}
    BY <1>5
  <2> QED
    BY <2>1 DEF Rank
<1> HIDE DEF R, C, Before
<1>8. Cardinality(E) \in Nat /\ \A n \in 0..Cardinality(E) - 1 : \E e \in E : Rank(E, R, e) = n
  <2>1. RanksFull(E, R)
    BY <1>3, <1>6, RanksAreFull
  <2> QED
    BY <2>1 DEF RanksFull
<1>9. DOMAIN again = 1..Cardinality(E) /\ again = [i \in 1..Cardinality(E) |-> again[i]]
  BY <1>4
<1>10. \A i \in 1..Cardinality(E) : again[i] \in E /\ Rank(E, R, again[i]) = i - 1
  <2> TAKE i \in 1..Cardinality(E)
  <2>1. i - 1 \in 0..Cardinality(E) - 1
    BY <1>8
  <2>2. \E e \in E : C(e) = i - 1
    BY <1>7, <1>8, <2>1
  <2>3. again[i] = CHOOSE e \in E : C(e) = i - 1
    BY <1>4
  <2>4. again[i] \in E /\ C(again[i]) = i - 1
    BY <2>2, <2>3
  <2> QED
    BY <1>7, <2>4
<1>11. InRank(E, R, again)
  BY <1>9, <1>10 DEF InRank
<1>12. ListOf(E, again)
  BY <1>3, <1>6, <1>11, Sorted
<1> QED
  BY <1>12 DEF E

LEMMA RestIs ==
  ASSUME NEW n \in Nat, NEW S, S \subseteq 1..n, NEW rest, rest = RestOf(S)
  PROVE  ListOf(S, rest)
<1> DEFINE R == {w \in S \X S : w[1] < w[2]}
           C(e) == Cardinality({d \in S : d < e})
<1>1. IsFiniteSet(S) /\ \A e \in S : e \in Nat
  <2>1. n \in Int /\ 1 \in Int /\ S \in SUBSET (1..n)
    OBVIOUS
  <2>2. IsFiniteSet(1..n)
    BY <2>1, FS_Interval
  <2>3. IsFiniteSet(S)
    BY <2>1, <2>2, FS_Subset
  <2> QED
    BY <2>1, <2>3
<1>2. StrictOrder(S, R)
  <2>1. \A a \in S : <<a, a>> \notin R
    BY <1>1
  <2>2. \A a, b, c \in S : <<a, b>> \in R /\ <<b, c>> \in R => <<a, c>> \in R
    BY <1>1
  <2>3. \A a, b \in S : a # b => <<a, b>> \in R \/ <<b, a>> \in R
    BY <1>1
  <2> HIDE DEF R
  <2> QED
    BY <2>1, <2>2, <2>3 DEF StrictOrder
<1>3. rest = [i \in 1..Cardinality(S) |-> CHOOSE e \in S : C(e) = i - 1]
  BY DEF InOrder, RestOf
<1>4. \A e \in S : C(e) = Rank(S, R, e)
  <2> TAKE e \in S
  <2>1. {d \in S : d < e} = {d \in S : <<d, e>> \in R}
    OBVIOUS
  <2> QED
    BY <2>1 DEF Rank
<1> HIDE DEF R, C
<1>5. Cardinality(S) \in Nat /\ \A k \in 0..Cardinality(S) - 1 : \E e \in S : Rank(S, R, e) = k
  <2>1. IsFiniteSet(S)
    BY <1>1
  <2>2. RanksFull(S, R)
    BY <1>2, <2>1, RanksAreFull
  <2> QED
    BY <2>2 DEF RanksFull
<1>6. DOMAIN rest = 1..Cardinality(S) /\ rest = [i \in 1..Cardinality(S) |-> rest[i]]
  BY <1>3
<1>7. \A i \in 1..Cardinality(S) : rest[i] \in S /\ Rank(S, R, rest[i]) = i - 1
  <2> TAKE i \in 1..Cardinality(S)
  <2>1. i - 1 \in 0..Cardinality(S) - 1
    BY <1>5
  <2>2. \E e \in S : C(e) = i - 1
    BY <1>4, <1>5, <2>1
  <2>3. rest[i] = CHOOSE e \in S : C(e) = i - 1
    BY <1>3
  <2>4. rest[i] \in S /\ C(rest[i]) = i - 1
    BY <2>2, <2>3
  <2> QED
    BY <1>4, <2>4
<1>8. InRank(S, R, rest)
  BY <1>6, <1>7 DEF InRank
<1> QED
  BY <1>1, <1>2, <1>8, Sorted

KeptOf(out, rest) == [i \in DOMAIN rest |-> out[rest[i]]]

\* A list of chunks, all from out.
ChunksFrom(out, q) ==
  /\ q \in Seq(Entries)
  /\ \A j \in DOMAIN q : \E i \in DOMAIN out : q[j].pos = out[i].pos /\ q[j].seq = out[i].seq

SameChunks(out, q) ==
  /\ ChunksFrom(out, q) /\ Distinct(q)
  /\ \A i \in DOMAIN out : \E j \in DOMAIN q : q[j].pos = out[i].pos

\* The window after a retransmission: the same chunks, in another order.
LEMMA Rearranged ==
  ASSUME NEW out \in Seq(Entries), Distinct(out), NEW es, es \subseteq DOMAIN out, NEW again, NEW kept,
         NEW rest, ListOf(Retried(out, es), again), ListOf(DOMAIN out \ es, rest),
         \A i \in DOMAIN again : again[i].retries <= MaxRetries, kept = KeptOf(out, rest)
  PROVE  ChunksFrom(out, again) /\ SameChunks(out, kept \o again)
<1> DEFINE o == kept \o again
<1>1. ASSUME NEW j \in DOMAIN again
      PROVE  /\ again[j] \in Entries
             /\ \E i \in es : again[j] = Tried(out[i]) /\ again[j].pos = out[i].pos /\ again[j].seq = out[i].seq
  <2>1. again[j] \in Retried(out, es)
    BY DEF ListOf
  <2>2. PICK i \in es : again[j] = Tried(out[i])
    BY <2>1 DEF Retried
  <2>3. out[i] \in Entries /\ again[j].retries <= MaxRetries
    OBVIOUS
  <2>4. /\ Tried(out[i]) \in Entries
        /\ Tried(out[i]).pos = out[i].pos /\ Tried(out[i]).seq = out[i].seq
    BY <2>2, <2>3, TriedFacts
  <2> QED
    BY <2>2, <2>4
<1>2. again \in Seq(Entries)
  <2>1. again \in Seq(Retried(out, es))
    BY DEF ListOf
  <2>2. Len(again) \in Nat /\ DOMAIN again = 1..Len(again) /\ again = [j \in 1..Len(again) |-> again[j]]
    BY <2>1
  <2>3. again \in [1..Len(again) -> Entries]
    BY <1>1, <2>2
  <2> QED
    BY <2>2, <2>3, SeqDef
<1>3. /\ DOMAIN kept = DOMAIN rest
      /\ \A j \in DOMAIN kept : rest[j] \in DOMAIN out /\ rest[j] \notin es /\ kept[j] = out[rest[j]]
  BY DEF ListOf, KeptOf
<1>4. kept \in Seq(Entries) /\ Len(kept) \in Nat /\ DOMAIN kept = 1..Len(kept)
  <2>1. kept \in [1..Len(rest) -> Entries] /\ Len(rest) \in Nat
    <3>1. rest \in Seq(DOMAIN out \ es)
      BY DEF ListOf
    <3>2. Len(rest) \in Nat /\ DOMAIN rest = 1..Len(rest)
      BY <3>1
    <3>3. \A j \in DOMAIN kept : kept[j] \in Entries
      BY <1>3
    <3>4. kept = [j \in DOMAIN rest |-> kept[j]]
      BY DEF KeptOf
    <3> QED
      BY <1>3, <3>2, <3>3, <3>4
  <2>2. kept \in Seq(Entries)
    BY <2>1, SeqDef
  <2> QED
    BY <2>2
<1> DEFINE L == Len(kept)
<1>5. /\ o \in Seq(Entries)
      /\ \A j \in DOMAIN o : \/ j \in DOMAIN kept /\ o[j] = kept[j]
                             \/ j - L \in DOMAIN again /\ o[j] = again[j - L] /\ j > L
      /\ DOMAIN o = 1..L + Len(again) /\ Len(again) \in Nat /\ DOMAIN again = 1..Len(again)
      /\ \A j \in DOMAIN kept : j \in DOMAIN o /\ o[j] = kept[j]
      /\ \A j \in DOMAIN again : L + j \in DOMAIN o /\ o[L + j] = again[j]
  <2>1. /\ o \in Seq(Entries) /\ Len(o) = Len(kept) + Len(again)
        /\ \A j \in DOMAIN o : \/ j \in DOMAIN kept /\ o[j] = kept[j]
                               \/ j - L \in DOMAIN again /\ o[j] = again[j - L] /\ j > L
    BY <1>2, <1>4, ConcatFacts
  <2>2. /\ Len(again) \in Nat /\ DOMAIN again = 1..Len(again) /\ DOMAIN o = 1..L + Len(again)
    BY <1>2, <1>4, <2>1
  <2>3. \A j \in DOMAIN kept : j \in DOMAIN o /\ o[j] = kept[j]
    BY <1>2, <1>4, <2>2
  <2>4. \A j \in DOMAIN again : L + j \in DOMAIN o /\ o[L + j] = again[j]
    BY <1>2, <1>4, <2>2
  <2> QED
    BY <2>1, <2>2, <2>3, <2>4
<1> HIDE DEF o, L
<1>6. ASSUME NEW j \in DOMAIN o
      PROVE  \/ /\ j \in DOMAIN kept /\ rest[j] \in DOMAIN out /\ rest[j] \notin es
                /\ o[j] = out[rest[j]]
             \/ \E i \in es : /\ j - L \in DOMAIN again /\ o[j] = again[j - L] /\ again[j - L] = Tried(out[i])
                              /\ o[j].pos = out[i].pos /\ o[j].seq = out[i].seq
  <2>1. CASE j \in DOMAIN kept /\ o[j] = kept[j]
    BY <1>3, <2>1
  <2>2. CASE j - L \in DOMAIN again /\ o[j] = again[j - L]
    <3> DEFINE n == j - L
    <3>1. n \in DOMAIN again /\ o[j] = again[n]
      BY <2>2
    <3> HIDE DEF n
    <3>2. \E i \in es : again[n] = Tried(out[i]) /\ again[n].pos = out[i].pos /\ again[n].seq = out[i].seq
      BY <1>1, <3>1
    <3> QED
      BY <3>1, <3>2 DEF n
  <2> QED
    BY <1>5, <2>1, <2>2
<1>7. \A j \in DOMAIN o : \E i \in DOMAIN out : o[j].pos = out[i].pos /\ o[j].seq = out[i].seq
  BY <1>6
<1>8. Distinct(o)
  <2> SUFFICES ASSUME NEW a \in DOMAIN o, NEW b \in DOMAIN o, o[a].pos = o[b].pos PROVE a = b
    BY DEF Distinct
  <2>1. a \in Int /\ b \in Int /\ L \in Int
    BY <1>4, <1>5 DEF L
  <2>2. CASE a \in DOMAIN kept /\ rest[a] \in DOMAIN out /\ rest[a] \notin es /\ o[a] = out[rest[a]]
    <3>1. CASE b \in DOMAIN kept /\ rest[b] \in DOMAIN out /\ o[b] = out[rest[b]]
      <4>1. rest[a] = rest[b]
        BY <2>2, <3>1 DEF Distinct
      <4> QED
        BY <1>3, <2>2, <3>1, <4>1 DEF ListOf
    <3>2. CASE \E i \in es : o[b].pos = out[i].pos
      BY <2>2, <3>2 DEF Distinct
    <3> QED
      BY <1>6, <3>1, <3>2
  <2>3. CASE \E i \in es : /\ a - L \in DOMAIN again /\ o[a] = again[a - L] /\ again[a - L] = Tried(out[i])
                           /\ o[a].pos = out[i].pos
    <3>1. PICK i \in es : /\ a - L \in DOMAIN again /\ o[a] = again[a - L] /\ again[a - L] = Tried(out[i])
                          /\ o[a].pos = out[i].pos
      BY <2>3
    <3>2. CASE b \in DOMAIN kept /\ rest[b] \in DOMAIN out /\ rest[b] \notin es /\ o[b] = out[rest[b]]
      BY <3>1, <3>2 DEF Distinct
    <3>3. CASE \E k \in es : /\ b - L \in DOMAIN again /\ o[b] = again[b - L] /\ again[b - L] = Tried(out[k])
                             /\ o[b].pos = out[k].pos
      <4>1. PICK k \in es : /\ b - L \in DOMAIN again /\ o[b] = again[b - L] /\ again[b - L] = Tried(out[k])
                            /\ o[b].pos = out[k].pos
        BY <3>3
      <4>2. i = k
        BY <3>1, <4>1 DEF Distinct
      <4>3. a - L = b - L
        BY <3>1, <4>1, <4>2 DEF ListOf
      <4> QED
        BY <2>1, <4>3
    <3> QED
      BY <1>6, <3>2, <3>3
  <2> QED
    BY <1>6, <2>2, <2>3
<1>9. ASSUME NEW i \in DOMAIN out
      PROVE  \E j \in DOMAIN o : o[j].pos = out[i].pos
  <2>1. CASE i \in es
    <3>1. PICK j \in DOMAIN again : again[j] = Tried(out[i])
      BY <2>1 DEF ListOf, Retried
    <3>2. again[j].pos = out[i].pos
      <4>1. out[i] \in Entries
        OBVIOUS
      <4> QED
        BY <3>1, <4>1, TriedFacts
    <3> QED
      BY <1>5, <3>1, <3>2
  <2>2. CASE i \notin es
    <3>1. PICK j \in DOMAIN rest : rest[j] = i
      BY <2>2 DEF ListOf
    <3>2. j \in DOMAIN kept /\ j \in DOMAIN o /\ o[j] = kept[j] /\ kept[j] = out[i]
      BY <1>3, <1>5, <3>1
    <3> QED
      BY <3>2
  <2> QED
    BY <2>1, <2>2
<1>10. \A j \in DOMAIN again : \E i \in DOMAIN out : again[j].pos = out[i].pos /\ again[j].seq = out[i].seq
  BY <1>1
<1> QED
  BY <1>2, <1>5, <1>7, <1>8, <1>9, <1>10 DEF o, ChunksFrom, SameChunks

LEMMA RetransmitIs ==
  ASSUME NEW es, Retransmit(es)
  PROVE  LET again == AgainOf(s.out, es)
             rest == RestOf(DOMAIN s.out \ es)
         IN \/ SenderFails(FALSE)
            \/ /\ \A i \in DOMAIN again : again[i].retries <= MaxRetries
               /\ s' = [s EXCEPT !.out = KeptOf(s.out, rest) \o again]
               /\ toR' = WriteToR([i \in DOMAIN again |-> Outgoing(s, again[i])])
  BY DEF Retransmit, AgainOf, RestOf, KeptOf, Retried, Tried

LEMMA RetransmitKeeps ==
  ASSUME xfer \in Transfers, NEW g, PlanFor(g, xfer), NEW t, NEW qS, NEW h,
         Core(g, xfer, s, t, toR, qS, h), s.pc = "W", NEW es, es \subseteq DOMAIN s.out, es # {},
         Retransmit(es)
  PROVE  Core(g, xfer, s', t, toR', qS, h) /\ s'.sess = s.sess
<1> DEFINE again == AgainOf(s.out, es)
           rest == RestOf(DOMAIN s.out \ es)
           kept == KeptOf(s.out, rest)
           o == kept \o again
           v == [s EXCEPT !.out = o]
           ps == [i \in DOMAIN again |-> Outgoing(s, again[i])]
<1>1. Alive(s.pc) /\ s \in Senders(xfer) /\ qS \in Seq(ToS)
  BY DEF Alive, Done, Core, Types
<1>2. SenderShape(g, s) /\ s.out \in Seq(Entries)
  BY <1>1, SenderFields DEF Core
<1>3. OutShape(g, s) /\ s.off \in Skip(g, s.f) .. g.chunks
  BY <1>2 DEF SenderShape
<1>4. Distinct(s.out)
  BY <1>3 DEF OutShape, Distinct
<1>5. ListOf(Retried(s.out, es), again)
  BY <1>2, <1>4, AgainIs
<1>6. ListOf(DOMAIN s.out \ es, rest)
  <2>1. Len(s.out) \in Nat /\ DOMAIN s.out \ es \subseteq 1..Len(s.out)
    BY <1>2
  <2> QED
    BY <2>1, RestIs
<1>7. \/ SenderFails(FALSE)
      \/ /\ \A i \in DOMAIN again : again[i].retries <= MaxRetries
         /\ s' = v
         /\ toR' = WriteToR(ps)
  BY RetransmitIs
<1>8. CASE SenderFails(FALSE)
  BY <1>1, <1>8, FailsKeeps
<1> HIDE DEF again, rest
<1>9. CASE /\ \A i \in DOMAIN again : again[i].retries <= MaxRetries
           /\ s' = v
           /\ toR' = WriteToR(ps)
  <2>1. kept = KeptOf(s.out, rest)
    OBVIOUS
  <2> HIDE DEF kept
  <2>2. /\ again \in Seq(Entries)
        /\ o \in Seq(Entries) /\ Distinct(o)
        /\ \A j \in DOMAIN again : \E i \in DOMAIN s.out :
             again[j].pos = s.out[i].pos /\ again[j].seq = s.out[i].seq
        /\ \A j \in DOMAIN o : \E i \in DOMAIN s.out : o[j].pos = s.out[i].pos /\ o[j].seq = s.out[i].seq
        /\ \A i \in DOMAIN s.out : \E j \in DOMAIN o : o[j].pos = s.out[i].pos
    <3> HIDE DEF v, ps, o
    <3>1. /\ s.out \in Seq(Entries) /\ es \subseteq DOMAIN s.out
          /\ \A i \in DOMAIN again : again[i].retries <= MaxRetries
      BY <1>2, <1>9
    <3>2. ChunksFrom(s.out, again) /\ SameChunks(s.out, kept \o again)
      BY <1>4, <1>5, <1>6, <2>1, <3>1, Rearranged
    <3> QED
      BY <3>2 DEF o, ChunksFrom, SameChunks
  <2> HIDE DEF o
  <2>3. /\ v \in Senders(xfer) /\ v.pc = "W" /\ v.f = s.f /\ v.off = s.off /\ v.seq = s.seq
        /\ v.sess = s.sess /\ v.out = o
    BY <1>1, <2>2 DEF Senders
  <2>4. s' = v /\ (toR' = toR \/ toR' = toR \o ps)
    BY <1>9 DEF WriteToR
  <2> HIDE DEF v
  <2>5. OutShape(g, v)
    <3> SUFFICES ASSUME NEW j \in DOMAIN o
                 PROVE  /\ o[j].pos \in Skip(g, s.f) + 1 .. s.off
                        /\ o[j].seq = DataAt(g, s.f, o[j].pos) % Numbers
                        /\ s.off + 1 <= o[j].pos + s.sess.window
                        /\ \A n \in DOMAIN o : o[j].pos = o[n].pos => j = n
      BY <2>3 DEF OutShape
    <3>1. PICK i \in DOMAIN s.out : o[j].pos = s.out[i].pos /\ o[j].seq = s.out[i].seq
      BY <2>2
    <3> QED
      BY <1>3, <2>2, <3>1 DEF OutShape, Distinct
  <2>6. SendNext(g, v) = SendNext(g, s)
    BY <2>3 DEF SendNext
  <2>7. Unacked(g, v) = Unacked(g, s)
    <3>1. Unacked(g, v) = {DataAt(g, s.f, o[i].pos) : i \in DOMAIN o}
          /\ Unacked(g, s) = {DataAt(g, s.f, s.out[i].pos) : i \in DOMAIN s.out}
      BY <2>3 DEF Unacked
    <3>2. \A m \in Unacked(g, s) : m \in Unacked(g, v)
      BY <2>2, <3>1
    <3>3. \A m \in Unacked(g, v) : m \in Unacked(g, s)
      BY <2>2, <3>1
    <3> QED
      BY <3>2, <3>3
  <2>8. v.out # <<>>
    <3>1. s.out # <<>> /\ DOMAIN s.out # {}
      BY <1>2 DEF SenderShape
    <3>2. DOMAIN o # {}
      BY <2>2, <3>1
    <3> QED
      BY <2>3, <3>2
  <2>9. SenderShape(g, v)
    BY <1>2, <2>3, <2>5, <2>6, <2>8 DEF SenderShape, StopAndWait
  <2>10. ASSUME NEW j \in DOMAIN again
         PROVE  /\ Outgoing(s, again[j]) \in ToR /\ GoodPacket(g, Outgoing(s, again[j]))
                /\ At(g, Outgoing(s, again[j])) \in Unacked(g, v) /\ Outgoing(s, again[j]).k = "D"
    <3>1. PICK i \in DOMAIN s.out : again[j].pos = s.out[i].pos /\ again[j].seq = s.out[i].seq
      BY <2>2
    <3>2. again[j] \in Entries
      BY <2>2
    <3>3. /\ s.out[i].pos \in Skip(g, s.f) + 1 .. s.off
          /\ s.out[i].seq = DataAt(g, s.f, s.out[i].pos) % Numbers
      BY <1>3 DEF OutShape
    <3>4. s.off \in Int /\ Skip(g, s.f) \in Int /\ g.chunks \in Int
      <4>1. s.f \in Nat /\ s.off \in Nat /\ g \in Plans
        BY <1>1, SenderFields DEF PlanFor
      <4> QED
        BY <4>1, PlanFacts
    <3>5. again[j].pos \in Skip(g, s.f) + 1 .. g.chunks
      BY <1>3, <3>1, <3>3, <3>4
    <3>6. /\ Outgoing(s, again[j]) \in ToR /\ GoodPacket(g, Outgoing(s, again[j]))
          /\ At(g, Outgoing(s, again[j])) = DataAt(g, s.f, again[j].pos) /\ Outgoing(s, again[j]).k = "D"
      BY <1>1, <3>1, <3>2, <3>3, <3>5, OutgoingGood
    <3>7. DataAt(g, s.f, again[j].pos) \in Unacked(g, s)
      BY <3>1 DEF Unacked
    <3> QED
      BY <2>7, <3>6, <3>7
  <2>11. ps \in Seq(ToR) /\ \A j \in DOMAIN ps :
           GoodPacket(g, ps[j]) /\ At(g, ps[j]) \in Unacked(g, v) /\ ps[j].k = "D"
    <3>1. Len(again) \in Nat /\ DOMAIN again = 1..Len(again)
      BY <2>2
    <3> QED
      BY <2>10, <3>1
  <2> HIDE DEF ps
  <2>12. SendNext(g, s) \in Nat
    BY <1>1, CoreFacts
  <2>13. Alive(v.pc) /\ v.pc = "W"
    BY <2>3 DEF Alive, Done
  <2>14. Proceeds(g, s, v, ps, SendNext(g, s))
    <3>1. SendNext(g, s) <= SendNext(g, v)
          /\ \A m \in SendNext(g, s) .. SendNext(g, v) - 1 : m \in Unacked(g, v)
      BY <2>6, <2>12
    <3> QED
      BY <2>3, <2>9, <2>11, <2>13, <3>1 DEF Proceeds
  <2>15. \A m \in Unacked(g, s) : m \in Unacked(g, v)
    BY <2>7
  <2>16. \A i \in DOMAIN ps : ps[i].k = "S" => ps[i].caps \in {xfer.ours, Classic}
    BY <2>11
  <2>17. v.pc \in {"poke", "S"} => s.pc \in {"poke", "S"}
    BY <2>13
  <2>18. toR' = toR \/ toR' = toR \o ps
    BY <2>4
  <2>19. Core(g, xfer, v, t, toR', qS, h)
    <3>1. Alive(s.pc)
      BY <1>1
    <3> QED
      BY <2>14, <2>15, <2>16, <2>17, <2>18, <3>1, SenderRepeats
  <2> QED
    BY <2>3, <2>4, <2>19
<1> QED
  BY <1>7, <1>8, <1>9

LEMMA SilenceKeeps ==
  ASSUME xfer \in Transfers, NEW g, PlanFor(g, xfer), NEW t, NEW qS, NEW h,
         Core(g, xfer, s, t, toR, qS, h), SenderSilence
  PROVE  Core(g, xfer, s', t, toR', qS, h) /\ s'.sess = s.sess
<1>1. s \in Senders(xfer)
  BY DEF Core, Types
<1>2. s.out \in Seq(Entries) /\ s.pc # "T"
  BY <1>1, SenderFields DEF StopAndWait, Done
<1>3. CASE s.pc = "poke" /\ Enter([s EXCEPT !.pc = "S"], 0)
  BY <1>3, PokedKeeps
<1>4. CASE s.pc \in StopAndWait /\ Resend(TRUE)
  BY <1>4, ResendKeeps
<1>5. CASE /\ s.pc \in {"W", "T"}
           /\ \E n \in DOMAIN s.out :
                LET es == {i \in 1..n : Cardinality(Indices(s.out[i].k, s.out[i].seq)) = 1} IN
                es # {} /\ Retransmit(es)
  <2>1. PICK n \in DOMAIN s.out :
          LET es == {i \in 1..n : Cardinality(Indices(s.out[i].k, s.out[i].seq)) = 1} IN
          es # {} /\ Retransmit(es)
    BY <1>5
  <2> DEFINE es == {i \in 1..n : Cardinality(Indices(s.out[i].k, s.out[i].seq)) = 1}
  <2>2. es # {} /\ Retransmit(es) /\ s.pc = "W"
    BY <1>2, <1>5, <2>1
  <2>3. es \subseteq DOMAIN s.out
    BY <1>2
  <2> HIDE DEF es
  <2> QED
    BY <2>2, <2>3, RetransmitKeeps
<1> QED
  BY <1>3, <1>4, <1>5 DEF SenderSilence

\* What the sender reads: the plan changes with the ACK of Send-Init alone.
LEMMA TookKeeps ==
  ASSUME xfer \in Transfers, NEW g, g = PlanNow(xfer, s, r), NEW h,
         SenderTook, s'.sess = s.sess, Core(g, xfer, s', r, toR', Tail(toS), h)
  PROVE  Core(PlanNow(xfer, s, r)', xfer', s', r', toR', toS', h)
<1>1. xfer' = xfer /\ r' = r /\ toS' = Tail(toS)
  BY DEF SenderTook
<1>2. PlanNow(xfer, s, r)' = g
  BY <1>1 DEF PlanNow
<1> QED
  BY <1>1, <1>2

LEMMA PlanNowFits ==
  ASSUME NEW x \in Transfers, NEW u \in Senders(x), NEW t \in Receivers
  PROVE  PlanFor(PlanNow(x, u, t), x) /\ (u.sess.attrs <=> PlanNow(x, u, t).att = 1)
<1>1. u.sess \in Caps /\ t.sess \in Caps
  BY SenderFields DEF Receivers
<1>2. u.sess.attrs \in BOOLEAN /\ t.sess.resend \in BOOLEAN
  BY <1>1, CapsFacts
<1>3. PlanFor(PlanNow(x, u, t), x)
  BY <1>2, PlanOfFits DEF PlanNow
<1>4. PlanNow(x, u, t).att = IF u.sess.attrs THEN 1 ELSE 0
  BY DEF PlanNow, PlanOf
<1> QED
  BY <1>2, <1>3, <1>4

LEMMA SenderReplyKeeps ==
  ASSUME xfer \in Transfers, NEW g, g = PlanNow(xfer, s, r), NEW h,
         Core(g, xfer, s, r, toR, toS, h), SenderReply
  PROVE  Core(PlanNow(xfer, s, r)', xfer', s', r', toR', toS', h)
<1>1. s \in Senders(xfer) /\ r \in Receivers /\ toS \in Seq(ToS) /\ s.pc \in StopAndWait
  BY DEF Core, Types, SenderReply
<1>2. PlanFor(g, xfer) /\ (s.sess.attrs <=> g.att = 1)
  BY <1>1, PlanNowFits
<1>3. PICK p \in Range(toS) :
        /\ SenderReads(p) /\ Readable(p, s.sess.chk) /\ p.k # "E"
        /\ \/ /\ Acknowledges(p)
              /\ LET t == Acked(s, p) IN
                 IF t.pc = "ok" THEN s' = t /\ UNCHANGED toR ELSE Enter(t, 0)
           \/ Refuses(p) /\ ~Acknowledges(p) /\ Resend(FALSE)
           \/ p.k = "Y" /\ ~Acknowledges(p) /\ UNCHANGED <<s, toR>>
           \/ p.k = "N" /\ ~Acknowledges(p) /\ ~Refuses(p) /\ SenderFails(FALSE)
  BY DEF SenderReply
<1>4. toS # <<>> /\ p = Head(toS) /\ SenderTook
  BY <1>3 DEF SenderReads, SenderReply
<1>5. Tail(toS) \in Seq(ToS) /\ Shift(toS, Tail(toS), {"Y", "N"})
  BY <1>1, <1>4, TailFacts, TailShift
<1>6. Core(g, xfer, s, r, toR, Tail(toS), h)
  BY <1>5, ShiftS
<1>7. CASE /\ Acknowledges(p)
           /\ IF Acked(s, p).pc = "ok" THEN s' = Acked(s, p) /\ toR' = toR ELSE Enter(Acked(s, p), 0)
  <2>1. CASE s.pc = "S"
    <3> DEFINE g2 == PlanNow(xfer, s, r)'
    <3>1. Acked(s, p).pc = "F"
      BY <1>1, <2>1 DEF Acked, Senders
    <3>2. Enter(Acked(s, p), 0)
      BY <1>7, <3>1
    <3>3. s.sess = Classic /\ Sessions(xfer, s, r, toR)
      BY <2>1 DEF Core, Sessions
    <3>4. g.att = 0
      BY <3>3 DEF PlanNow, PlanOf, Classic
    <3>5. xfer' = xfer /\ r' = r /\ toS' = Tail(toS)
      BY <1>4 DEF SenderTook
    <3>6. s' \in Senders(xfer)
      <4>1. Core(g, xfer, s', r, toR', Tail(toS), h)
        BY <1>2, <1>4, <1>7, <2>1, <3>2, <3>4, InitAcked
      <4> QED
        BY <4>1 DEF Core, Types
    <3>7. PlanFor(g2, xfer)
      <4>1. g2 = PlanNow(xfer, s', r)
        BY <3>5 DEF PlanNow
      <4>2. PlanFor(PlanNow(xfer, s', r), xfer)
        BY <1>1, <3>6, PlanNowFits
      <4> QED
        BY <4>1, <4>2
    <3> HIDE DEF g2
    <3>8. Core(g2, xfer, s', r, toR', Tail(toS), h)
      BY <1>2, <1>4, <1>7, <2>1, <3>2, <3>4, <3>7, InitAcked
    <3> QED
      BY <3>5, <3>8 DEF g2
  <2>2. CASE s.pc = "B"
    <3>1. Acked(s, p).pc = "ok"
      BY <1>1, <2>2 DEF Acked, Senders
    <3>2. s' = Acked(s, p) /\ toR' = toR
      BY <1>7, <3>1
    <3>3. Core(g, xfer, s', r, toR', Tail(toS), h) /\ s'.sess = s.sess
      BY <1>2, <1>4, <1>7, <2>2, <3>2, BreakAcked
    <3> QED
      BY <1>4, <3>3, TookKeeps
  <2>3. CASE s.pc \in {"F", "A", "D", "Z"}
    <3>1. Core(g, xfer, s', r, toR', Tail(toS), h) /\ s'.sess = s.sess
      <4>1. Acked(s, p).pc # "ok"
        <5>1. SenderShape(g, s) /\ Alive(s.pc)
          BY <1>1 DEF Core, Alive, StopAndWait, Done
        <5>2. s.pc = "A" => p.pos = Skip(g, s.f)
          <6> SUFFICES ASSUME s.pc = "A" PROVE p.pos = Skip(g, s.f)
            OBVIOUS
          <6>1. PICK m \in Nat : ReplyTells(g, s, r, p, m) /\ (p.k = "Y" => m = Waits(g, s))
            BY <1>1, <1>2, <1>4, <1>7, AcknowledgedIs
          <6>2. p.k = "Y" /\ Waits(g, s) = First(g, s.f) + 1 /\ g.att = 1 /\ s.f \in 1..g.files
            BY <1>1, <1>2, <1>7, <5>1, SenderFields DEF Acknowledges, Waits, Place, SenderShape, PlanFor
          <6> QED
            BY <6>1, <6>2 DEF ReplyTells
        <5>3. ~s.sess.stream /\ 2 * s.sess.window < Numbers
          <6>1. Sessions(xfer, s, r, toR)
            BY DEF Core
          <6>2. s.sess.window \in Nat /\ r.sess.window \in Nat /\ Numbers \in Nat
            BY <1>1, <1>2, SenderFields, CapsFacts, CoreFacts, NumbersType
          <6> QED
            BY <6>1, <6>2 DEF Sessions
        <5>4. Acked(s, p).pc \in {"F", "A", "D", "Z", "B", "W"}
          BY <1>1, <1>2, <2>3, <5>1, <5>2, <5>3, AckedGoes
        <5> QED
          BY <5>4
      <4>2. Enter(Acked(s, p), 0)
        BY <1>7, <4>1
      <4> QED
        BY <1>2, <1>4, <1>7, <2>3, <4>2, AckedKeeps
    <3> QED
      BY <1>4, <3>1, TookKeeps
  <2> QED
    BY <1>1, <2>1, <2>2, <2>3 DEF StopAndWait
<1>8. CASE Resend(FALSE)
  <2>1. Core(g, xfer, s', r, toR', Tail(toS), h) /\ s'.sess = s.sess
    BY <1>1, <1>2, <1>6, <1>8, ResendKeeps
  <2> QED
    BY <1>4, <2>1, TookKeeps
<1>9. CASE UNCHANGED <<s, toR>>
  <2>1. Core(g, xfer, s', r, toR', Tail(toS), h) /\ s'.sess = s.sess
    BY <1>6, <1>9
  <2> QED
    BY <1>4, <2>1, TookKeeps
<1>10. CASE SenderFails(FALSE)
  <2>1. Core(g, xfer, s', r, toR', Tail(toS), h) /\ s'.sess = s.sess
    BY <1>2, <1>5, <1>10, FailsKeeps
  <2> QED
    BY <1>4, <2>1, TookKeeps
<1> QED
  BY <1>3, <1>7, <1>8, <1>9, <1>10

LEMMA SenderWindowKeeps ==
  ASSUME xfer \in Transfers, NEW g, g = PlanNow(xfer, s, r), NEW h,
         Core(g, xfer, s, r, toR, toS, h), SenderWindow
  PROVE  Core(PlanNow(xfer, s, r)', xfer', s', r', toR', toS', h)
<1>1. /\ s \in Senders(xfer) /\ r \in Receivers /\ toS \in Seq(ToS) /\ s.pc = "W"
      /\ s.out \in Seq(Entries)
  BY SenderFields DEF Core, Types, SenderWindow
<1>2. PlanFor(g, xfer)
  BY <1>1, PlanNowFits
<1>3. PICK p \in Range(toS) :
        /\ SenderReads(p) /\ ~Cancels(p)
        /\ LET hit == IF Readable(p, s.sess.chk) THEN Indices("D", p.seq) ELSE {} IN
           \/ /\ Readable(p, s.sess.chk) /\ p.k = "Y" /\ hit # {}
              /\ LET t == [s EXCEPT !.out = RemoveAt(@, Lowest(@, hit))]
                 IN Enter(WindowLoop(t), Len(t.out))
           \/ Readable(p, s.sess.chk) /\ p.k = "N" /\ hit # {} /\ Retransmit(hit)
           \/ (Readable(p, s.sess.chk) => p.k # "E" /\ hit = {}) /\ UNCHANGED <<s, toR>>
  BY DEF SenderWindow
<1>4. toS # <<>> /\ p = Head(toS) /\ SenderTook
  BY <1>3 DEF SenderReads, SenderWindow
<1>5. Tail(toS) \in Seq(ToS) /\ Shift(toS, Tail(toS), {"Y", "N"})
  BY <1>1, <1>4, TailFacts, TailShift
<1>6. Core(g, xfer, s, r, toR, Tail(toS), h)
  BY <1>5, ShiftS
<1> DEFINE hit == Indices("D", p.seq)
           z == Without(s, Lowest(s.out, hit))
<1>7. hit \subseteq DOMAIN s.out
  BY DEF Indices
<1>8. \/ p.k = "Y" /\ hit # {} /\ Enter(WindowLoop(z), Len(z.out))
      \/ hit # {} /\ Retransmit(hit)
      \/ UNCHANGED <<s, toR>>
  BY <1>3 DEF Without
<1>9. CASE p.k = "Y" /\ hit # {} /\ Enter(WindowLoop(z), Len(z.out))
  <2> DEFINE i == Lowest(s.out, hit)
  <2>1. i \in hit
    BY <1>1, <1>7, <1>9, LowestIs
  <2>2. z = Without(s, i)
    OBVIOUS
  <2> HIDE DEF z, i
  <2>3. i \in Indices("D", Head(toS).seq) /\ Head(toS).k = "Y"
    BY <1>4, <1>9, <2>1
  <2>4. Core(g, xfer, s', r, toR', Tail(toS), h) /\ s'.sess = s.sess
    BY <1>1, <1>2, <1>4, <1>9, <2>2, <2>3, WindowAcked
  <2> QED
    BY <1>4, <2>4, TookKeeps
<1>10. CASE hit # {} /\ Retransmit(hit)
  <2> HIDE DEF hit
  <2>1. Core(g, xfer, s', r, toR', Tail(toS), h) /\ s'.sess = s.sess
    BY <1>1, <1>2, <1>6, <1>7, <1>10, RetransmitKeeps
  <2> QED
    BY <1>4, <2>1, TookKeeps
<1>11. CASE UNCHANGED <<s, toR>>
  <2>1. Core(g, xfer, s', r, toR', Tail(toS), h) /\ s'.sess = s.sess
    BY <1>6, <1>11
  <2> QED
    BY <1>4, <2>1, TookKeeps
<1> QED
  BY <1>8, <1>9, <1>10, <1>11

LEMMA SenderReadKeeps ==
  ASSUME xfer \in Transfers, NEW g, g = PlanNow(xfer, s, r), NEW h,
         Core(g, xfer, s, r, toR, toS, h), SenderRead
  PROVE  Core(PlanNow(xfer, s, r)', xfer', s', r', toR', toS', h)
<1>1. s \in Senders(xfer) /\ r \in Receivers /\ toS \in Seq(ToS)
  BY DEF Core, Types
<1>2. PlanFor(g, xfer)
  BY <1>1, PlanNowFits
<1>3. toS # <<>> /\ SenderTook
  BY DEF SenderRead, SenderCancelled, SenderPeerError, SenderPoked, SenderReply, SenderUnreadable,
         SenderWindow, SenderStream, SenderReads
<1>4. Tail(toS) \in Seq(ToS) /\ Shift(toS, Tail(toS), {"Y", "N"})
  BY <1>1, <1>3, TailFacts, TailShift
<1>5. Core(g, xfer, s, r, toR, Tail(toS), h)
  BY <1>4, ShiftS
<1>6. CASE \E b \in BOOLEAN : SenderFails(b)
  <2>1. PICK b \in BOOLEAN : SenderFails(b)
    BY <1>6
  <2>2. Core(g, xfer, s', r, toR', Tail(toS), h) /\ s'.sess = s.sess
    BY <1>2, <1>4, <2>1, FailsKeeps
  <2> QED
    BY <1>3, <2>2, TookKeeps
<1>7. CASE SenderCancelled
  <2>1. PICK p \in Range(toS) : SenderFails(p.k = "CAN")
    BY <1>7 DEF SenderCancelled
  <2>2. (p.k = "CAN") \in BOOLEAN
    OBVIOUS
  <2> QED
    BY <1>6, <2>1, <2>2
<1>8. CASE SenderPeerError
  BY <1>6, <1>8 DEF SenderPeerError
<1>9. CASE SenderPoked
  <2>1. s.pc = "poke" /\ Enter([s EXCEPT !.pc = "S"], 0)
    BY <1>9 DEF SenderPoked
  <2>2. Core(g, xfer, s', r, toR', Tail(toS), h) /\ s'.sess = s.sess
    BY <1>2, <1>5, <2>1, PokedKeeps
  <2> QED
    BY <1>3, <2>2, TookKeeps
<1>10. CASE SenderReply
  BY <1>10, SenderReplyKeeps
<1>11. CASE SenderUnreadable
  <2>1. s.pc \in StopAndWait /\ Resend(TRUE)
    BY <1>11 DEF SenderUnreadable
  <2>2. Core(g, xfer, s', r, toR', Tail(toS), h) /\ s'.sess = s.sess
    BY <1>2, <1>5, <2>1, ResendKeeps
  <2> QED
    BY <1>3, <2>2, TookKeeps
<1>12. CASE SenderWindow
  BY <1>12, SenderWindowKeeps
<1>13. CASE SenderStream
  BY <1>1, <1>13, SenderFields DEF SenderStream, StopAndWait, Done
<1> QED
  BY <1>7, <1>8, <1>9, <1>10, <1>11, <1>12, <1>13 DEF SenderRead

-----------------------------------------------------------------------------
(* The receiver's steps that leave what it has received alone.               *)

LEMMA ReceiverFields ==
  ASSUME NEW t \in Receivers
  PROVE  /\ t.pc \in {"init", "run", "drain"} \cup Done /\ t.exp \in 0..Numbers - 1 /\ t.sess \in Caps
         /\ t.replay \in PacketsOf({"Y"}) /\ t.fails \in 0..MaxRetries /\ t.idle \in Nat
         /\ t.buf \in SUBSET PacketsOf({"D"}) /\ t.naked \in BOOLEAN /\ t.pend \in Nat
         /\ t.files \in Seq(FileRecords)
  BY DEF Receivers

LEMMA ReplyType ==
  ASSUME NEW k, k \in {"Y", "N", "E"}, NEW n \in Int, NEW chk \in 1..3
  PROVE  Reply(k, n, chk) \in ToS /\ Reply(k, n, chk).k = k /\ Reply(k, n, chk).seq = n
         /\ Reply(k, n, chk).pos = 0
<1>1. Classic \in Caps
  BY DEF Classic, Caps
<1> QED
  BY <1>1 DEF Reply, Packet, ToS, PacketsOf

\* The loop of the receiver ends with an error, told to the sender or not.
LEMMA ReceiverFailsKeeps ==
  ASSUME NEW g, NEW x, NEW u, NEW qR, NEW qR2, NEW h, Core(g, x, u, r, qR, toS, h), Alive(r.pc),
         qR2 \in Seq(ToR), Shift(qR, qR2, StopAndWait), ReceiverFails(<<>>) \/ Abort
  PROVE  Core(g, x, u, r', qR2, toS', h) /\ r'.sess = r.sess
<1> DEFINE t2 == [r EXCEPT !.pc = "err", !.buf = {}]
           p == Reply("E", r.exp, r.sess.chk)
<1>1. r \in Receivers /\ toS \in Seq(ToS)
  BY DEF Core, Types
<1>2. r.exp \in Int /\ r.sess.chk \in 1..3
  <2>1. r.exp \in 0..Numbers - 1 /\ r.sess \in Caps
    BY <1>1, ReceiverFields
  <2> QED
    BY <2>1, CapsFacts
<1>3. p \in ToS /\ p.k = "E"
  BY <1>2, ReplyType
<1>4. r' = t2 /\ (toS' = toS \/ toS' = toS \o <<p>>)
  <2>1. toS \o <<>> = toS
    BY <1>1
  <2> QED
    BY <2>1 DEF ReceiverFails, Abort, Answer, WriteToS
<1>5. t2.sess = r.sess
  BY <1>1 DEF Receivers
<1> HIDE DEF t2, p
<1>6. Core(g, x, u, t2, qR2, toS', h)
  BY <1>3, <1>4, ReceiverEnds DEF t2
<1> QED
  BY <1>4, <1>5, <1>6

\* Two receivers that have received the same.
Alike(t, t2) ==
  /\ t2.pc = t.pc /\ t2.exp = t.exp /\ t2.sess = t.sess /\ t2.files = t.files
  /\ t2.pend = t.pend /\ t2.buf = t.buf

LEMMA AlikeFacts ==
  ASSUME NEW g, NEW t, NEW t2, Alike(t, t2)
  PROVE  /\ Exp(g, t2) = Exp(g, t) /\ BufAt(g, t2) = BufAt(g, t)
         /\ \A n : Rcvd(g, t2, n) <=> Rcvd(g, t, n)
         /\ Pending(g, t2) <=> Pending(g, t)
         /\ FilesShape(g, t2) <=> FilesShape(g, t)
         /\ \A h : BufShape(g, t2, h) <=> BufShape(g, t, h)
         /\ \A h, q : PacketsSound(g, t2, h, q) <=> PacketsSound(g, t, h, q)
         /\ \A u, h, q : Sent(g, u, t2, h, q) <=> Sent(g, u, t, h, q)
         /\ \A u, h, ys : NewReplies(g, u, t2, h, ys) <=> NewReplies(g, u, t, h, ys)
<1>1. Exp(g, t2) = Exp(g, t) /\ BufAt(g, t2) = BufAt(g, t)
  BY DEF Alike, Exp, BufAt, LastFile
<1>2. \A n : Rcvd(g, t2, n) <=> Rcvd(g, t, n)
  BY <1>1 DEF Rcvd
<1>3. Pending(g, t2) <=> Pending(g, t)
  BY DEF Alike, Pending, LastFile
<1>4. FilesShape(g, t2) <=> FilesShape(g, t)
  BY DEF Alike, FilesShape, LastFile
<1>5. \A h : BufShape(g, t2, h) <=> BufShape(g, t, h)
  BY <1>1 DEF Alike, BufShape
<1>6. \A h, q : PacketsSound(g, t2, h, q) <=> PacketsSound(g, t, h, q)
  BY DEF Alike, PacketsSound, PacketSound
<1>7. \A u, h, q : Sent(g, u, t2, h, q) <=> Sent(g, u, t, h, q)
  BY <1>2 DEF Alike, Sent
<1>8. \A u, h, ys : NewReplies(g, u, t2, h, ys) <=> NewReplies(g, u, t, h, ys)
  <2>1. \A u, y, m : ReplyTells(g, u, t2, y, m) <=> ReplyTells(g, u, t, y, m)
    BY DEF Alike, ReplyTells
  <2> QED
    BY <1>1, <1>2, <2>1 DEF Alike, NewReplies
<1> QED
  BY <1>1, <1>2, <1>3, <1>4, <1>5, <1>6, <1>7, <1>8

\* The receiver answers something and changes only its counters and the kept ACK.
LEMMA ReceiverStays ==
  ASSUME NEW g, NEW x, PlanFor(g, x), NEW u, NEW t, NEW t2, NEW qR, NEW qR2, NEW qS, NEW qS2,
         NEW h, NEW ys, Core(g, x, u, t, qR, qS, h), Alive(t.pc), t.pc # "init",
         t2 \in Receivers, Alike(t, t2), t2.idle <= NoProgress * t.sess.window,
         Replay(g, t2), u.pc \in {"poke", "S"} => t2.replay = t.replay,
         qR2 \in Seq(ToR), Shift(qR, qR2, StopAndWait),
         ys \in Seq(ToS), Alive(u.pc) => NewReplies(g, u, t, h, ys), qS2 = qS \/ qS2 = qS \o ys
  PROVE  Core(g, x, u, t2, qR2, qS2, h)
<1>1. Core(g, x, u, t, qR2, qS, h)
  BY ShiftR
<1>2. /\ h \in Nat /\ Exp(g, t) \in Nat /\ t.sess.window \in Nat
  BY <1>1, CoreFacts
<1>3. Alive(t2.pc) /\ t2.sess = t.sess /\ t2.pc # "init"
  BY DEF Alike
<1>4. Types(x, u, t2, qR2, qS)
  BY <1>1 DEF Core, Types, Alike
<1>5. Sessions(x, u, t2, qR2)
  BY <1>1, <1>3 DEF Core, Sessions, Alike
<1>6. FilesShape(g, t2) /\ PacketsSound(g, t2, h, qR2) /\ (Alive(u.pc) => Sent(g, u, t2, h, qR2))
  BY <1>1, AlikeFacts DEF Core
<1>7. ReceiverShape(g, t2, h)
  <2>1. ReceiverShape(g, t, h)
    BY <1>1 DEF Core
  <2>2. /\ Exp(g, t2) = Exp(g, t) /\ (Pending(g, t2) <=> Pending(g, t))
        /\ (BufShape(g, t2, h) <=> BufShape(g, t, h))
    BY AlikeFacts
  <2> QED
    BY <2>1, <2>2 DEF ReceiverShape, Alike
<1>8. Alive(u.pc) => NewReplies(g, u, t2, h, ys)
  BY AlikeFacts
<1>9. h <= h /\ Exp(g, t) <= Exp(g, t2) /\ t.sess.window <= t2.sess.window
  BY <1>2, <1>3, AlikeFacts
<1>10. \A n \in Nat : Rcvd(g, t, n) => Rcvd(g, t2, n)
  BY AlikeFacts
<1> QED
  BY <1>1, <1>2, <1>3, <1>4, <1>5, <1>6, <1>7, <1>8, <1>9, <1>10, ReceiverSteps

\* A NAK of the expected packet says nothing that is not so.
LEMMA NakTells ==
  ASSUME NEW g, NEW x, PlanFor(g, x), NEW u, NEW t, NEW qR, NEW qS, NEW h,
         Core(g, x, u, t, qR, qS, h), t.pc = "run"
  PROVE  /\ Nak(t) \in ToS /\ <<Nak(t)>> \in Seq(ToS)
         /\ NewReplies(g, u, t, h, <<Nak(t)>>) /\ h = Exp(g, t)
<1> DEFINE y == Nak(t)
<1>1. /\ t \in Receivers /\ h \in Nat /\ Exp(g, t) \in Nat /\ Exp(g, t) <= BreakAt(g)
      /\ t.sess \in Caps /\ t.sess.window \in Nat
  BY CoreFacts
<1>2. h = Exp(g, t) /\ t.exp = Exp(g, t) % Numbers
  <2>1. ReceiverShape(g, t, h)
    BY DEF Core, Alive, Done
  <2>2. Exp(g, t) <= h /\ ~(h > Exp(g, t)) /\ t.exp = Exp(g, t) % Numbers
    BY <1>1, <2>1 DEF ReceiverShape
  <2> QED
    BY <1>1, <2>2
<1>3. y \in ToS /\ y.k = "N" /\ y.seq = t.exp
  <2>1. t.exp \in Int /\ t.sess.chk \in 1..3
    BY <1>1, CapsFacts, ReceiverFields
  <2> QED
    BY <2>1, ReplyType DEF Nak
<1> HIDE DEF y
<1>4. ReplyTells(g, u, t, y, h)
  BY <1>1, <1>2, <1>3 DEF ReplyTells
<1>5. h <= h + t.sess.window /\ h <= Exp(g, t)
  BY <1>1, <1>2
<1>6. NewReplies(g, u, t, h, <<y>>)
  <2>1. y.seq = h % Numbers
    BY <1>2, <1>3
  <2> QED
    BY <1>1, <1>3, <1>4, <1>5, <2>1 DEF NewReplies
<1>7. <<y>> \in Seq(ToS)
  BY <1>3
<1> QED
  BY <1>2, <1>3, <1>6, <1>7 DEF y

LEMMA WriteToSIs ==
  ASSUME NEW ps
  PROVE  WriteToS(ps) = toS \/ WriteToS(ps) = toS \o ps
  BY DEF WriteToS

\* A read error.
LEMMA ReadErrorKeeps ==
  ASSUME NEW g, NEW x, PlanFor(g, x), NEW u, NEW qR, NEW qR2, NEW h, Core(g, x, u, r, qR, toS, h),
         r.pc = "run", qR2 \in Seq(ToR), Shift(qR, qR2, StopAndWait), ReadError
  PROVE  Core(g, x, u, r', qR2, toS', h) /\ r'.sess = r.sess
<1>1. Alive(r.pc)
  BY DEF Alive, Done
<1>2. CASE r.fails + 1 > MaxRetries
  BY <1>1, <1>2, ReceiverFailsKeeps DEF ReadError
<1>3. CASE ~(r.fails + 1 > MaxRetries)
  <2> DEFINE t2 == [r EXCEPT !.fails = @ + 1]
             ys == <<Nak(r)>>
  <2>1. r' = t2 /\ (toS' = toS \/ toS' = toS \o ys)
    BY <1>3, WriteToSIs DEF ReadError, Answer
  <2>2. r \in Receivers /\ r.idle <= NoProgress * r.sess.window /\ ReceiverShape(g, r, h)
    BY <1>1 DEF Core, Types
  <2>3. r.fails + 1 \in 0..MaxRetries
    BY <1>3, <2>2, KermitAssumption DEF Receivers
  <2>4. t2 \in Receivers /\ Alike(r, t2) /\ t2.idle = r.idle /\ t2.replay = r.replay /\ t2.sess = r.sess
    BY <2>2, <2>3 DEF Receivers, Alike
  <2>5. ys \in Seq(ToS) /\ NewReplies(g, u, r, h, ys)
    BY NakTells
  <2> HIDE DEF t2, ys
  <2>6. Replay(g, t2)
    <3>1. Exp(g, t2) = Exp(g, r)
      BY <2>4, AlikeFacts
    <3> QED
      BY <2>2, <2>4, <3>1 DEF ReceiverShape, Replay
  <2>7. t2.idle <= NoProgress * r.sess.window /\ r.pc # "init"
    BY <2>2, <2>4
  <2>8. Core(g, x, u, t2, qR2, toS', h)
    BY <1>1, <2>1, <2>4, <2>5, <2>6, <2>7, ReceiverStays
  <2> QED
    BY <2>1, <2>4, <2>8
<1> QED
  BY <1>2, <1>3

\* The receiver's wait runs out.
LEMMA ReceiverSilenceKeeps ==
  ASSUME NEW g, NEW x, PlanFor(g, x), NEW u, NEW qR, NEW h, Core(g, x, u, r, qR, toS, h),
         ReceiverSilence
  PROVE  Core(g, x, u, r', qR, toS', h) /\ r'.sess = r.sess
<1>1. qR \in Seq(ToR) /\ Shift(qR, qR, StopAndWait)
  BY SameShift DEF Core, Types
<1>2. CASE r.pc = "init" /\ ReceiverFails(<<>>)
  BY <1>1, <1>2, ReceiverFailsKeeps DEF Alive, Done
<1>3. CASE r.pc = "run" /\ ReadError
  BY <1>1, <1>3, ReadErrorKeeps
<1> QED
  BY <1>2, <1>3 DEF ReceiverSilence

\* An intact packet: the kept ACK is dropped once its packet is too far back, and not before.
LEMMA RefreshedKeeps ==
  ASSUME NEW g, NEW x, PlanFor(g, x), NEW u, NEW t, NEW qR, NEW qS, NEW h,
         Core(g, x, u, t, qR, qS, h), t.pc \in {"run", "drain"}
  PROVE  /\ Core(g, x, u, Refreshed(t), qR, qS, h)
         /\ Refreshed(t) \in Receivers /\ Alike(t, Refreshed(t))
         /\ Refreshed(t).idle = t.idle /\ Refreshed(t).naked = t.naked
         /\ Refreshed(t).replay.seq # None /\ Refreshed(t).replay.pos # 0
              => Exp(g, t) <= 2 + t.sess.window
<1> DEFINE w == t.sess.window
           E == Exp(g, t)
           drop == t.replay.seq # None /\ Dist(t.replay.seq, t.exp) > w
           t2 == Refreshed(t)
<1>1. /\ t \in Receivers /\ E \in Nat /\ w \in Nat /\ w >= 1 /\ 2 * w < Numbers
      /\ qR \in Seq(ToR) /\ h \in Nat
  BY CoreFacts
<1>2. ReceiverShape(g, t, h) /\ t.idle <= NoProgress * t.sess.window /\ Alive(t.pc) /\ t.pc # "init"
  BY DEF Core, Types, Alive, Done
<1>3. t.exp = E % Numbers /\ Replay(g, t)
  BY <1>2 DEF ReceiverShape
<1>4. E >= 2 /\ E <= 3 + w => Dist(2 % Numbers, t.exp) = E - 2
  <2>1. E <= 3 + w => E - 2 < Numbers
    BY <1>1, NumbersType
  <2> QED
    BY <1>1, <1>3, <2>1, DistPlaces
<1>5. NoReplay \in PacketsOf({"Y"}) /\ NoReplay.seq = None
  <2>1. Classic \in Caps
    BY DEF Classic, Caps
  <2> QED
    BY <2>1 DEF NoReplay, Reply, Packet, PacketsOf, None
<1>6. /\ t2 \in Receivers /\ Alike(t, t2) /\ t2.idle = t.idle /\ t2.naked = t.naked
      /\ t2.replay = IF drop THEN NoReplay ELSE t.replay
  <2> DEFINE rp == IF drop THEN NoReplay ELSE t.replay
  <2>1. 0 \in 0..MaxRetries
    BY KermitAssumption
  <2>2. t2 = [t EXCEPT !.fails = 0, !.replay = rp]
    BY <1>1 DEF Refreshed, Receivers
  <2>3. rp \in PacketsOf({"Y"})
    BY <1>1, <1>5 DEF Receivers
  <2> HIDE DEF rp, t2
  <2>4. t2 \in Receivers /\ t2.replay = rp
    BY <1>1, <2>1, <2>2, <2>3 DEF Receivers
  <2>5. Alike(t, t2) /\ t2.idle = t.idle /\ t2.naked = t.naked
    BY <1>1, <2>2 DEF Receivers, Alike
  <2> QED
    BY <2>4, <2>5 DEF rp
<1> HIDE DEF t2
<1>7. Exp(g, t2) = E /\ t2.sess = t.sess
  BY <1>6, AlikeFacts DEF Alike
<1>8. t2.replay.seq # None /\ t2.replay.pos # 0 =>
        t2.replay.pos = g.skip /\ t2.replay.seq = 2 % Numbers /\ E <= 2 + w
  <2> HAVE t2.replay.seq # None /\ t2.replay.pos # 0
  <2>1. ~drop /\ t2.replay = t.replay
    BY <1>5, <1>6
  <2>2. t2.replay.pos = g.skip /\ t2.replay.seq = 2 % Numbers /\ E <= 3 + w
    BY <1>3, <2>1 DEF Replay
  <2>3. ~(Dist(2 % Numbers, t.exp) > w)
    BY <2>1, <2>2
  <2> QED
    BY <1>1, <1>4, <2>2, <2>3
<1>9. g.att = 1 /\ g.skip > 0 /\ E \in 3 .. 2 + w => t2.replay.seq = 2 % Numbers /\ t2.replay.pos = g.skip
  <2> HAVE g.att = 1 /\ g.skip > 0 /\ E \in 3 .. 2 + w
  <2>1. t.replay.seq = 2 % Numbers /\ t.replay.pos = g.skip
    BY <1>3 DEF Replay
  <2>2. ~(Dist(2 % Numbers, t.exp) > w)
    BY <1>1, <1>4
  <2> QED
    BY <1>6, <2>1, <2>2
<1>10. Replay(g, t2)
  BY <1>1, <1>7, <1>8, <1>9 DEF Replay
<1>11. u.pc \in {"poke", "S"} => t2.replay = t.replay
  <2> HAVE u.pc \in {"poke", "S"}
  <2>1. t.files = <<>> /\ t.replay.seq = 0
    BY DEF Core, Sessions
  <2>2. E = 1
    BY <1>2, <2>1 DEF Exp
  <2>3. 0 % Numbers = 0 /\ 1 - 0 < Numbers
    BY <1>1, NumbersType, DivModUnique
  <2>4. Dist(0 % Numbers, 1 % Numbers) = 1
    BY <2>3, DistPlaces
  <2>5. ~drop
    BY <1>1, <1>3, <2>1, <2>2, <2>3, <2>4
  <2> QED
    BY <1>6, <2>5
<1>12. Core(g, x, u, t2, qR, qS, h)
  <2>1. Shift(qR, qR, StopAndWait)
    BY <1>1, SameShift
  <2>2. <<>> \in Seq(ToS) /\ NewReplies(g, u, t, h, <<>>)
    BY DEF NewReplies
  <2>3. t2.idle <= NoProgress * t.sess.window
    BY <1>2, <1>6
  <2> QED
    BY <1>1, <1>2, <1>6, <1>10, <1>11, <2>1, <2>2, <2>3, ReceiverStays
<1> QED
  BY <1>6, <1>8, <1>12 DEF t2

\* What the receiver makes of the number of a packet: the hole, ahead of it or behind it.
LEMMA HeadPlace ==
  ASSUME NEW g, NEW x, PlanFor(g, x), NEW u, NEW t, NEW qR, NEW qS, NEW h,
         Core(g, x, u, t, qR, qS, h), t.pc = "run", qR # <<>>,
         NEW p, p = Head(qR), p.k \in StopAndWait
  PROVE  /\ PacketSound(g, t, h, p) /\ h = Exp(g, t) /\ At(g, p) \in Nat /\ p.seq = At(g, p) % Numbers
         /\ p.seq = t.exp => At(g, p) = h
         /\ p.seq # t.exp /\ Dist(t.exp, p.seq) < t.sess.window => At(g, p) > h
         /\ Dist(t.exp, p.seq) >= t.sess.window => At(g, p) < h
         /\ h <= At(g, p) + t.sess.window /\ At(g, p) < h + t.sess.window
         /\ Alive(u.pc) => At(g, p) < SendNext(g, u)
<1> DEFINE a == At(g, p)
           w == t.sess.window
<1>1. /\ g \in Plans /\ h \in Nat /\ w \in Nat /\ w >= 1 /\ 2 * w < Numbers /\ qR \in Seq(ToR)
      /\ 1 \in DOMAIN qR /\ p = qR[1]
  BY CoreFacts, TailFacts
<1>2. h = Exp(g, t) /\ t.exp = h % Numbers
  <2>1. ReceiverShape(g, t, h)
    BY DEF Core, Alive, Done
  <2> QED
    BY <2>1, NakTells DEF ReceiverShape
<1>3. PacketSound(g, t, h, p) /\ (Alive(u.pc) => a < SendNext(g, u))
  BY <1>1 DEF Core, Alive, Done, PacketsSound, Sent, Carries
<1>4. p.seq = a % Numbers /\ h <= a + w /\ a < h + w
  BY <1>3 DEF PacketSound, GoodPacket
<1>5. a \in Nat
  BY <1>1, <1>3, PlaceBounds DEF PacketSound, GoodPacket, At
<1> HIDE DEF a, w
<1>6. a >= h => Dist(t.exp, p.seq) = a - h
  <2>1. h \in Int /\ a \in Int /\ a - h < Numbers
    BY <1>1, <1>4, <1>5, NumbersType
  <2> QED
    BY <1>2, <1>4, <2>1, DistPlaces
<1>7. a < h => Dist(t.exp, p.seq) = Numbers - (h - a)
  <2>1. h \in Int /\ a \in Int /\ h - a < Numbers
    BY <1>1, <1>4, <1>5, NumbersType
  <2> QED
    BY <1>2, <1>4, <2>1, DistBack
<1>8. p.seq = t.exp => a = h
  <2> HAVE p.seq = t.exp
  <2>1. h - a < Numbers /\ a - h < Numbers
    BY <1>1, <1>4, <1>5, NumbersType
  <2>2. a % Numbers = h % Numbers /\ a \in Int /\ h \in Int
    BY <1>1, <1>2, <1>4, <1>5
  <2> QED
    BY <2>1, <2>2, SameNumber
<1>9. Dist(t.exp, p.seq) < w => a >= h
  BY <1>1, <1>4, <1>5, <1>7, NumbersType
<1>10. Dist(t.exp, p.seq) >= w => a < h
  BY <1>1, <1>4, <1>5, <1>6, NumbersType
<1>11. a = h => p.seq = t.exp
  BY <1>2, <1>4
<1>12. p.seq # t.exp /\ Dist(t.exp, p.seq) < w => a > h
  BY <1>1, <1>5, <1>9, <1>11
<1> QED
  BY <1>2, <1>3, <1>4, <1>5, <1>8, <1>10, <1>12 DEF a, w

\* A packet that came before is acknowledged as it was then, its data included.
LEMMA ReAckTells ==
  ASSUME NEW g, NEW x, PlanFor(g, x), NEW u, NEW t, NEW qR, NEW qS, NEW h,
         Core(g, x, u, t, qR, qS, h), t.pc = "run", qR # <<>>, Alive(u.pc),
         NEW p, p = Head(qR), p.k \in StopAndWait, At(g, p) < h,
         t.replay.seq # None /\ t.replay.pos # 0 => Exp(g, t) <= 2 + t.sess.window
  PROVE  <<ReAck(t, p)>> \in Seq(ToS) /\ NewReplies(g, u, t, h, <<ReAck(t, p)>>)
<1> DEFINE a == At(g, p)
           w == t.sess.window
           y == ReAck(t, p)
<1>1. /\ g \in Plans /\ t \in Receivers /\ h \in Nat /\ w \in Nat /\ w >= 1 /\ 2 * w < Numbers
      /\ Exp(g, t) <= BreakAt(g) /\ BreakAt(g) \in Nat /\ Numbers \in Nat /\ t.sess \in Caps
  BY CoreFacts, NumbersType
<1>2. /\ h = Exp(g, t) /\ a \in Nat /\ p.seq = a % Numbers /\ h <= a + w /\ a < h
      /\ a < SendNext(g, u)
  BY HeadPlace
<1>3. p.seq \in Nat
  <2>1. a % Numbers \in 0..Numbers - 1
    BY <1>2, NumbersType, DivMod
  <2> QED
    BY <1>2, <2>1
<1>4. y.k = "Y" /\ y.seq = p.seq /\ y \in ToS
      /\ (t.replay.seq = p.seq => y = t.replay) /\ (t.replay.seq # p.seq => y.pos = 0)
  <2>1. t.replay \in ToS /\ t.replay.k = "Y"
    BY <1>1, ReceiverFields, PacketFields DEF ToS, PacketsOf
  <2>2. t.sess.chk \in 1..3
    BY <1>1, CapsFacts
  <2> QED
    BY <1>3, <2>1, <2>2, ReplyType DEF ReAck
<1>5. ReceiverShape(g, t, h)
  BY DEF Core, Alive, Done
<1> HIDE DEF a, w, y
<1>6. \A f \in 1..g.files : g.att = 1 /\ a = First(g, f) + 1 => y.pos = Skip(g, f)
  <2> SUFFICES ASSUME NEW f \in 1..g.files, g.att = 1, a = First(g, f) + 1
               PROVE  y.pos = Skip(g, f)
    OBVIOUS
  <2>1. f \in Nat \ {0} /\ g.files \in Nat /\ g.skip \in Nat /\ 1 \in Nat \ {0} /\ g.chunks \in Nat
    BY <1>1, PlanFacts
  <2>2. /\ y.pos # 0 => /\ y = t.replay /\ t.replay.seq # None /\ t.replay.seq = a % Numbers
                        /\ y.pos = g.skip /\ t.replay.seq = 2 % Numbers /\ h <= 2 + w
    <3>1. y.pos # 0 => y = t.replay /\ t.replay.seq # None /\ t.replay.seq = a % Numbers
      BY <1>2, <1>3, <1>4 DEF None
    <3>2. y.pos # 0 => y.pos = g.skip /\ t.replay.seq = 2 % Numbers /\ h <= 2 + w
      BY <1>2, <1>5, <3>1 DEF ReceiverShape, Replay, w
    <3> QED
      BY <3>1, <3>2
  <2>3. First(g, 1) = 1 /\ Skip(g, 1) = g.skip
    BY <1>1, PlanFacts DEF First, Skip
  <2>4. CASE f = 1
    <3>1. a = 2 /\ Skip(g, f) = g.skip
      BY <2>3, <2>4
    <3>2. g.skip > 0 => y.pos = g.skip
      <4> HAVE g.skip > 0
      <4>1. h \in 3 .. 2 + w
        BY <1>1, <1>2, <3>1
      <4>2. t.replay.seq = 2 % Numbers /\ t.replay.pos = g.skip
        BY <1>2, <1>5, <4>1 DEF ReceiverShape, Replay, w
      <4> QED
        BY <1>2, <1>4, <3>1, <4>2
    <3> QED
      BY <2>1, <2>2, <3>1, <3>2
  <2>5. CASE f # 1
    <3>1. Skip(g, f) = 0
      BY <2>5 DEF Skip
    <3>2. a > 2
      <4>1. First(g, 2) <= First(g, f) /\ First(g, f) \in Nat /\ First(g, 2) \in Nat
        <5>1. 1 < f /\ 1 + 1 = 2 /\ 2 \in Nat \ {0}
          BY <2>1, <2>5
        <5> QED
          BY <1>1, <2>1, <5>1, FirstMonotone, FirstFacts
      <4>2. First(g, 2) = 1 + 2 + g.att + g.chunks - Skip(g, 1)
        <5>1. First(g, 1 + 1) = First(g, 1) + 2 + g.att + g.chunks - Skip(g, 1)
          BY <1>1, <2>1, FirstFacts
        <5> QED
          BY <2>3, <5>1
      <4>3. Skip(g, 1) \in 0..g.chunks
        BY <1>1, <2>1, PlanFacts
      <4> QED
        BY <2>1, <4>1, <4>2, <4>3
    <3>3. y.pos # 0 => a = 2
      <4> HAVE y.pos # 0
      <4>1. a % Numbers = 2 % Numbers /\ h <= 2 + w
        BY <2>2
      <4>2. a - 2 < Numbers /\ 2 - a < Numbers /\ a \in Int /\ 2 \in Int
        BY <1>1, <1>2, <3>2, <4>1
      <4> QED
        BY <4>1, <4>2, SameNumber
    <3> QED
      BY <1>2, <3>1, <3>2, <3>3
  <2> QED
    BY <2>4, <2>5
<1>7. u.pc = "S" => y.caps = t.sess
  <2> HAVE u.pc = "S"
  <2>1. SendNext(g, u) = 1
    BY DEF SendNext, Waits, Place
  <2>2. a = 0
    BY <1>2, <2>1
  <2>3. p.seq = 0
    BY <1>2, <2>2, NumbersType, DivModUnique
  <2>4. t.replay.seq = 0 /\ t.replay.caps = t.sess
    BY DEF Core, Sessions
  <2> QED
    BY <1>4, <2>3, <2>4
<1>8. ~(a >= BreakAt(g)) /\ y.k # "N"
  BY <1>1, <1>2, <1>4
<1>9. ReplyTells(g, u, t, y, a)
  BY <1>6, <1>7, <1>8 DEF ReplyTells
<1>10. Rcvd(g, t, a)
  BY <1>2 DEF Rcvd
<1>11. NewReplies(g, u, t, h, <<y>>)
  <2>1. y.seq = a % Numbers /\ h <= a + t.sess.window
    BY <1>2, <1>4 DEF w
  <2> QED
    BY <1>2, <1>4, <1>9, <1>10, <2>1 DEF NewReplies
<1> QED
  BY <1>4, <1>11 DEF y

\* A packet ahead of the hole is put aside once.
PutAside(t, p) == IF \E b \in t.buf : b.seq = p.seq THEN t.buf ELSE t.buf \cup {p}

LEMMA PutAsideKeeps ==
  ASSUME NEW g, NEW x, PlanFor(g, x), NEW u, NEW t, NEW t2, NEW qR, NEW qS, NEW qS2, NEW h, NEW ys,
         Core(g, x, u, t, qR, qS, h), t.pc = "run", qR # <<>>,
         NEW p, p = Head(qR), p.k \in StopAndWait, At(g, p) > h,
         t2 \in Receivers, t2.pc = t.pc, t2.exp = t.exp, t2.sess = t.sess, t2.files = t.files,
         t2.pend = t.pend, t2.replay = t.replay, t2.buf = PutAside(t, p),
         t2.idle <= NoProgress * t.sess.window,
         ys = <<Reply("Y", p.seq, t.sess.chk)>> \/ ys = <<Reply("Y", p.seq, t.sess.chk), Nak(t)>>,
         qS2 = qS \/ qS2 = qS \o ys
  PROVE  Core(g, x, u, t2, Tail(qR), qS2, h)
<1> DEFINE a == At(g, p)
           w == t.sess.window
           y == Reply("Y", p.seq, t.sess.chk)
           q == Tail(qR)
<1>1. /\ g \in Plans /\ t \in Receivers /\ h \in Nat /\ w \in Nat /\ w >= 1 /\ 2 * w < Numbers
      /\ BreakAt(g) \in Nat /\ Numbers \in Nat /\ t.sess \in Caps /\ Exp(g, t) \in Nat
      /\ qR \in Seq(ToR) /\ Exp(g, t) <= BreakAt(g)
  BY CoreFacts, NumbersType
<1>2. /\ h = Exp(g, t) /\ a \in Nat /\ p.seq = a % Numbers /\ a > h /\ a < h + w
      /\ PacketSound(g, t, h, p) /\ (Alive(u.pc) => a < SendNext(g, u))
  BY HeadPlace
<1>3. p.k = "D" /\ GoodPacket(g, p)
  BY <1>2 DEF PacketSound
<1>4. q \in Seq(ToR) /\ p \in ToR /\ p = qR[1] /\ 1 \in DOMAIN qR
      /\ \A j \in DOMAIN q : q[j] = qR[j + 1] /\ j + 1 \in DOMAIN qR
  BY <1>1, TailFacts
<1>5. p.seq \in Int
  BY <1>1, <1>2, NumbersType, DivMod
<1>6. ReceiverShape(g, t, h) /\ PacketsSound(g, t, h, qR) /\ (Alive(u.pc) => Sent(g, u, t, h, qR))
      /\ Sessions(x, u, t, qR) /\ Types(x, u, t, qR, qS) /\ FilesShape(g, t)
  BY DEF Core, Alive, Done
<1>7. BufShape(g, t, h)
  BY <1>6 DEF ReceiverShape
<1>8. \A b \in t.buf : At(g, b) \in Nat /\ b.seq = At(g, b) % Numbers /\ h <= At(g, b) /\ At(g, b) < h + w
  <2>1. \A b \in t.buf : GoodPacket(g, b) /\ At(g, b) \in Exp(g, t) .. h + w - 1
    BY <1>7 DEF BufShape
  <2>2. \A m \in Exp(g, t) .. h + w - 1 : m \in Nat /\ h <= m /\ m < h + w
    BY <1>1, <1>2
  <2>3. \A b \in t.buf : b.seq = At(g, b) % Numbers
    BY <2>1 DEF GoodPacket
  <2> HIDE DEF w
  <2> QED
    BY <2>1, <2>2, <2>3
<1> HIDE DEF a, w, q
<1>9. \A b \in t.buf : b.seq = p.seq <=> At(g, b) = a
  <2> SUFFICES ASSUME NEW b \in t.buf PROVE b.seq = p.seq <=> At(g, b) = a
    OBVIOUS
  <2> DEFINE c == At(g, b)
  <2>1. c \in Int /\ a \in Int /\ c - a < Numbers /\ a - c < Numbers
    BY <1>1, <1>2, <1>8
  <2>2. b.seq = c % Numbers /\ p.seq = a % Numbers
    BY <1>2, <1>8
  <2> HIDE DEF c
  <2>3. b.seq = p.seq => c = a
    BY <2>1, <2>2, SameNumber
  <2> QED
    BY <2>2, <2>3 DEF c
<1>10. a \in BufAt(g, t2) /\ \A b \in t2.buf : b \in t.buf \/ b = p
  BY <1>9 DEF PutAside, BufAt, a
<1>11. \A n : n \in BufAt(g, t) => n \in BufAt(g, t2)
  BY DEF PutAside, BufAt
<1>12. \A n : n \in BufAt(g, t2) => n \in BufAt(g, t) \/ n = a
  BY <1>10 DEF BufAt, a
<1>13. Exp(g, t2) = Exp(g, t)
  BY DEF Exp, LastFile
<1>14. \A n \in Nat : Rcvd(g, t, n) => Rcvd(g, t2, n)
  BY <1>11, <1>13 DEF Rcvd
<1>15. FilesShape(g, t2)
  BY <1>6 DEF FilesShape, LastFile
<1>16. Types(x, u, t2, q, qS)
  BY <1>4, <1>6 DEF Types
<1>17. Sessions(x, u, t2, q)
  BY <1>4, <1>6 DEF Sessions
<1>18. ReceiverShape(g, t2, h)
  <2>1. Pending(g, t2) /\ Replay(g, t2)
    BY <1>6, <1>13 DEF ReceiverShape, Pending, Replay, LastFile
  <2>2. BufShape(g, t2, h)
    <3>1. \A b \in t2.buf : GoodPacket(g, b) /\ At(g, b) # h /\ At(g, b) \in Exp(g, t) .. h + t.sess.window - 1
      <4>1. a # h /\ a \in Exp(g, t) .. h + w - 1
        BY <1>1, <1>2
      <4> QED
        BY <1>3, <1>7, <1>10, <4>1 DEF BufShape, a, w
    <3>2. \A b, c \in t2.buf : At(g, b) = At(g, c) => b = c
      <4> SUFFICES ASSUME NEW b \in t2.buf, NEW c \in t2.buf, At(g, b) = At(g, c) PROVE b = c
        OBVIOUS
      <4>1. CASE b \in t.buf /\ c \in t.buf
        BY <1>7, <4>1 DEF BufShape
      <4>2. CASE b = p /\ c \in t.buf
        <5>1. At(g, c) = a
          BY <4>2 DEF a
        <5>2. c.seq = p.seq
          BY <1>9, <4>2, <5>1
        <5>3. t2.buf = t.buf
          BY <4>2, <5>2 DEF PutAside
        <5> QED
          BY <1>7, <5>3 DEF BufShape
      <4>3. CASE c = p /\ b \in t.buf
        <5>1. At(g, b) = a
          BY <4>3 DEF a
        <5>2. b.seq = p.seq
          BY <1>9, <4>3, <5>1
        <5>3. t2.buf = t.buf
          BY <4>3, <5>2 DEF PutAside
        <5> QED
          BY <1>7, <5>3 DEF BufShape
      <4> QED
        BY <1>10, <4>1, <4>2, <4>3
    <3>3. \A m \in Exp(g, t) .. h - 1 : m \in BufAt(g, t2)
      BY <1>7, <1>11 DEF BufShape
    <3> QED
      BY <1>13, <3>1, <3>2, <3>3 DEF BufShape
  <2> QED
    BY <1>6, <1>13, <2>1, <2>2 DEF ReceiverShape
<1>19. PacketsSound(g, t2, h, q)
  <2> SUFFICES ASSUME NEW j \in DOMAIN q, Carries(q[j])
               PROVE  /\ PacketSound(g, t2, h, q[j])
                      /\ \A i \in 1..j - 1 : Carries(q[i]) => At(g, q[i]) < At(g, q[j]) + t2.sess.window
    BY DEF PacketsSound
  <2>1. j \in Nat /\ j >= 1 /\ j + 1 \in DOMAIN qR /\ q[j] = qR[j + 1] /\ \A i \in 1..j - 1 : i \in DOMAIN q
    BY <1>4, DomainFacts
  <2>2. /\ PacketSound(g, t, h, q[j])
        /\ \A i \in 1..j : Carries(qR[i]) => At(g, qR[i]) < At(g, q[j]) + w
    <3>1. \A i \in 1..j : i \in 1..(j + 1) - 1
      BY <2>1
    <3> QED
      BY <1>6, <2>1, <3>1 DEF PacketsSound, w
  <2>3. a < At(g, q[j]) + w
    <3>1. 1 \in 1..j /\ Carries(p)
      BY <1>3, <2>1 DEF Carries, StopAndWait
    <3> QED
      BY <1>4, <2>2, <3>1 DEF a
  <2>4. PacketSound(g, t2, h, q[j])
    BY <1>10, <2>2, <2>3 DEF PacketSound, a, w
  <2>5. \A i \in 1..j - 1 : i + 1 \in 1..j /\ q[i] = qR[i + 1]
    BY <1>4, <2>1
  <2> QED
    BY <2>2, <2>4, <2>5 DEF w
<1>20. Alive(u.pc) => Sent(g, u, t2, h, q)
  <2> HAVE Alive(u.pc)
  <2>1. Sent(g, u, t, h, qR) /\ a < SendNext(g, u)
    BY <1>2, <1>6
  <2>2. \A m \in 0 .. SendNext(g, u) - 1 : m \in Unacked(g, u) \/ Rcvd(g, t2, m)
    <3>1. \A m \in 0 .. SendNext(g, u) - 1 : m \in Nat
      OBVIOUS
    <3> QED
      BY <1>14, <2>1, <3>1 DEF Sent
  <2>3. \A b \in t2.buf : At(g, b) < SendNext(g, u)
    BY <1>10, <2>1 DEF Sent, a
  <2>4. \A j \in DOMAIN q : Carries(q[j]) => At(g, q[j]) < SendNext(g, u)
    BY <1>4, <2>1 DEF Sent
  <2> QED
    BY <2>1, <2>2, <2>3, <2>4 DEF Sent
<1>21. y \in ToS /\ y.k = "Y" /\ y.seq = p.seq /\ Nak(t) \in ToS
  <2>1. t.sess.chk \in 1..3
    BY <1>1, CapsFacts
  <2>2. Nak(t) \in ToS
    BY NakTells
  <2>3. "Y" \in {"Y", "N", "E"}
    OBVIOUS
  <2> QED
    BY <1>5, <2>1, <2>2, <2>3, ReplyType
<1> HIDE DEF y
<1>22. ys \in Seq(ToS)
  <2>1. <<y>> \in Seq(ToS) /\ <<y, Nak(t)>> \in Seq(ToS)
    BY <1>21
  <2> QED
    BY <2>1 DEF y
<1>23. Alive(u.pc) => NewReplies(g, u, t2, h, ys)
  <2> HAVE Alive(u.pc)
  <2>1. a < BreakAt(g) /\ a < SendNext(g, u)
    BY <1>1, <1>2, <1>3, PlaceBounds DEF GoodPacket, At, a
  <2>2. \A f \in 1..g.files : ~(g.att = 1 /\ a = First(g, f) + 1)
    <3> SUFFICES ASSUME NEW f \in 1..g.files, g.att = 1, a = First(g, f) + 1 PROVE FALSE
      OBVIOUS
    <3>1. Sendable(g, "A", f, g.chunks) /\ Place(g, "A", f, g.chunks) = First(g, f) + 1
      BY DEF Sendable, Place, StopAndWait
    <3>2. Sendable(g, p.k, p.f, p.pos) /\ Place(g, p.k, p.f, p.pos) = First(g, f) + 1
      BY <1>3 DEF GoodPacket, At, a
    <3>3. p.k = "A"
      BY <1>1, <3>1, <3>2, PlaceInjective
    <3> QED
      BY <1>3, <3>3
  <2>3. u.pc # "S"
    <3>1. u.pc = "S" => SendNext(g, u) = 1
      BY DEF SendNext, Waits, Place
    <3> QED
      BY <1>1, <1>2, <2>1, <3>1
  <2>4. ReplyTells(g, u, t2, y, a)
    <3>1. ~(a >= BreakAt(g))
      BY <1>1, <1>2, <2>1
    <3> QED
      BY <1>21, <2>2, <2>3, <3>1 DEF ReplyTells
  <2>5. h <= a + t2.sess.window /\ Rcvd(g, t2, a)
    BY <1>1, <1>2, <1>10 DEF Rcvd, w
  <2>6. \E m \in Nat :
          /\ y.seq = m % Numbers /\ h <= m + t2.sess.window
          /\ y.k = "Y" => Rcvd(g, t2, m)
          /\ y.k = "N" => m = h /\ h <= Exp(g, t2)
          /\ ReplyTells(g, u, t2, y, m)
    BY <1>2, <1>21, <2>4, <2>5
  <2>7. \E m \in Nat :
          /\ Nak(t).seq = m % Numbers /\ h <= m + t2.sess.window
          /\ Nak(t).k = "Y" => Rcvd(g, t2, m)
          /\ Nak(t).k = "N" => m = h /\ h <= Exp(g, t2)
          /\ ReplyTells(g, u, t2, Nak(t), m)
    <3>1. Nak(t).k = "N" /\ Nak(t).seq = h % Numbers
      BY <1>2, <1>6 DEF Nak, Reply, Packet, ReceiverShape
    <3>2. h <= BreakAt(g) /\ h <= Exp(g, t2) /\ h <= h + t2.sess.window
      BY <1>1, <1>2, <1>13 DEF w
    <3> QED
      BY <1>1, <3>1, <3>2 DEF ReplyTells
  <2>8. DOMAIN ys \subseteq {1, 2} /\ ys[1] = y /\ (2 \in DOMAIN ys => ys[2] = Nak(t))
    BY DEF y
  <2> QED
    BY <2>6, <2>7, <2>8 DEF NewReplies
<1>24. h <= h /\ Exp(g, t) <= Exp(g, t2) /\ t.sess.window <= t2.sess.window /\ Alive(t.pc) /\ Alive(t2.pc)
  BY <1>1, <1>13 DEF w, Alive, Done
<1>25. Core(g, x, u, t2, q, qS2, h)
  BY <1>1, <1>14, <1>15, <1>16, <1>17, <1>18, <1>19, <1>20, <1>22, <1>23, <1>24, ReceiverSteps
<1> QED
  BY <1>25 DEF q

LEMMA PairConcat ==
  ASSUME NEW c, NEW d
  PROVE  <<c>> \o <<d>> = <<c, d>>
<1> DEFINE S == {c, d}
           q == <<c>> \o <<d>>
<1>1. <<c>> \in Seq(S) /\ <<d>> \in Seq(S) /\ <<c, d>> \in Seq(S)
  OBVIOUS
<1>2. Len(<<c>>) = 1 /\ Len(<<d>>) = 1 /\ Len(<<c, d>>) = 2
  OBVIOUS
<1>3. q \in Seq(S) /\ Len(q) = 2 /\ q[1] = c /\ q[2] = d
  BY <1>1, <1>2
<1> HIDE DEF q, S
<1>4. DOMAIN q = 1..2 /\ DOMAIN <<c, d>> = 1..2
  BY <1>1, <1>2, <1>3
<1>5. \A i \in 1..2 : q[i] = <<c, d>>[i]
  <2>1. \A i \in 1..2 : i = 1 \/ i = 2
    OBVIOUS
  <2> QED
    BY <1>3, <2>1
<1>6. q = <<c, d>>
  BY <1>1, <1>2, <1>3, <1>5, SeqEqual
<1> QED
  BY <1>6 DEF q

\* A packet other than the expected one.
LEMMA OutOfOrderKeeps ==
  ASSUME NEW g, NEW x, PlanFor(g, x), NEW u, NEW h, Core(g, x, u, r, toR, toS, h), r.pc = "run",
         toR # <<>>, NEW p, p = Head(toR), p.k \in StopAndWait, p.seq # r.exp,
         OutOfOrder(Refreshed(r), p)
  PROVE  Core(g, x, u, r', Tail(toR), toS', h) /\ r'.sess = r.sess
<1> DEFINE t == Refreshed(r)
           t1 == [t EXCEPT !.idle = @ + 1]
           w == r.sess.window
           t2 == [t1 EXCEPT !.buf = PutAside(t, p), !.naked = TRUE]
<1>1. /\ Core(g, x, u, t, toR, toS, h) /\ t \in Receivers /\ Alike(r, t)
      /\ t.replay.seq # None /\ t.replay.pos # 0 => Exp(g, r) <= 2 + r.sess.window
  BY RefreshedKeeps
<1>2. t.pc = "run" /\ t.exp = r.exp /\ t.sess = r.sess /\ Exp(g, t) = Exp(g, r)
  BY <1>1, AlikeFacts DEF Alike
<1>3. /\ toR \in Seq(ToR) /\ Tail(toR) \in Seq(ToR) /\ Shift(toR, Tail(toR), StopAndWait)
      /\ h \in Nat /\ w \in Nat /\ t.idle \in Nat /\ toS \in Seq(ToS)
  <2>1. toR \in Seq(ToR) /\ h \in Nat /\ w \in Nat /\ t.idle \in Nat /\ toS \in Seq(ToS)
    BY <1>1, CoreFacts, ReceiverFields
  <2> QED
    BY <2>1, TailFacts, TailShift
<1>4. /\ At(g, p) \in Nat
      /\ Dist(t.exp, p.seq) < w => At(g, p) > h
      /\ Dist(t.exp, p.seq) >= w => At(g, p) < h
  <2>1. /\ At(g, p) \in Nat
        /\ p.seq # t.exp /\ Dist(t.exp, p.seq) < t.sess.window => At(g, p) > h
        /\ Dist(t.exp, p.seq) >= t.sess.window => At(g, p) < h
    BY <1>1, <1>2, HeadPlace
  <2> QED
    BY <1>2, <2>1
<1> HIDE DEF t
<1>5. /\ t1 \in Receivers /\ Alike(t, t1) /\ t1.idle = t.idle + 1 /\ t1.replay = t.replay
      /\ t1.sess = t.sess /\ t1.exp = t.exp /\ t1.naked = t.naked /\ t1.buf = t.buf
  <2> DEFINE i == t.idle + 1
  <2>1. t1 = [t EXCEPT !.idle = i]
    BY <1>1 DEF Receivers
  <2>2. t \in Receivers /\ i \in Nat
    BY <1>1, <1>3
  <2> HIDE DEF i, t1
  <2>3. t1 \in Receivers /\ t1.idle = i
    BY <2>1, <2>2 DEF Receivers
  <2>4. /\ Alike(t, t1) /\ t1.replay = t.replay
        /\ t1.sess = t.sess /\ t1.exp = t.exp /\ t1.naked = t.naked /\ t1.buf = t.buf
    BY <2>1, <2>2 DEF Receivers, Alike
  <2> QED
    BY <2>3, <2>4 DEF i
<1>6. ReAck(t1, p) = ReAck(t, p) /\ Nak(t1) = Nak(t)
  BY <1>5 DEF ReAck, Nak
<1>7. t1.idle <= NoProgress * w /\ p \in ToR /\ p.k = "D" =>
        /\ t2 \in Receivers /\ t2.pc = t.pc /\ t2.exp = t.exp /\ t2.sess = t.sess /\ t2.files = t.files
        /\ t2.pend = t.pend /\ t2.replay = t.replay /\ t2.buf = PutAside(t, p)
        /\ t2.idle <= NoProgress * t.sess.window
  <2> HAVE t1.idle <= NoProgress * w /\ p \in ToR /\ p.k = "D"
  <2>1. p \in PacketsOf({"D"})
    BY DEF ToR, PacketsOf, Strikes
  <2>2. PutAside(t, p) \in SUBSET PacketsOf({"D"})
    BY <1>1, <2>1, ReceiverFields DEF PutAside
  <2> DEFINE b == PutAside(t, p)
  <2> HIDE DEF b
  <2> HIDE DEF t1
  <2>3. t2 = [t1 EXCEPT !.buf = b, !.naked = TRUE] /\ t1 \in Receivers /\ b \in SUBSET PacketsOf({"D"})
    BY <1>5, <2>2 DEF b
  <2> HIDE DEF t2
  <2>4. t2 \in Receivers /\ t2.idle = t1.idle
    BY <2>3 DEF Receivers
  <2>5. /\ t2.pc = t.pc /\ t2.exp = t.exp /\ t2.sess = t.sess /\ t2.files = t.files
        /\ t2.pend = t.pend /\ t2.replay = t.replay /\ t2.buf = b
    <3>1. /\ t2.pc = t1.pc /\ t2.exp = t1.exp /\ t2.sess = t1.sess /\ t2.files = t1.files
          /\ t2.pend = t1.pend /\ t2.replay = t1.replay /\ t2.buf = b
      BY <2>3 DEF Receivers
    <3> QED
      BY <1>5, <3>1 DEF Alike
  <2> QED
    BY <1>2, <2>4, <2>5 DEF b
<1>8. \/ t1.idle > NoProgress * w /\ Abort
      \/ /\ t1.idle <= NoProgress * w
         /\ \/ /\ Dist(t.exp, p.seq) < w
               /\ r' = t2
               /\ \E ys : /\ \/ ys = <<Reply("Y", p.seq, t.sess.chk)>>
                             \/ ys = <<Reply("Y", p.seq, t.sess.chk), Nak(t)>>
                          /\ toS' = WriteToS(ys)
            \/ /\ Dist(t.exp, p.seq) >= w
               /\ r' = t1 /\ toS' = WriteToS(<<ReAck(t, p)>>)
            \/ /\ Dist(t.exp, p.seq) >= w
               /\ r' = t1 /\ toS' = WriteToS(<<Nak(t)>>)
  <2>1. t1.buf = t.buf /\ t1.naked = t.naked /\ t1.sess = t.sess /\ t1.exp = t.exp /\ t.sess.window = w
    BY <1>2, <1>5
  <2>2. <<Reply("Y", p.seq, t.sess.chk)>> \o <<>> = <<Reply("Y", p.seq, t.sess.chk)>>
    OBVIOUS
  <2>3. <<Reply("Y", p.seq, t.sess.chk)>> \o <<Nak(t)>> = <<Reply("Y", p.seq, t.sess.chk), Nak(t)>>
    <3>1. \A c, d : <<c>> \o <<d>> = <<c, d>>
      BY PairConcat
    <3> QED
      BY <3>1
  <2>4. OutOfOrder(t, p)
    BY DEF t
  <2> HIDE DEF t1
  <2>5. \/ t1.idle > NoProgress * w /\ Abort
        \/ /\ t1.idle <= NoProgress * w
           /\ \/ /\ Dist(t.exp, p.seq) < w
                 /\ Answer([t1 EXCEPT !.buf = IF \E b \in @ : b.seq = p.seq THEN @ ELSE @ \cup {p},
                                      !.naked = TRUE],
                           <<Reply("Y", p.seq, t.sess.chk)>> \o IF t.naked THEN <<>> ELSE <<Nak(t)>>)
              \/ /\ Dist(t.exp, p.seq) >= w
                 /\ Answer(t1, <<ReAck(t, p)>>)
              \/ /\ Dist(t.exp, p.seq) >= w
                 /\ Answer(t1, <<Nak(t)>>)
    BY <1>6, <2>1, <2>4 DEF OutOfOrder, t1
  <2>6. t2 = [t1 EXCEPT !.buf = IF \E b \in @ : b.seq = p.seq THEN @ ELSE @ \cup {p}, !.naked = TRUE]
    BY <1>5 DEF PutAside, Receivers
  <2> HIDE DEF t2
  <2> QED
    BY <2>2, <2>3, <2>5, <2>6 DEF Answer
<1>9. CASE Abort
  BY <1>3, <1>9, ReceiverFailsKeeps DEF Alive, Done
<1>10. CASE /\ t1.idle <= NoProgress * w /\ Dist(t.exp, p.seq) < w /\ r' = t2
            /\ \E ys : /\ \/ ys = <<Reply("Y", p.seq, t.sess.chk)>>
                          \/ ys = <<Reply("Y", p.seq, t.sess.chk), Nak(t)>>
                       /\ toS' = WriteToS(ys)
  <2>1. PICK ys : /\ \/ ys = <<Reply("Y", p.seq, t.sess.chk)>>
                     \/ ys = <<Reply("Y", p.seq, t.sess.chk), Nak(t)>>
                  /\ toS' = WriteToS(ys)
    BY <1>10
  <2>2. toS' = toS \/ toS' = toS \o ys
    BY <2>1, WriteToSIs
  <2>3. At(g, p) > h
    BY <1>4, <1>10
  <2>4. p \in ToR /\ p.k = "D"
    <3>1. PacketSound(g, t, h, p)
      BY <1>1, <1>2, HeadPlace
    <3> QED
      BY <1>3, <2>3, <3>1, TailFacts DEF PacketSound
  <2>5. /\ t2 \in Receivers /\ t2.pc = t.pc /\ t2.exp = t.exp /\ t2.sess = t.sess /\ t2.files = t.files
        /\ t2.pend = t.pend /\ t2.replay = t.replay /\ t2.buf = PutAside(t, p)
        /\ t2.idle <= NoProgress * t.sess.window
    BY <1>7, <1>10, <2>4
  <2> HIDE DEF t1, t2
  <2>6. Core(g, x, u, t2, Tail(toR), toS', h)
    BY <1>1, <1>2, <2>1, <2>2, <2>3, <2>5, PutAsideKeeps
  <2> QED
    BY <1>2, <1>10, <2>5, <2>6
<1>11. CASE /\ t1.idle <= NoProgress * w /\ Dist(t.exp, p.seq) >= w /\ r' = t1
            /\ toS' = WriteToS(<<ReAck(t, p)>>) \/ toS' = WriteToS(<<Nak(t)>>)
  <2>1. PICK ys : ys \in {<<ReAck(t, p)>>, <<Nak(t)>>} /\ toS' = WriteToS(ys)
    BY <1>11
  <2>2. toS' = toS \/ toS' = toS \o ys
    BY <2>1, WriteToSIs
  <2>3. At(g, p) < h
    BY <1>4, <1>11
  <2>4. <<Nak(t)>> \in Seq(ToS) /\ NewReplies(g, u, t, h, <<Nak(t)>>)
    BY <1>1, <1>2, NakTells
  <2>5. Alive(u.pc) => <<ReAck(t, p)>> \in Seq(ToS) /\ NewReplies(g, u, t, h, <<ReAck(t, p)>>)
    BY <1>1, <1>2, <2>3, ReAckTells
  <2>6. <<ReAck(t, p)>> \in Seq(ToS)
    <3>1. t.replay \in ToS /\ t.sess.chk \in 1..3
      BY <1>1, ReceiverFields, CapsFacts DEF ToS, PacketsOf
    <3>2. p.seq \in Int
      <4>1. p.seq = At(g, p) % Numbers
        BY <1>1, <1>2, HeadPlace
      <4> QED
        BY <1>4, <4>1, NumbersType, DivMod
    <3>3. ReAck(t, p) \in ToS
      BY <3>1, <3>2, ReplyType DEF ReAck
    <3> QED
      BY <3>3
  <2>7. Replay(g, t1)
    <3>1. Exp(g, t1) = Exp(g, t) /\ ReceiverShape(g, t, h)
      BY <1>1, <1>2, <1>5, AlikeFacts DEF Core, Alive, Done
    <3> HIDE DEF t1
    <3> QED
      BY <1>5, <3>1 DEF ReceiverShape, Replay
  <2>8. t1.idle <= NoProgress * t.sess.window /\ Alive(t.pc) /\ t.pc # "init"
    BY <1>2, <1>11 DEF Alive, Done
  <2> HIDE DEF t1
  <2>9. ys \in Seq(ToS) /\ (Alive(u.pc) => NewReplies(g, u, t, h, ys))
    BY <2>1, <2>4, <2>5, <2>6
  <2>10. Core(g, x, u, t1, Tail(toR), toS', h)
    BY <1>1, <1>3, <1>5, <2>2, <2>7, <2>8, <2>9, ReceiverStays
  <2> QED
    BY <1>2, <1>5, <1>11, <2>10
<1> QED
  BY <1>8, <1>9, <1>10, <1>11

-----------------------------------------------------------------------------
(* The receiver's steps that take a packet.                                 *)

\* What the expected packet can be.
LEMMA ExpectedIs ==
  ASSUME NEW g \in Plans, NEW t \in Receivers, FilesShape(g, t), t.pc \in {"run", "drain"},
         NEW p, GoodPacket(g, p), At(g, p) = Exp(g, t)
  PROVE  LET n == Len(t.files)
             e == LastFile(t)
         IN /\ p.k \in {"F", "A", "D", "Z", "B"} /\ n \in Nat /\ (n = 0 => t.files = <<>>)
            /\ p.k = "F" => p.f = n + 1 /\ n < g.files /\ (n > 0 => e.kept)
            /\ p.k \in {"A", "D", "Z"} => n > 0 /\ n <= g.files /\ p.f = n /\ ~e.kept
            /\ p.k = "A" => g.att = 1 /\ e.decl = None /\ p.pos = g.chunks
            /\ p.k \in {"D", "Z"} => (g.att = 1 => e.decl # None) /\ Skip(g, n) <= e.len
            /\ p.k = "D" => p.pos = e.len + 1 /\ e.len < g.chunks
            /\ p.k = "Z" => e.len = g.chunks
            /\ p.k = "B" => n = g.files /\ n > 0 /\ e.kept
<1> DEFINE n == Len(t.files)
           e == LastFile(t)
<1>1. /\ g.files \in Nat /\ g.files > 0 /\ g.chunks \in Nat /\ g.att \in {0, 1} /\ n \in Nat
      /\ n <= g.files /\ (n = 0 <=> t.files = <<>>) /\ (n > 0 => n \in DOMAIN t.files)
      /\ t.files \in Seq(FileRecords)
  <2>1. t.files \in Seq(FileRecords)
    BY ReceiverFields
  <2> QED
    BY <2>1, PlanFacts DEF FilesShape
<1>2. n > 0 => FileShape(g, n, e, TRUE) /\ e \in FileRecords
  <2> HAVE n > 0
  <2>1. FileShape(g, n, e, n = Len(t.files))
    BY <1>1 DEF FilesShape, LastFile
  <2>2. e \in FileRecords
    BY <1>1 DEF LastFile
  <2> QED
    BY <2>1, <2>2 DEF FileShape
<1>3. n > 0 => e.len \in Nat /\ e.kept \in BOOLEAN
  BY <1>2 DEF FileRecords
<1>4. Sendable(g, p.k, p.f, p.pos) /\ Place(g, p.k, p.f, p.pos) = Exp(g, t)
  BY DEF GoodPacket, At
<1> HIDE DEF n, e
<1>5. n = 0 => Exp(g, t) = 1
  BY <1>1 DEF Exp, n
<1>6. n > 0 => Exp(g, t) = IF e.kept THEN First(g, n + 1)
                           ELSE IF g.att = 1 /\ e.decl = None THEN First(g, n) + 1
                           ELSE DataAt(g, n, e.len + 1)
  BY <1>1 DEF Exp, n, e
<1>7. CASE n = 0 \/ (n > 0 /\ e.kept /\ n < g.files)
  <2>1. Exp(g, t) = First(g, n + 1)
    <3>1. First(g, 0 + 1) = 1
      BY PlanFacts DEF First
    <3> QED
      BY <1>5, <1>6, <1>7, <3>1
  <2>2. n + 1 \in 1..g.files
    BY <1>1, <1>7
  <2>3. Sendable(g, "F", n + 1, 0) /\ Place(g, "F", n + 1, 0) = First(g, n + 1)
    BY <2>2 DEF Sendable, Place, StopAndWait
  <2>4. p.k = "F" /\ p.f = n + 1
    BY <1>4, <2>1, <2>3, PlaceInjective
  <2> QED
    BY <1>1, <1>7, <2>4 DEF n, e
<1>8. CASE n > 0 /\ e.kept /\ n = g.files
  <2>1. Exp(g, t) = BreakAt(g)
    BY <1>6, <1>8 DEF BreakAt
  <2>2. Sendable(g, "B", n, 0) /\ Place(g, "B", n, 0) = BreakAt(g)
    BY <1>1, <1>8 DEF Sendable, Place, StopAndWait
  <2>3. p.k = "B"
    BY <1>4, <2>1, <2>2, PlaceInjective
  <2> QED
    BY <1>1, <1>8, <2>3 DEF n, e
<1>9. CASE n > 0 /\ ~e.kept /\ g.att = 1 /\ e.decl = None
  <2>1. Sendable(g, "A", n, g.chunks) /\ Place(g, "A", n, g.chunks) = First(g, n) + 1
    BY <1>1, <1>9 DEF Sendable, Place, StopAndWait
  <2>2. p.k = "A" /\ p.f = n
    BY <1>4, <1>6, <1>9, <2>1, PlaceInjective
  <2>3. p.pos = g.chunks
    BY <1>4, <2>2 DEF Sendable
  <2> QED
    BY <1>1, <1>9, <2>2, <2>3 DEF n, e
<1>10. CASE n > 0 /\ ~e.kept /\ ~(g.att = 1 /\ e.decl = None)
  <2>1. Skip(g, n) \in 0..g.chunks /\ (g.att = 0 => Skip(g, n) = 0)
    BY <1>1, <1>10, PlanFacts DEF Skip
  <2>2. Skip(g, n) <= e.len /\ e.len <= g.chunks /\ Skip(g, n) \in Nat
    BY <1>1, <1>2, <1>3, <1>10, <2>1 DEF FileShape
  <2>3. CASE e.len < g.chunks
    <3>1. e.len + 1 \in Skip(g, n) + 1 .. g.chunks
      BY <1>1, <1>3, <1>10, <2>2, <2>3
    <3>2. Sendable(g, "D", n, e.len + 1) /\ Place(g, "D", n, e.len + 1) = DataAt(g, n, e.len + 1)
      BY <1>1, <1>10, <3>1 DEF Sendable, Place, StopAndWait
    <3>3. p.k = "D" /\ p.f = n /\ p.pos = e.len + 1
      BY <1>4, <1>6, <1>10, <3>2, PlaceInjective
    <3> QED
      BY <1>1, <1>10, <2>2, <2>3, <3>3 DEF n, e
  <2>4. CASE e.len = g.chunks
    <3>1. DataAt(g, n, g.chunks + 1) = EndAt(g, n)
      BY <1>1, <2>1 DEF EndAt, DataAt
    <3>2. Sendable(g, "Z", n, 0) /\ Place(g, "Z", n, 0) = EndAt(g, n)
      BY <1>1, <1>10 DEF Sendable, Place, StopAndWait
    <3>3. p.k = "Z" /\ p.f = n
      BY <1>4, <1>6, <1>10, <2>4, <3>1, <3>2, PlaceInjective
    <3> QED
      BY <1>1, <1>10, <2>2, <2>4, <3>3 DEF n, e
  <2> QED
    BY <1>1, <1>3, <1>10, <2>2, <2>3, <2>4
<1> QED
  BY <1>1, <1>3, <1>7, <1>8, <1>9, <1>10

\* What the receiver works on: the head of the line, or a packet put aside.
Takes(t, B, qR, qR2, p) ==
  \/ t.pc = "run" /\ qR # <<>> /\ p = Head(qR) /\ p.k \in StopAndWait /\ qR2 = Tail(qR) /\ B = t.buf
  \/ t.pc = "drain" /\ p \in t.buf /\ qR2 = qR /\ B = t.buf \ {p}

LEMMA TakesFacts ==
  ASSUME NEW g, NEW x, PlanFor(g, x), NEW u, NEW t, NEW qR, NEW qR2, NEW qS, NEW h, NEW p, NEW B,
         Core(g, x, u, t, qR, qS, h), Takes(t, B, qR, qR2, p), p.seq = t.exp
  PROVE  /\ GoodPacket(g, p) /\ At(g, p) = Exp(g, t) /\ B \in SUBSET t.buf /\ qR2 \in Seq(ToR)
         /\ Exp(g, t) >= 1 /\ (Alive(u.pc) => Exp(g, t) < SendNext(g, u)) /\ u.pc \notin {"poke", "S"}
         /\ \A b \in B : b # p /\ At(g, b) # Exp(g, t)
         /\ \A b \in t.buf : b \in B \/ At(g, b) = Exp(g, t)
         /\ Shift(qR, qR2, StopAndWait)
<1> DEFINE E == Exp(g, t)
           w == t.sess.window
<1>1. /\ g \in Plans /\ t \in Receivers /\ h \in Nat /\ E \in Nat /\ w \in Nat /\ w >= 1 /\ 2 * w < Numbers
      /\ qR \in Seq(ToR) /\ E <= h /\ h <= E + w /\ Alive(t.pc)
  BY CoreFacts DEF Takes, Alive, Done
<1>2. ReceiverShape(g, t, h) /\ (Alive(u.pc) => Sent(g, u, t, h, qR))
  BY <1>1 DEF Core
<1>3. BufShape(g, t, h) /\ t.exp = E % Numbers
  BY <1>2 DEF ReceiverShape
<1>4. E >= 1
  BY <1>1, ExpFacts DEF Core, Takes
<1>5. qR2 \in Seq(ToR) /\ Shift(qR, qR2, StopAndWait)
  <2>1. CASE qR # <<>> /\ qR2 = Tail(qR)
    BY <1>1, <2>1, TailFacts, TailShift
  <2>2. CASE qR2 = qR
    BY <1>1, <2>2, SameShift
  <2> QED
    BY <2>1, <2>2 DEF Takes
<1>6. /\ GoodPacket(g, p) /\ At(g, p) = E /\ (Alive(u.pc) => E < SendNext(g, u))
      /\ \A b \in B : b # p /\ At(g, b) # E
  <2>1. CASE t.pc = "run"
    <3>1. PacketSound(g, t, h, p) /\ h = E /\ At(g, p) = h /\ (Alive(u.pc) => At(g, p) < SendNext(g, u))
      BY <2>1, HeadPlace DEF Takes
    <3>2. \A b \in B : At(g, b) # h
      BY <1>3, <2>1 DEF BufShape, Takes
    <3> QED
      BY <3>1, <3>2 DEF PacketSound
  <2>2. CASE t.pc = "drain"
    <3>1. p \in t.buf /\ B = t.buf \ {p}
      BY <2>2 DEF Takes
    <3>2. GoodPacket(g, p) /\ At(g, p) \in E .. h + w - 1
      BY <1>3, <3>1 DEF BufShape
    <3>3. At(g, p) \in Int /\ E \in Int /\ At(g, p) - E < Numbers /\ E - At(g, p) < Numbers
      BY <1>1, <3>2, NumbersType, SMTT(30)
    <3>4. At(g, p) % Numbers = E % Numbers
      BY <1>3, <3>2 DEF GoodPacket
    <3>5. At(g, p) = E
      BY <3>3, <3>4, SameNumber
    <3>6. \A b \in B : b # p /\ At(g, b) # E
      BY <1>3, <3>1, <3>5 DEF BufShape
    <3>7. Alive(u.pc) => E < SendNext(g, u)
      BY <1>2, <3>1, <3>5 DEF Sent
    <3> QED
      BY <3>2, <3>5, <3>6, <3>7
  <2> QED
    BY <2>1, <2>2 DEF Takes
<1>7. u.pc \notin {"poke", "S"}
  <2>1. u.pc = "S" => SendNext(g, u) = 1
    BY DEF SendNext, Waits, Place
  <2>2. u.pc = "poke" => SendNext(g, u) = 0
    BY DEF SendNext
  <2> QED
    BY <1>1, <1>4, <1>6, <2>1, <2>2 DEF Alive, Done
<1>8. B \in SUBSET t.buf /\ \A b \in t.buf : b \in B \/ At(g, b) = E
  BY <1>6 DEF Takes
<1> QED
  BY <1>4, <1>5, <1>6, <1>7, <1>8

\* Where the hole moves to once the expected packet is taken.
LEMMA NextHole ==
  ASSUME NEW g, NEW x, PlanFor(g, x), NEW u, NEW t, NEW t2, NEW qR, NEW qR2, NEW qS, NEW h, NEW p,
         Core(g, x, u, t, qR, qS, h), Takes(t, t2.buf, qR, qR2, p), p.seq = t.exp
  PROVE  \E h2 \in Nat :
           /\ h <= h2 /\ Exp(g, t) + 1 <= h2 /\ h2 <= Exp(g, t) + t.sess.window
           /\ h2 \notin BufAt(g, t2) /\ \A m \in Exp(g, t) + 1 .. h2 - 1 : m \in BufAt(g, t2)
           /\ h2 = h \/ h2 = Exp(g, t) + 1 \/ h2 - 1 \in BufAt(g, t)
<1> DEFINE E == Exp(g, t)
           w == t.sess.window
<1>1. /\ h \in Nat /\ E \in Nat /\ w \in Nat /\ w >= 1
      /\ E <= h /\ h <= E + w /\ Alive(t.pc)
  BY CoreFacts DEF Takes, Alive, Done
<1>2. BufShape(g, t, h) /\ (t.pc = "drain" <=> h > E)
  BY <1>1 DEF Core, ReceiverShape
<1>3. t2.buf \in SUBSET t.buf /\ (\A b \in t.buf : b \in t2.buf \/ At(g, b) = E)
  BY TakesFacts
<1>4. /\ BufAt(g, t2) \subseteq BufAt(g, t) /\ h \notin BufAt(g, t)
      /\ \A m \in BufAt(g, t) : m \in Nat /\ m < h + w
      /\ \A m \in BufAt(g, t) : m \in BufAt(g, t2) \/ m = E
  <2>1. \A b \in t.buf : At(g, b) # h /\ At(g, b) \in E .. h + w - 1
    BY <1>2 DEF BufShape
  <2>2. \A b \in t.buf : At(g, b) \in Nat /\ At(g, b) < h + w
    BY <1>1, <2>1
  <2> QED
    BY <1>3, <2>1, <2>2 DEF BufAt
<1> HIDE DEF E, w
<1>5. CASE t.pc = "drain"
  <2>1. \A m \in E .. h - 1 : m \in BufAt(g, t)
    BY <1>2 DEF BufShape, E
  <2>2. \A m \in E + 1 .. h - 1 : m \in BufAt(g, t2)
    <3>1. \A m \in E + 1 .. h - 1 : m \in E .. h - 1 /\ m # E
      BY <1>1
    <3> QED
      BY <1>4, <2>1, <3>1
  <2>3. h <= h /\ E + 1 <= h /\ h \notin BufAt(g, t2)
    BY <1>1, <1>2, <1>4, <1>5
  <2> QED
    BY <1>1, <2>2, <2>3 DEF E, w
<1>6. CASE t.pc = "run"
  <2>1. h = E
    BY <1>1, <1>2, <1>6
  <2> DEFINE T == {m \in Nat : m >= E + 1 /\ m \notin BufAt(g, t2)}
  <2>2. h + w \in T
    <3>1. h + w \notin BufAt(g, t2) /\ h + w \in Nat /\ h + w >= E + 1
      BY <1>1, <1>4, <2>1
    <3> QED
      BY <3>1
  <2>3. PICK h2 \in T : \A b \in T : h2 <= b
    <3>1. T \subseteq Nat /\ T # {}
      BY <2>2
    <3> HIDE DEF T
    <3> QED
      BY <3>1, LeastNat
  <2>4. h2 \in Nat /\ h2 >= E + 1 /\ h2 \notin BufAt(g, t2) /\ h2 <= E + w /\ h <= h2
    BY <1>1, <2>1, <2>2, <2>3
  <2>5. \A m \in E + 1 .. h2 - 1 : m \in BufAt(g, t2)
    <3> SUFFICES ASSUME NEW m \in E + 1 .. h2 - 1, m \notin BufAt(g, t2) PROVE FALSE
      OBVIOUS
    <3>1. m \in Nat /\ m >= E + 1 /\ m < h2
      BY <1>1, <2>4
    <3>2. m \in T
      BY <3>1
    <3> HIDE DEF T
    <3> QED
      BY <2>3, <2>4, <3>1, <3>2
  <2>6. h2 = E + 1 \/ h2 - 1 \in BufAt(g, t)
    <3>1. h2 # E + 1 => h2 - 1 \in E + 1 .. h2 - 1
      BY <1>1, <2>4
    <3> QED
      BY <1>4, <2>5, <3>1
  <2>7. E + 1 <= h2
    BY <1>1, <2>4
  <2> QED
    BY <2>4, <2>5, <2>6, <2>7 DEF E, w
<1> QED
  BY <1>5, <1>6 DEF Takes

\* The expected packet is taken: the hole moves on, and past what was put aside.
LEMMA Advances ==
  ASSUME NEW g, NEW x, PlanFor(g, x), NEW u, NEW t, NEW t2, NEW qR, NEW qR2, NEW qS, NEW qS2, NEW h,
         NEW p, NEW y, Core(g, x, u, t, qR, qS, h), Takes(t, t2.buf, qR, qR2, p), p.seq = t.exp,
         t2 \in Receivers, t2.pc = IF \E b \in t2.buf : b.seq = t2.exp THEN "drain" ELSE "run",
         t2.exp = Succ(t.exp), t2.sess = t.sess, t2.idle = 0, Len(t2.files) <= MaxBatchFiles,
         FilesShape(g, t2), Exp(g, t2) = Exp(g, t) + 1, Pending(g, t2), Replay(g, t2),
         y \in ToS, y.k = "Y", y.seq = p.seq, Exp(g, t) < BreakAt(g),
         \A f \in 1..g.files : g.att = 1 /\ Exp(g, t) = First(g, f) + 1 => y.pos = Skip(g, f),
         qS2 = qS \/ qS2 = qS \o <<y>>
  PROVE  \E h2 \in Nat : Core(g, x, u, t2, qR2, qS2, h2)
<1> DEFINE E == Exp(g, t)
           w == t.sess.window
<1>1. /\ g \in Plans /\ h \in Nat /\ E \in Nat /\ w \in Nat /\ w >= 1 /\ 2 * w < Numbers
      /\ E <= h /\ h <= E + w /\ Alive(t.pc) /\ Alive(t2.pc) /\ BreakAt(g) \in Nat
      /\ qR \in Seq(ToR) /\ t2.pc # "init" /\ t2.pc \in {"run", "drain"}
  BY CoreFacts DEF Takes, Alive, Done
<1>2. ReceiverShape(g, t, h) /\ PacketsSound(g, t, h, qR) /\ (Alive(u.pc) => Sent(g, u, t, h, qR))
      /\ Sessions(x, u, t, qR) /\ Types(x, u, t, qR, qS)
  BY <1>1 DEF Core
<1>3. BufShape(g, t, h) /\ t.exp = E % Numbers
  BY <1>2 DEF ReceiverShape
<1>4. /\ GoodPacket(g, p) /\ At(g, p) = E /\ t2.buf \in SUBSET t.buf /\ qR2 \in Seq(ToR)
      /\ E >= 1 /\ (Alive(u.pc) => E < SendNext(g, u)) /\ u.pc \notin {"poke", "S"}
      /\ \A b \in t2.buf : b # p /\ At(g, b) # E
      /\ \A b \in t.buf : b \in t2.buf \/ At(g, b) = E
      /\ Shift(qR, qR2, StopAndWait)
  BY TakesFacts
<1>5. PICK h2 \in Nat :
           /\ h <= h2 /\ E + 1 <= h2 /\ h2 <= E + w
           /\ h2 \notin BufAt(g, t2) /\ \A m \in E + 1 .. h2 - 1 : m \in BufAt(g, t2)
           /\ h2 = h \/ h2 = E + 1 \/ h2 - 1 \in BufAt(g, t)
  BY NextHole
<1>6. \A b \in t.buf : /\ GoodPacket(g, b) /\ b.seq = At(g, b) % Numbers /\ At(g, b) \in Nat
                       /\ E <= At(g, b) /\ At(g, b) < h + w
                       /\ \A c \in t.buf : At(g, b) = At(g, c) => b = c
  <2>1. \A b \in t.buf : /\ GoodPacket(g, b) /\ At(g, b) \in E .. h + w - 1
                         /\ \A c \in t.buf : At(g, b) = At(g, c) => b = c
    BY <1>3 DEF BufShape
  <2>0. E \in Nat /\ h \in Nat /\ w \in Nat
    BY <1>1
  <2> HIDE DEF E, w
  <2>2. \A m \in E .. h + w - 1 : m \in Nat /\ E <= m /\ m < h + w
    BY <2>0
  <2>3. \A b \in t.buf : b.seq = At(g, b) % Numbers
    BY <2>1 DEF GoodPacket
  <2> QED
    BY <2>1, <2>2, <2>3
<1> HIDE DEF E, w
<1>7. t2.exp = (E + 1) % Numbers
  BY <1>1, <1>3, NumberPlus DEF Succ
<1>8. \A b \in t2.buf : b.seq = t2.exp <=> At(g, b) = E + 1
  <2> SUFFICES ASSUME NEW b \in t2.buf PROVE b.seq = t2.exp <=> At(g, b) = E + 1
    OBVIOUS
  <2> DEFINE c == At(g, b)
  <2>1. b \in t.buf
    BY <1>4
  <2>2. b.seq = c % Numbers /\ c \in Nat /\ E <= c /\ c < h + w
    BY <1>6, <2>1
  <2> HIDE DEF c
  <2>3. c \in Int /\ E + 1 \in Int /\ c - (E + 1) < Numbers /\ (E + 1) - c < Numbers
    BY <1>1, <2>2, NumbersType
  <2>4. c % Numbers = (E + 1) % Numbers => c = E + 1
    BY <2>3, SameNumber
  <2> QED
    BY <1>7, <2>2, <2>4 DEF c
<1>9. t2.pc = "drain" <=> h2 > E + 1
  <2>1. t2.pc = "drain" <=> \E b \in t2.buf : b.seq = t2.exp
    OBVIOUS
  <2>2. (\E b \in t2.buf : b.seq = t2.exp) <=> E + 1 \in BufAt(g, t2)
    BY <1>8 DEF BufAt
  <2>3. E + 1 \in BufAt(g, t2) <=> h2 > E + 1
    <3>1. h2 > E + 1 => E + 1 \in E + 1 .. h2 - 1
      BY <1>1, <1>5
    <3>2. h2 > E + 1 => E + 1 \in BufAt(g, t2)
      BY <1>5, <3>1
    <3>3. ~(h2 > E + 1) => h2 = E + 1
      BY <1>1, <1>5
    <3> QED
      BY <1>5, <3>2, <3>3
  <2> QED
    BY <2>1, <2>2, <2>3
<1>10. BufShape(g, t2, h2)
  <2>1. \A b \in t2.buf : GoodPacket(g, b) /\ At(g, b) # h2
    BY <1>4, <1>5, <1>6 DEF BufAt
  <2>2. \A b \in t2.buf : At(g, b) \in E + 1 .. h2 + w - 1
    <3> SUFFICES ASSUME NEW b \in t2.buf PROVE At(g, b) \in E + 1 .. h2 + w - 1
      OBVIOUS
    <3>1. At(g, b) \in Nat /\ E <= At(g, b) /\ At(g, b) < h + w /\ At(g, b) # E
      BY <1>4, <1>6
    <3> QED
      BY <1>1, <1>5, <3>1
  <2>3. \A b, c \in t2.buf : At(g, b) = At(g, c) => b = c
    BY <1>4, <1>6
  <2> QED
    BY <1>5, <2>1, <2>2, <2>3 DEF BufShape, E, w
<1>11. ReceiverShape(g, t2, h2)
  <2>1. h2 \in Exp(g, t2) .. Exp(g, t2) + t2.sess.window
    BY <1>1, <1>5, SMTT(30) DEF E, w
  <2> QED
    BY <1>1, <1>7, <1>9, <1>10, <2>1 DEF ReceiverShape, E
<1>12. \A n \in Nat : Rcvd(g, t, n) => Rcvd(g, t2, n)
  <2>1. \A n \in BufAt(g, t) : n \in BufAt(g, t2) \/ n = E
    BY <1>4 DEF BufAt
  <2>2. \A n \in Nat : n < E \/ n = E => n < E + 1
    BY <1>1
  <2> QED
    BY <2>1, <2>2 DEF Rcvd, E
<1>13. PacketsSound(g, t2, h2, qR2)
  <2>1. PacketsSound(g, t, h, qR2)
    BY <1>1, <1>2, <1>4, PacketsShift
  <2> SUFFICES ASSUME NEW j \in DOMAIN qR2, Carries(qR2[j])
               PROVE  /\ PacketSound(g, t2, h2, qR2[j])
                      /\ \A i \in 1..j - 1 :
                           Carries(qR2[i]) => At(g, qR2[i]) < At(g, qR2[j]) + t2.sess.window
    BY DEF PacketsSound
  <2> DEFINE a == At(g, qR2[j])
  <2>2. PacketSound(g, t, h, qR2[j])
        /\ \A i \in 1..j - 1 : Carries(qR2[i]) => At(g, qR2[i]) < a + t2.sess.window
    BY <2>1 DEF PacketsSound
  <2>3. a \in Nat /\ h <= a + w /\ a < h + w /\ GoodPacket(g, qR2[j]) /\ (a > h => qR2[j].k = "D")
        /\ \A b \in t.buf : At(g, b) < a + w
    <3>1. a \in Nat
      BY <1>1, <2>2, PlaceBounds DEF PacketSound, GoodPacket, At
    <3> QED
      BY <2>2, <3>1 DEF PacketSound, w
  <2>4. h2 <= a + w
    <3>1. CASE h2 = h
      BY <2>3, <3>1
    <3>2. CASE h2 # h /\ h2 = E + 1
      <4>1. t.pc = "run"
        <5>1. t.pc = "drain" => h > E
          BY <1>2 DEF ReceiverShape, E
        <5> QED
          BY <1>1, <1>5, <3>2, <5>1 DEF Takes
      <4>2. p = Head(qR) /\ qR # <<>> /\ qR2 = Tail(qR) /\ p.k \in StopAndWait
        BY <4>1 DEF Takes
      <4>3. p = qR[1] /\ 1 \in DOMAIN qR /\ qR2[j] = qR[j + 1] /\ j + 1 \in DOMAIN qR /\ j \in Nat /\ j >= 1
        BY <1>1, <1>4, <4>2, TailFacts, DomainFacts
      <4>4. 1 \in 1..(j + 1) - 1 /\ Carries(qR[1]) /\ Carries(qR[j + 1])
        BY <4>2, <4>3 DEF Carries
      <4>5. At(g, qR[1]) < At(g, qR[j + 1]) + t.sess.window
        BY <1>2, <4>3, <4>4 DEF PacketsSound
      <4>6. E < a + w
        BY <1>4, <4>3, <4>5 DEF w
      <4> QED
        BY <1>1, <2>3, <3>2, <4>6
    <3>3. CASE h2 - 1 \in BufAt(g, t)
      <4>1. PICK b \in t.buf : h2 - 1 = At(g, b)
        BY <3>3 DEF BufAt
      <4>2. h2 - 1 < a + w
        BY <2>3, <4>1
      <4> QED
        BY <1>1, <1>5, <2>3, <4>2
    <3> QED
      BY <1>5, <3>1, <3>2, <3>3
  <2>5. a < h2 + w /\ (a > h2 => a > h)
    BY <1>1, <1>5, <2>3
  <2>6. PacketSound(g, t2, h2, qR2[j])
    BY <1>4, <2>3, <2>4, <2>5 DEF PacketSound, w
  <2> QED
    BY <2>2, <2>6
<1>14. Alive(u.pc) => Sent(g, u, t2, h2, qR2)
  <2> HAVE Alive(u.pc)
  <2>1. Sent(g, u, t, h, qR2) /\ SendNext(g, u) \in Nat
    BY <1>1, <1>2, <1>4, SentShift, CoreFacts
  <2>2. h2 <= SendNext(g, u)
    <3>1. E < SendNext(g, u) /\ h <= SendNext(g, u) /\ \A b \in t.buf : At(g, b) < SendNext(g, u)
      BY <1>4, <2>1 DEF Sent
    <3>2. h2 - 1 \in BufAt(g, t) => h2 - 1 < SendNext(g, u)
      BY <3>1 DEF BufAt
    <3> QED
      BY <1>1, <1>5, <2>1, <3>1, <3>2
  <2>3. \A m \in 0 .. SendNext(g, u) - 1 : m \in Unacked(g, u) \/ Rcvd(g, t2, m)
    <3>1. \A m \in 0 .. SendNext(g, u) - 1 : m \in Nat
      BY <2>1
    <3> QED
      BY <1>12, <2>1, <3>1 DEF Sent
  <2> QED
    BY <1>4, <2>1, <2>2, <2>3 DEF Sent
<1>15. Types(x, u, t2, qR2, qS)
  <2>1. 0 <= NoProgress * t2.sess.window
    BY <1>1, KermitAssumption, ProductMonotone DEF w
  <2> QED
    BY <1>2, <1>4, <2>1 DEF Types
<1>16. Sessions(x, u, t2, qR2)
  <2>1. \A j \in DOMAIN qR2 : qR2[j].k = "S" => qR2[j].caps \in {x.ours, Classic}
    <3>1. PICK d \in {-1, 0, 1} :
            \A j \in DOMAIN qR2 : qR2[j].k \in StopAndWait => j + d \in DOMAIN qR /\ SameItem(qR2[j], qR[j + d])
      BY <1>4 DEF Shift
    <3> QED
      BY <1>2, <3>1 DEF Sessions, SameItem, StopAndWait
  <2> QED
    BY <1>1, <1>2, <1>4, <2>1 DEF Sessions
<1>17. Alive(u.pc) => NewReplies(g, u, t2, h2, <<y>>)
  <2>1. ReplyTells(g, u, t2, y, E)
    <3>1. ~(E >= BreakAt(g))
      BY <1>1 DEF E
    <3> QED
      BY <1>4, <3>1 DEF ReplyTells, E
  <2>2. Rcvd(g, t2, E) /\ h2 <= E + t2.sess.window /\ y.seq = E % Numbers
    <3>1. E < E + 1
      BY <1>1
    <3> QED
      BY <1>3, <1>5, <3>1 DEF Rcvd, E, w
  <2> QED
    BY <1>1, <2>1, <2>2 DEF NewReplies
<1>18. <<y>> \in Seq(ToS) /\ Exp(g, t) <= Exp(g, t2) /\ t.sess.window <= t2.sess.window /\ h <= h2
  BY <1>1, <1>5 DEF E, w
<1>19. Core(g, x, u, t2, qR2, qS2, h2)
  BY <1>1, <1>11, <1>12, <1>13, <1>14, <1>15, <1>16, <1>17, <1>18, ReceiverSteps
<1> QED
  BY <1>19

LEMMA AdvanceIs ==
  ASSUME NEW v \in Receivers
  PROVE  /\ Advance(v) \in Receivers
         /\ Advance(v).pc = IF \E b \in v.buf : b.seq = Advance(v).exp THEN "drain" ELSE "run"
         /\ Advance(v).exp = Succ(v.exp) /\ Advance(v).sess = v.sess /\ Advance(v).idle = 0
         /\ Advance(v).files = v.files /\ Advance(v).pend = v.pend /\ Advance(v).replay = v.replay
         /\ Advance(v).buf = v.buf
<1> DEFINE e == Succ(v.exp)
           c == IF \E b \in v.buf : b.seq = e THEN "drain" ELSE "run"
           t == Advance(v)
<1>1. e \in 0..Numbers - 1
  <2>1. v.exp + 1 \in Int
    BY ReceiverFields
  <2> QED
    BY <2>1, NumbersType, DivMod DEF Succ
<1>2. t = [v EXCEPT !.exp = e, !.naked = FALSE, !.idle = 0, !.pc = c]
  BY DEF Advance
<1>3. c \in {"init", "run", "drain"} \cup Done
  OBVIOUS
<1>4. c = IF \E b \in v.buf : b.seq = e THEN "drain" ELSE "run"
  OBVIOUS
<1> HIDE DEF e, c, t
<1>5. t \in Receivers /\ t.exp = e /\ t.pc = c /\ t.idle = 0
  BY <1>1, <1>2, <1>3 DEF Receivers
<1>6. t.sess = v.sess /\ t.files = v.files /\ t.pend = v.pend /\ t.replay = v.replay /\ t.buf = v.buf
  BY <1>2 DEF Receivers
<1> QED
  BY <1>4, <1>5, <1>6 DEF e, t

\* A receiver that works on p: the one it was, without p among the packets put aside.
SameButBuf(t, tb) ==
  /\ tb \in Receivers /\ tb.pc = t.pc /\ tb.exp = t.exp /\ tb.sess = t.sess /\ tb.replay = t.replay
  /\ tb.pend = t.pend /\ tb.files = t.files /\ tb.idle = t.idle

Taking(g, x, u, t, tb, qR, qR2, qS, h, p) ==
  /\ Core(g, x, u, t, qR, qS, h) /\ PlanFor(g, x)
  /\ SameButBuf(t, tb) /\ Takes(t, tb.buf, qR, qR2, p) /\ p.seq = t.exp
  /\ t.replay.seq # None /\ t.replay.pos # 0 => Exp(g, t) <= 2 + t.sess.window

\* The invariant holds of these, wherever the hole is.
Holds(g, x, u, t, qR, qS) == \E h \in Nat : Core(g, x, u, t, qR, qS, h)

\* v has taken one packet more than t, and y is the answer to it.
Moved(g, t, tb, v) ==
  /\ v \in Receivers /\ v.pc = t.pc /\ v.exp = t.exp /\ v.sess = t.sess /\ v.buf = tb.buf
  /\ Len(v.files) <= MaxBatchFiles /\ FilesShape(g, v) /\ Pending(g, v)
  /\ Exp(g, v) = Exp(g, t) + 1

OneMore(g, t, tb, t2) == \E v : Moved(g, t, tb, v) /\ t2 = Advance(v)

Answers(g, t, p, y) ==
  /\ y \in ToS /\ y.k = "Y" /\ y.seq = p.seq
  /\ \A f \in 1..g.files : g.att = 1 /\ Exp(g, t) = First(g, f) + 1 => y.pos = Skip(g, f)

LEMMA AdvanceKeeps ==
  ASSUME NEW g, NEW x, NEW u, NEW t, NEW tb, NEW v, NEW qR, NEW qR2, NEW qS, NEW h,
         NEW p, NEW y, Taking(g, x, u, t, tb, qR, qR2, qS, h, p),
         Moved(g, t, tb, v), Replay(g, v), Answers(g, t, p, y), p.k # "B"
  PROVE  /\ Holds(g, x, u, Advance(v), qR2, qS) /\ Holds(g, x, u, Advance(v), qR2, qS \o <<y>>)
         /\ Advance(v).sess = t.sess
<1> USE DEF Moved, Answers
<1> DEFINE t2 == Advance(v)
<1>1. /\ t2 \in Receivers
      /\ t2.pc = IF \E b \in v.buf : b.seq = t2.exp THEN "drain" ELSE "run"
      /\ t2.exp = Succ(v.exp) /\ t2.sess = v.sess /\ t2.idle = 0
      /\ t2.files = v.files /\ t2.pend = v.pend /\ t2.replay = v.replay
      /\ t2.buf = v.buf
  BY AdvanceIs
<1> HIDE DEF t2
<1>2. Core(g, x, u, t, qR, qS, h) /\ PlanFor(g, x) /\ Takes(t, t2.buf, qR, qR2, p) /\ p.seq = t.exp
  BY <1>1 DEF Taking
<1>3. t2.pc \in {"run", "drain"} /\ v.pc \in {"run", "drain"}
  BY <1>1, <1>2 DEF Takes
<1>4. Exp(g, t2) = Exp(g, v)
  BY <1>1, <1>3 DEF Exp, LastFile
<1>5. FilesShape(g, t2)
  BY <1>1, <1>3 DEF FilesShape, LastFile
<1>6. Pending(g, t2) /\ Replay(g, t2)
  BY <1>1, <1>4 DEF Pending, Replay, LastFile
<1>7. Exp(g, t) < BreakAt(g)
  <2>1. GoodPacket(g, p) /\ At(g, p) = Exp(g, t) /\ g \in Plans
    BY <1>2, TakesFacts, CoreFacts
  <2> QED
    BY <2>1, PlaceBounds DEF GoodPacket, At
<1>8. /\ t2.pc = IF \E b \in t2.buf : b.seq = t2.exp THEN "drain" ELSE "run"
      /\ t2.exp = Succ(t.exp) /\ t2.sess = t.sess /\ Len(t2.files) <= MaxBatchFiles
  BY <1>1
<1>9. Exp(g, t2) = Exp(g, t) + 1
  BY <1>4
<1>10. ASSUME NEW qS2, qS2 = qS \/ qS2 = qS \o <<y>>
       PROVE  \E h2 \in Nat : Core(g, x, u, t2, qR2, qS2, h2)
  BY <1>1, <1>2, <1>5, <1>6, <1>7, <1>8, <1>9, <1>10, Advances
<1>11. Holds(g, x, u, t2, qR2, qS) /\ Holds(g, x, u, t2, qR2, qS \o <<y>>)
  BY <1>10 DEF Holds
<1> QED
  BY <1>8, <1>11 DEF t2

\* The attributes alone follow an F that announces them.
LEMMA NotAttributes ==
  ASSUME NEW g \in Plans, NEW p, GoodPacket(g, p), NEW f \in 1..g.files, g.att = 1,
         At(g, p) = First(g, f) + 1
  PROVE  p.k = "A" /\ p.f = f
<1>1. Sendable(g, "A", f, g.chunks) /\ Place(g, "A", f, g.chunks) = First(g, f) + 1
  BY DEF Sendable, Place, StopAndWait
<1>2. Sendable(g, p.k, p.f, p.pos) /\ Place(g, p.k, p.f, p.pos) = First(g, f) + 1
  BY DEF GoodPacket, At
<1> QED
  BY <1>1, <1>2, PlaceInjective

\* A packet other than the attributes leaves the kept ACK alone and is acknowledged plainly.
LEMMA PlainKeeps ==
  ASSUME NEW g, NEW x, NEW u, NEW t, NEW tb, NEW v, NEW qR, NEW qR2, NEW qS, NEW h,
         NEW p, Taking(g, x, u, t, tb, qR, qR2, qS, h, p),
         Moved(g, t, tb, v), v.replay = t.replay, p.k \notin {"A", "B"}
  PROVE  /\ Holds(g, x, u, Advance(v), qR2, qS)
         /\ Holds(g, x, u, Advance(v), qR2, qS \o <<Reply("Y", p.seq, t.sess.chk)>>)
         /\ Advance(v).sess = t.sess
<1>0. PICK y : y = Reply("Y", p.seq, t.sess.chk)
  OBVIOUS
<1> DEFINE E == Exp(g, t)
           w == t.sess.window
<1>1. /\ g \in Plans /\ GoodPacket(g, p) /\ At(g, p) = E /\ E \in Nat /\ w \in Nat /\ t.sess \in Caps
      /\ t \in Receivers
  BY TakesFacts, CoreFacts DEF Taking
<1>2. y \in ToS /\ y.k = "Y" /\ y.seq = p.seq
  <2>1. p.seq \in Int /\ t.sess.chk \in 1..3
    <3>1. p.seq = t.exp
      BY DEF Taking
    <3> QED
      BY <1>1, <3>1, ReceiverFields, CapsFacts
  <2> QED
    BY <1>0, <2>1, ReplyType
<1>3. \A f \in 1..g.files : ~(g.att = 1 /\ E = First(g, f) + 1)
  BY <1>1, NotAttributes
<1>4. g.att = 1 => E # 2
  <2>1. g.files \in Nat /\ g.files > 0
    BY <1>1, PlanFacts
  <2>2. 1 \in 1..g.files
    BY <2>1
  <2>3. First(g, 1) = 1
    BY DEF First
  <2> QED
    BY <1>3, <2>2, <2>3
<1>5. Replay(g, t)
  <2>1. Alive(t.pc)
    BY DEF Taking, Takes, Alive, Done
  <2> QED
    BY <2>1 DEF Taking, Core, ReceiverShape
<1>6. t.replay.seq # None /\ t.replay.pos # 0 => E <= 2 + w
  BY DEF Taking
<1> HIDE DEF E, w
<1>7. Replay(g, v)
  <2>0. Exp(g, v) = Exp(g, t) + 1 /\ v.sess = t.sess
    BY DEF Moved
  <2>1. E + 1 \in 3 .. 2 + w => E = 2 \/ E \in 3 .. 2 + w
    BY <1>1
  <2>2. E <= 2 + w => E + 1 <= 3 + w
    BY <1>1
  <2> QED
    BY <1>4, <1>5, <1>6, <2>0, <2>1, <2>2 DEF Replay, E, w
<1>8. Answers(g, t, p, y)
  BY <1>2, <1>3 DEF E, Answers
<1>9. p.k # "B"
  OBVIOUS
<1>10. /\ Holds(g, x, u, Advance(v), qR2, qS) /\ Holds(g, x, u, Advance(v), qR2, qS \o <<y>>)
       /\ Advance(v).sess = t.sess
  BY <1>7, <1>8, <1>9, AdvanceKeeps
<1> QED
  BY <1>0, <1>10

\* The record of the last file changes.
LEMMA LastChanged ==
  ASSUME NEW g \in Plans, NEW t \in Receivers, FilesShape(g, t), t.files # <<>>, NEW v,
         NEW e \in FileRecords, v.files = [t.files EXCEPT ![Len(t.files)] = e],
         v.pc \in {"run", "drain"}, FileShape(g, Len(t.files), e, TRUE)
  PROVE  /\ v.files \in Seq(FileRecords) /\ Len(v.files) = Len(t.files) /\ v.files # <<>>
         /\ LastFile(v) = e /\ FilesShape(g, v)
<1> DEFINE n == Len(t.files)
<1>1. t.files \in Seq(FileRecords) /\ n \in Nat /\ n >= 1 /\ n \in DOMAIN t.files
  BY ReceiverFields
<1>2. v.files \in Seq(FileRecords) /\ Len(v.files) = n /\ v.files # <<>> /\ v.files[n] = e
      /\ DOMAIN v.files = DOMAIN t.files /\ \A i \in DOMAIN t.files : i # n => v.files[i] = t.files[i]
  BY <1>1
<1>3. LastFile(v) = e
  BY <1>2 DEF LastFile
<1>4. \A i \in DOMAIN v.files : FileShape(g, i, v.files[i], i = n)
  <2> SUFFICES ASSUME NEW i \in DOMAIN v.files PROVE FileShape(g, i, v.files[i], i = n)
    OBVIOUS
  <2>1. CASE i = n
    BY <1>2, <2>1 DEF FileShape
  <2>2. CASE i # n
    BY <1>2, <2>2 DEF FilesShape
  <2> QED
    BY <2>1, <2>2
<1>5. FilesShape(g, v)
  BY <1>2, <1>4 DEF FilesShape
<1> QED
  BY <1>2, <1>3, <1>5

\* What Taking says of the files and the packet.
LEMMA TakingFacts ==
  ASSUME NEW g, NEW x, NEW u, NEW t, NEW tb, NEW qR, NEW qR2, NEW qS, NEW h, NEW p,
         Taking(g, x, u, t, tb, qR, qR2, qS, h, p)
  PROVE  /\ g \in Plans /\ t \in Receivers /\ tb \in Receivers /\ t.pc \in {"run", "drain"}
         /\ FilesShape(g, t) /\ GoodPacket(g, p) /\ At(g, p) = Exp(g, t) /\ Exp(g, t) \in Nat
         /\ Len(t.files) <= MaxBatchFiles /\ t.files \in Seq(FileRecords)
         /\ t.files # <<>> => /\ LastFile(t) \in FileRecords /\ Len(t.files) >= 1
                              /\ FileShape(g, Len(t.files), LastFile(t), TRUE)
<1>1. /\ g \in Plans /\ t \in Receivers /\ tb \in Receivers /\ t.pc \in {"run", "drain"}
      /\ FilesShape(g, t) /\ GoodPacket(g, p) /\ At(g, p) = Exp(g, t) /\ Exp(g, t) \in Nat
      /\ Len(t.files) <= MaxBatchFiles /\ t.files \in Seq(FileRecords)
  <2>1. g \in Plans /\ GoodPacket(g, p) /\ At(g, p) = Exp(g, t) /\ Exp(g, t) \in Nat
    BY TakesFacts, CoreFacts DEF Taking
  <2>2. t \in Receivers /\ tb \in Receivers /\ t.pc \in {"run", "drain"} /\ Len(t.files) <= MaxBatchFiles
        /\ FilesShape(g, t)
    BY DEF Taking, Core, Types, SameButBuf, Takes
  <2> QED
    BY <2>1, <2>2, ReceiverFields
<1>2. ASSUME t.files # <<>>
      PROVE  /\ LastFile(t) \in FileRecords /\ Len(t.files) >= 1
             /\ FileShape(g, Len(t.files), LastFile(t), TRUE)
  <2>1. Len(t.files) \in DOMAIN t.files /\ Len(t.files) >= 1
    BY <1>1, <1>2
  <2>2. LastFile(t) \in FileRecords
    BY <1>1, <2>1 DEF LastFile
  <2>3. FileShape(g, Len(t.files), LastFile(t), Len(t.files) = Len(t.files))
    BY <1>1, <2>1 DEF FilesShape, LastFile
  <2> QED
    BY <2>1, <2>2, <2>3 DEF FileShape
<1> QED
  BY <1>1, <1>2

LEMMA AdvancedIs ==
  ASSUME NEW v, NEW p, Advanced(v, p), NEW t, v.sess = t.sess
  PROVE  r' = Advance(v) /\ (toS' = toS \/ toS' = toS \o <<Reply("Y", p.seq, t.sess.chk)>>)
  BY DEF Advanced, Answer, WriteToS

\* The plan resumes what the receiver has of the first file.
Resumes(g, x, c) ==
  g.att = 1 => /\ c.attrs
               /\ g.skip = IF c.resend /\ x.partial <= x.chunks THEN x.partial ELSE 0

\* The F of the next file.
LEMMA TakeFileKeeps ==
  ASSUME NEW g, NEW u, NEW t, NEW tb, NEW qR, NEW qR2, NEW h, NEW p,
         Taking(g, xfer, u, t, tb, qR, qR2, toS, h, p), Resumes(g, xfer, t.sess),
         p.k = "F", ~Refused(tb, p), TakeFile(tb, p)
  PROVE  Holds(g, xfer, u, r', qR2, toS') /\ r'.sess = t.sess /\ OneMore(g, t, tb, r')
<1> DEFINE n == Len(t.files)
           e == [f |-> p.f, len |-> 0, good |-> 0, decl |-> None, kept |-> FALSE]
           d == ResumeOffset(tb, p.f)
           fs == Append(t.files, e)
           v == [tb EXCEPT !.pend = d, !.files = fs]
<1>1. /\ g \in Plans /\ t \in Receivers /\ tb \in Receivers /\ t.pc \in {"run", "drain"}
      /\ FilesShape(g, t) /\ GoodPacket(g, p) /\ At(g, p) = Exp(g, t) /\ Exp(g, t) \in Nat
      /\ t.files \in Seq(FileRecords)
  BY TakingFacts
<1>2. p.f = n + 1 /\ n < g.files /\ n \in Nat /\ (n > 0 => LastFile(t).kept) /\ (n = 0 => t.files = <<>>)
  BY <1>1, ExpectedIs
<1>3. /\ tb.pc = t.pc /\ tb.exp = t.exp /\ tb.sess = t.sess /\ tb.replay = t.replay
      /\ tb.files = t.files /\ xfer \in Transfers /\ xfer.partial \in Nat /\ t.sess \in Caps
  BY <1>1, TransferFacts, ReceiverFields DEF Taking, SameButBuf, Core, Sessions
<1>4. d \in Nat /\ e \in FileRecords
  <2>1. n + 1 \in Nat
    BY <1>2
  <2> QED
    BY <1>2, <1>3, <2>1 DEF ResumeOffset, FileRecords, None
<1>5. fs \in Seq(FileRecords) /\ Len(fs) = n + 1 /\ fs[n + 1] = e /\ fs # <<>>
      /\ \A i \in 1..n : fs[i] = t.files[i]
  BY <1>1, <1>4
<1>6. /\ v \in Receivers /\ v.pc = t.pc /\ v.exp = t.exp /\ v.sess = t.sess /\ v.buf = tb.buf
      /\ v.files = fs /\ v.pend = d /\ v.replay = t.replay
  <2> HIDE DEF d, fs
  <2>1. v \in Receivers /\ v.files = fs /\ v.pend = d
    BY <1>1, <1>4, <1>5 DEF Receivers
  <2>2. v.pc = tb.pc /\ v.exp = tb.exp /\ v.sess = tb.sess /\ v.buf = tb.buf /\ v.replay = tb.replay
    BY <1>1 DEF Receivers
  <2> QED
    BY <1>3, <2>1, <2>2
<1>7. r' = Advance(v) /\ (toS' = toS \/ toS' = toS \o <<Reply("Y", p.seq, t.sess.chk)>>)
  <2>1. Advanced(v, p)
    <3>1. v = [tb EXCEPT !.pend = ResumeOffset(tb, p.f), !.files = Append(@, e)]
      BY <1>1, <1>3 DEF Receivers
    <3> HIDE DEF v
    <3> QED
      BY <3>1 DEF TakeFile
  <2> HIDE DEF v
  <2> QED
    BY <1>6, <2>1, AdvancedIs
<1>8. n + 1 <= MaxBatchFiles
  <2>1. MaxBatchFiles \in Nat /\ ~(n >= MaxBatchFiles)
    BY <1>3, KermitAssumption DEF Refused
  <2> QED
    BY <1>2, <2>1
<1>9. LastFile(v) = e /\ v.files # <<>> /\ Len(v.files) = n + 1
  BY <1>5, <1>6 DEF LastFile
<1>10. e.kept = FALSE /\ e.decl = None /\ e.len = 0 /\ e.good = 0 /\ e.f = n + 1
  BY <1>2
<1> HIDE DEF v, e, fs, d
<1>11. FilesShape(g, v)
  <2>0. g.files \in Nat /\ g.chunks \in Nat
    BY <1>1, PlanFacts
  <2>1. n + 1 <= g.files
    BY <1>2, <2>0
  <2>2. FileShape(g, n + 1, e, TRUE)
    <3>1. e.len <= g.chunks /\ e.decl <= g.chunks
      BY <1>10, <2>0 DEF None
    <3> QED
      BY <1>10, <3>1 DEF FileShape
  <2>3. \A i \in 1..n : FileShape(g, i, fs[i], FALSE)
    <3> SUFFICES ASSUME NEW i \in 1..n PROVE FileShape(g, i, fs[i], FALSE)
      OBVIOUS
    <3>1. i \in DOMAIN t.files /\ FileShape(g, i, t.files[i], i = n) /\ fs[i] = t.files[i]
      BY <1>1, <1>2, <1>5 DEF FilesShape
    <3>2. t.files[i].kept
      BY <1>1, <1>2, <3>1 DEF FileShape, LastFile
    <3> QED
      BY <3>1, <3>2 DEF FileShape
  <2>4. \A i \in DOMAIN fs : FileShape(g, i, fs[i], i = n + 1)
    <3> SUFFICES ASSUME NEW i \in DOMAIN fs PROVE FileShape(g, i, fs[i], i = n + 1)
      OBVIOUS
    <3>1. i \in 1..n \/ i = n + 1
      BY <1>2, <1>5
    <3>2. CASE i = n + 1
      BY <1>5, <2>2, <3>2 DEF FileShape
    <3>3. CASE i \in 1..n
      BY <1>2, <2>3, <3>3 DEF FileShape
    <3> QED
      BY <3>1, <3>2, <3>3
  <2> QED
    BY <1>1, <1>5, <1>6, <2>1, <2>4 DEF FilesShape
<1>12. Exp(g, v) = Exp(g, t) + 1
  <2>1. Exp(g, t) = First(g, n + 1)
    BY <1>1, <1>2 DEF At, Place
  <2>2. g.att \in {0, 1} /\ (g.att = 0 => Skip(g, n + 1) = 0) /\ First(g, n + 1) \in Nat
    <3>1. n + 1 \in Nat \ {0}
      BY <1>2
    <3>2. First(g, n + 1) \in Nat
      BY <1>1, <3>1, FirstFacts
    <3>3. g.att \in {0, 1} /\ (g.att = 0 => g.skip = 0)
      BY <1>1, PlanFacts
    <3> QED
      BY <3>2, <3>3 DEF Skip
  <2>3. Exp(g, v) = IF g.att = 1 THEN First(g, n + 1) + 1 ELSE DataAt(g, n + 1, 0 + 1)
    BY <1>1, <1>6, <1>9, <1>10 DEF Exp
  <2> QED
    BY <2>1, <2>2, <2>3 DEF DataAt
<1>13. Pending(g, v)
  <2>1. g.att = 1 => t.sess.attrs
    BY DEF Resumes
  <2>2. g.att = 1 => (IF d <= g.chunks THEN d ELSE 0) = Skip(g, n + 1)
    <3> HAVE g.att = 1
    <3>1. /\ g.skip = IF t.sess.resend /\ xfer.partial <= xfer.chunks THEN xfer.partial ELSE 0
          /\ g.chunks = xfer.chunks /\ g.chunks \in Nat
      BY <1>1, PlanFacts DEF Resumes, Taking, PlanFor
    <3>2. d = IF t.sess.resend /\ n + 1 = 1 THEN xfer.partial ELSE 0
      BY <1>2, <1>3, <2>1 DEF d, ResumeOffset
    <3> QED
      BY <1>2, <1>3, <3>1, <3>2 DEF Skip
  <2> QED
    BY <1>6, <1>9, <1>10, <2>2 DEF Pending
<1>14. Moved(g, t, tb, v)
  BY <1>6, <1>8, <1>9, <1>11, <1>12, <1>13 DEF Moved
<1>15. p.k \notin {"A", "B"}
  OBVIOUS
<1>16. /\ Holds(g, xfer, u, Advance(v), qR2, toS)
       /\ Holds(g, xfer, u, Advance(v), qR2, toS \o <<Reply("Y", p.seq, t.sess.chk)>>)
       /\ Advance(v).sess = t.sess
  <2>1. v.replay = t.replay
    BY <1>6
  <2> QED
    BY <1>14, <1>15, <2>1, PlainKeeps
<1>17. OneMore(g, t, tb, r')
  BY <1>7, <1>14 DEF OneMore
<1> QED
  BY <1>7, <1>16, <1>17

\* The next chunk of a file.
LEMMA TakeDataKeeps ==
  ASSUME NEW g, NEW u, NEW t, NEW tb, NEW qR, NEW qR2, NEW h, NEW p,
         Taking(g, xfer, u, t, tb, qR, qR2, toS, h, p), p.k = "D", TakeData(tb, p)
  PROVE  Holds(g, xfer, u, r', qR2, toS') /\ r'.sess = t.sess /\ OneMore(g, t, tb, r')
<1> DEFINE n == Len(t.files)
           c == LastFile(t)
           e == [c EXCEPT !.len = c.len + 1, !.good = c.good + 1]
           fs == [t.files EXCEPT ![n] = e]
           v == [tb EXCEPT !.files = fs]
<1>1. /\ g \in Plans /\ t \in Receivers /\ tb \in Receivers /\ t.pc \in {"run", "drain"}
      /\ FilesShape(g, t) /\ GoodPacket(g, p) /\ At(g, p) = Exp(g, t) /\ Exp(g, t) \in Nat
      /\ t.files \in Seq(FileRecords) /\ Len(t.files) <= MaxBatchFiles
  BY TakingFacts
<1>2. /\ n > 0 /\ n \in Nat /\ p.f = n /\ n <= g.files /\ ~c.kept /\ (g.att = 1 => c.decl # None)
      /\ Skip(g, n) <= c.len /\ p.pos = c.len + 1 /\ c.len < g.chunks
  BY <1>1, ExpectedIs
<1>3. /\ tb.pc = t.pc /\ tb.exp = t.exp /\ tb.sess = t.sess /\ tb.replay = t.replay
      /\ tb.files = t.files /\ ~t.sess.stream /\ tb.pend = t.pend
  BY DEF Taking, SameButBuf, Core, Sessions
<1>4. c \in FileRecords /\ FileShape(g, n, c, TRUE) /\ t.files # <<>> /\ c = t.files[n] /\ n \in DOMAIN t.files
  <2>1. t.files # <<>>
    BY <1>1, <1>2
  <2>2. LastFile(t) \in FileRecords /\ FileShape(g, n, LastFile(t), TRUE)
    BY <2>1, TakingFacts
  <2>3. n \in DOMAIN t.files
    BY <1>1, <1>2
  <2> QED
    BY <2>1, <2>2, <2>3 DEF LastFile
<1>5. c.f = n /\ c.good = c.len /\ c.len \in Nat /\ g.chunks \in Nat /\ c.decl <= g.chunks
  BY <1>1, <1>4, PlanFacts DEF FileShape, FileRecords
<1> HIDE DEF c
<1>6. e \in FileRecords /\ e.f = n /\ e.len = c.len + 1 /\ e.good = e.len /\ e.kept = c.kept /\ e.decl = c.decl
  <2> DEFINE l == c.len + 1
             q == c.good + 1
  <2>1. e = [c EXCEPT !.len = l, !.good = q] /\ l \in Nat /\ q = l /\ c \in FileRecords
    BY <1>4, <1>5
  <2> HIDE DEF l, q, e
  <2>2. e \in FileRecords /\ e.len = l /\ e.good = l
    BY <2>1 DEF FileRecords
  <2>3. e.f = c.f /\ e.kept = c.kept /\ e.decl = c.decl
    BY <2>1 DEF FileRecords
  <2> QED
    BY <1>5, <2>2, <2>3 DEF l
<1>7. fs \in Seq(FileRecords)
  BY <1>1, <1>4, <1>6
<1>8. /\ v \in Receivers /\ v.pc = t.pc /\ v.exp = t.exp /\ v.sess = t.sess /\ v.buf = tb.buf
      /\ v.files = fs /\ v.pend = t.pend /\ v.replay = t.replay
  <2> HIDE DEF fs
  <2>1. v \in Receivers /\ v.files = fs
    BY <1>1, <1>7 DEF Receivers
  <2>2. /\ v.pc = tb.pc /\ v.exp = tb.exp /\ v.sess = tb.sess /\ v.buf = tb.buf /\ v.replay = tb.replay
        /\ v.pend = tb.pend
    BY <1>1 DEF Receivers
  <2> QED
    BY <1>3, <2>1, <2>2
<1>9. Advanced(v, p)
  <2> DEFINE z == [tb EXCEPT !.files[Len(tb.files)].len = @ + 1, !.files[Len(tb.files)].good = @ + 1]
  <2>1. z = v
    <3>1. tb.files = t.files /\ t.files[n] = c /\ n \in DOMAIN t.files /\ c.good = t.files[n].good
      BY <1>3, <1>4
    <3> QED
      BY <1>1, <1>4, <3>1, ZenonT(60) DEF Receivers, FileRecords
  <2>2. LastFile(tb) = c
    BY <1>3 DEF LastFile, c
  <2>3. c.good = c.len /\ p.f = c.f /\ p.pos = c.len + 1 /\ ~tb.sess.stream
    BY <1>2, <1>3, <1>5
  <2> HIDE DEF v
  <2>4. Advanced(z, p)
    BY <2>2, <2>3 DEF TakeData
  <2> QED
    BY <2>1, <2>4
<1>10. r' = Advance(v) /\ (toS' = toS \/ toS' = toS \o <<Reply("Y", p.seq, t.sess.chk)>>)
  <2>1. v.sess = t.sess
    BY <1>8
  <2> HIDE DEF v
  <2> QED
    BY <1>9, <2>1, AdvancedIs
<1> HIDE DEF v, e
<1>11. FileShape(g, n, e, TRUE)
  <2>0. e.decl <= g.chunks
    BY <1>5, <1>6
  <2>1. e.len <= g.chunks /\ Skip(g, n) <= e.len
    <3>1. Skip(g, n) \in Nat
      BY <1>1, <1>2, PlanFacts
    <3> QED
      BY <1>2, <1>5, <1>6, <3>1
  <2> QED
    BY <1>2, <1>6, <2>0, <2>1 DEF FileShape
<1>12. Len(v.files) = n /\ v.files # <<>> /\ LastFile(v) = e /\ FilesShape(g, v)
  <2>1. v.files = [t.files EXCEPT ![Len(t.files)] = e]
    BY <1>8
  <2>2. v.pc \in {"run", "drain"} /\ e \in FileRecords
    BY <1>1, <1>6, <1>8
  <2>3. t.files # <<>> /\ FileShape(g, Len(t.files), e, TRUE)
    BY <1>4, <1>11
  <2> QED
    BY <1>1, <2>1, <2>2, <2>3, LastChanged
<1>13. Exp(g, v) = Exp(g, t) + 1
  <2>1. Exp(g, t) = DataAt(g, n, c.len + 1)
    BY <1>1, <1>2 DEF At, Place
  <2>2. Exp(g, v) = DataAt(g, n, e.len + 1)
    BY <1>1, <1>2, <1>6, <1>8, <1>12 DEF Exp
  <2>3. First(g, n) \in Nat /\ g.att \in Nat /\ Skip(g, n) \in Nat
    <3>1. n \in Nat \ {0}
      BY <1>2
    <3>2. First(g, n) \in Nat
      BY <1>1, <3>1, FirstFacts
    <3>3. Skip(g, n) \in 0..g.chunks /\ g.att \in Nat
      BY <1>1, <1>2, PlanFacts
    <3> QED
      BY <3>2, <3>3
  <2> QED
    BY <1>5, <1>6, <2>1, <2>2, <2>3 DEF DataAt
<1>14. Pending(g, v)
  BY <1>2, <1>6, <1>12 DEF Pending
<1>15. Moved(g, t, tb, v)
  BY <1>1, <1>8, <1>12, <1>13, <1>14 DEF Moved
<1>16. p.k \notin {"A", "B"}
  OBVIOUS
<1>17. /\ Holds(g, xfer, u, Advance(v), qR2, toS)
       /\ Holds(g, xfer, u, Advance(v), qR2, toS \o <<Reply("Y", p.seq, t.sess.chk)>>)
       /\ Advance(v).sess = t.sess
  <2>1. v.replay = t.replay
    BY <1>8
  <2> QED
    BY <1>15, <1>16, <2>1, PlainKeeps
<1>18. OneMore(g, t, tb, r')
  BY <1>10, <1>15 DEF OneMore
<1> QED
  BY <1>10, <1>17, <1>18

\* The Z of a file: it is whole.
LEMMA TakeEofKeeps ==
  ASSUME NEW g, NEW u, NEW t, NEW tb, NEW qR, NEW qR2, NEW h, NEW p,
         Taking(g, xfer, u, t, tb, qR, qR2, toS, h, p), p.k = "Z", TakeEof(tb, p)
  PROVE  Holds(g, xfer, u, r', qR2, toS') /\ r'.sess = t.sess /\ OneMore(g, t, tb, r')
<1> DEFINE n == Len(t.files)
           c == LastFile(t)
           e == [c EXCEPT !.kept = TRUE]
           fs == [t.files EXCEPT ![n] = e]
           v == [tb EXCEPT !.files = fs]
<1>1. /\ g \in Plans /\ t \in Receivers /\ tb \in Receivers /\ t.pc \in {"run", "drain"}
      /\ FilesShape(g, t) /\ GoodPacket(g, p) /\ At(g, p) = Exp(g, t) /\ Exp(g, t) \in Nat
      /\ t.files \in Seq(FileRecords) /\ Len(t.files) <= MaxBatchFiles
  BY TakingFacts
<1>2. n > 0 /\ n \in Nat /\ p.f = n /\ n <= g.files /\ ~c.kept /\ c.len = g.chunks
  BY <1>1, ExpectedIs
<1>3. /\ tb.pc = t.pc /\ tb.exp = t.exp /\ tb.sess = t.sess /\ tb.replay = t.replay
      /\ tb.files = t.files /\ tb.pend = t.pend
  BY DEF Taking, SameButBuf
<1>4. c \in FileRecords /\ FileShape(g, n, c, TRUE) /\ t.files # <<>> /\ c = t.files[n] /\ n \in DOMAIN t.files
  <2>1. t.files # <<>>
    BY <1>1, <1>2
  <2>2. LastFile(t) \in FileRecords /\ FileShape(g, n, LastFile(t), TRUE)
    BY <2>1, TakingFacts
  <2>3. n \in DOMAIN t.files
    BY <1>1, <1>2
  <2> QED
    BY <2>1, <2>2, <2>3 DEF LastFile
<1>5. c.f = n /\ c.good = c.len /\ c.len \in Nat /\ g.chunks \in Nat /\ c.decl <= g.chunks
  BY <1>1, <1>4, PlanFacts DEF FileShape, FileRecords
<1> HIDE DEF c
<1>6. e \in FileRecords /\ e.f = n /\ e.len = c.len /\ e.good = e.len /\ e.kept = TRUE /\ e.decl = c.decl
  BY <1>4, <1>5 DEF FileRecords
<1>7. fs \in Seq(FileRecords)
  BY <1>1, <1>4, <1>6
<1>8. /\ v \in Receivers /\ v.pc = t.pc /\ v.exp = t.exp /\ v.sess = t.sess /\ v.buf = tb.buf
      /\ v.files = fs /\ v.pend = t.pend /\ v.replay = t.replay
  <2> HIDE DEF fs
  <2>1. v \in Receivers /\ v.files = fs
    BY <1>1, <1>7 DEF Receivers
  <2>2. /\ v.pc = tb.pc /\ v.exp = tb.exp /\ v.sess = tb.sess /\ v.buf = tb.buf /\ v.replay = tb.replay
        /\ v.pend = tb.pend
    BY <1>1 DEF Receivers
  <2> QED
    BY <1>3, <2>1, <2>2
<1>9. Advanced(v, p)
  <2> DEFINE z == [tb EXCEPT !.files[Len(tb.files)].kept = TRUE]
  <2>1. z = v
    <3>1. tb.files = t.files /\ t.files[n] = c /\ n \in DOMAIN t.files
      BY <1>3, <1>4
    <3> QED
      BY <1>1, <1>4, <3>1 DEF Receivers, FileRecords
  <2> HIDE DEF v
  <2>2. Advanced(z, p)
    BY DEF TakeEof
  <2> QED
    BY <2>1, <2>2
<1>10. r' = Advance(v) /\ (toS' = toS \/ toS' = toS \o <<Reply("Y", p.seq, t.sess.chk)>>)
  <2>1. v.sess = t.sess
    BY <1>8
  <2> HIDE DEF v
  <2> QED
    BY <1>9, <2>1, AdvancedIs
<1> HIDE DEF v, e
<1>11. FileShape(g, n, e, TRUE)
  <2>1. e.len <= g.chunks
    BY <1>2, <1>5, <1>6
  <2>2. e.decl <= g.chunks
    BY <1>5, <1>6
  <2> QED
    BY <1>2, <1>6, <2>1, <2>2 DEF FileShape
<1>12. Len(v.files) = n /\ v.files # <<>> /\ LastFile(v) = e /\ FilesShape(g, v)
  <2>1. v.files = [t.files EXCEPT ![Len(t.files)] = e]
    BY <1>8
  <2>2. v.pc \in {"run", "drain"} /\ e \in FileRecords
    BY <1>1, <1>6, <1>8
  <2>3. t.files # <<>> /\ FileShape(g, Len(t.files), e, TRUE)
    BY <1>4, <1>11
  <2> QED
    BY <1>1, <2>1, <2>2, <2>3, LastChanged, ZenonT(60)
<1>13. Exp(g, v) = Exp(g, t) + 1
  <2>1. Exp(g, t) = EndAt(g, n)
    BY <1>1, <1>2 DEF At, Place
  <2>2. Exp(g, v) = First(g, n + 1)
    BY <1>1, <1>6, <1>8, <1>12 DEF Exp
  <2>3. n \in Nat \ {0}
    BY <1>2
  <2>4. First(g, n + 1) = First(g, n) + 2 + g.att + g.chunks - Skip(g, n)
        /\ EndAt(g, n) = First(g, n) + g.att + g.chunks + 1 - Skip(g, n) /\ First(g, n) \in Nat
    BY <1>1, <2>3, FirstFacts
  <2>5. g.att \in Nat /\ g.chunks \in Nat /\ Skip(g, n) \in 0..g.chunks
    BY <1>1, <1>2, PlanFacts
  <2> HIDE DEF n
  <2> QED
    BY <2>1, <2>2, <2>4, <2>5
<1>14. Pending(g, v)
  BY <1>6, <1>12 DEF Pending
<1>15. Moved(g, t, tb, v)
  BY <1>1, <1>8, <1>12, <1>13, <1>14 DEF Moved
<1>16. p.k \notin {"A", "B"}
  OBVIOUS
<1>17. /\ Holds(g, xfer, u, Advance(v), qR2, toS)
       /\ Holds(g, xfer, u, Advance(v), qR2, toS \o <<Reply("Y", p.seq, t.sess.chk)>>)
       /\ Advance(v).sess = t.sess
  <2>1. v.replay = t.replay
    BY <1>8
  <2> QED
    BY <1>15, <1>16, <2>1, PlainKeeps
<1>18. OneMore(g, t, tb, r')
  BY <1>10, <1>15 DEF OneMore
<1> QED
  BY <1>10, <1>17, <1>18

\* The attributes of a file: the ACK asks for what is missing.
LEMMA TakeAttributesKeeps ==
  ASSUME NEW g, NEW u, NEW t, NEW tb, NEW qR, NEW qR2, NEW h, NEW p,
         Taking(g, xfer, u, t, tb, qR, qR2, toS, h, p), p.k = "A", TakeAttributes(tb, p)
  PROVE  Holds(g, xfer, u, r', qR2, toS') /\ r'.sess = t.sess /\ OneMore(g, t, tb, r')
<1> DEFINE n == Len(t.files)
           c == LastFile(t)
           off == IF t.pend <= p.pos THEN t.pend ELSE 0
           ack == Packet("Y", p.seq, t.sess.chk, 0, off, Classic)
           e == [c EXCEPT !.decl = p.pos, !.len = off, !.good = off]
           fs == [t.files EXCEPT ![n] = e]
           rp == IF off > 0 THEN ack ELSE t.replay
           v == [tb EXCEPT !.pend = 0, !.files = fs, !.replay = rp]
           E == Exp(g, t)
           w == t.sess.window
<1>1. /\ g \in Plans /\ t \in Receivers /\ tb \in Receivers /\ t.pc \in {"run", "drain"}
      /\ FilesShape(g, t) /\ GoodPacket(g, p) /\ At(g, p) = E /\ E \in Nat
      /\ t.files \in Seq(FileRecords) /\ Len(t.files) <= MaxBatchFiles
  BY TakingFacts
<1>2. /\ n > 0 /\ n \in Nat /\ p.f = n /\ n <= g.files /\ ~c.kept /\ g.att = 1 /\ c.decl = None
      /\ p.pos = g.chunks
  BY <1>1, ExpectedIs
<1>3. /\ tb.pc = t.pc /\ tb.exp = t.exp /\ tb.sess = t.sess /\ tb.replay = t.replay
      /\ tb.files = t.files /\ tb.pend = t.pend /\ p.seq = t.exp
  BY DEF Taking, SameButBuf
<1>4. c \in FileRecords /\ FileShape(g, n, c, TRUE) /\ t.files # <<>> /\ c = t.files[n] /\ n \in DOMAIN t.files
  <2>1. t.files # <<>>
    BY <1>1, <1>2
  <2>2. LastFile(t) \in FileRecords /\ FileShape(g, n, LastFile(t), TRUE)
    BY <2>1, TakingFacts
  <2>3. n \in DOMAIN t.files
    BY <1>1, <1>2
  <2> QED
    BY <2>1, <2>2, <2>3 DEF LastFile
<1>5. ReceiverShape(g, t, h)
  BY DEF Taking, Takes, Core, Alive, Done
<1>6. off = Skip(g, n)
  <2>1. Pending(g, t)
    BY <1>5 DEF ReceiverShape
  <2> QED
    BY <1>2, <1>4, <2>1 DEF Pending
<1>7. g.chunks \in Nat /\ off \in 0..g.chunks /\ off \in Nat /\ c.f = n
  <2>1. g.chunks \in Nat /\ Skip(g, n) \in 0..g.chunks
    BY <1>1, <1>2, PlanFacts
  <2>2. c.f = n
    BY <1>4 DEF FileShape
  <2> HIDE DEF off, c
  <2> QED
    BY <1>6, <2>1, <2>2
<1>8. ack \in PacketsOf({"Y"}) /\ ack \in ToS /\ ack.k = "Y" /\ ack.seq = p.seq /\ ack.pos = off
  <2>1. t.exp \in Int /\ t.sess.chk \in 1..3
    <3>1. t.exp \in 0..Numbers - 1 /\ t.sess \in Caps
      BY <1>1, ReceiverFields
    <3> QED
      BY <3>1, CapsFacts
  <2>2. Classic \in Caps /\ 0 \in Nat
    BY DEF Classic, Caps
  <2> HIDE DEF off
  <2>3. ack \in PacketsOf({"Y"})
    BY <1>3, <1>7, <2>1, <2>2 DEF Packet, PacketsOf
  <2>4. ack \in ToS
    BY <1>3, <1>7, <2>1, <2>2 DEF Packet, PacketsOf, ToS
  <2> QED
    BY <2>3, <2>4 DEF Packet
<1> HIDE DEF c, off, ack
<1>9. e \in FileRecords /\ e.f = n /\ e.len = off /\ e.good = off /\ e.kept = c.kept /\ e.decl = g.chunks
  <2>1. e = [c EXCEPT !.decl = g.chunks, !.len = off, !.good = off]
    BY <1>2
  <2>2. c \in FileRecords /\ g.chunks \in Nat \cup {None} /\ off \in Nat /\ c.f = n
    BY <1>4, <1>7
  <2> HIDE DEF e
  <2> QED
    BY <2>1, <2>2 DEF FileRecords
<1>10. fs \in Seq(FileRecords) /\ rp \in PacketsOf({"Y"})
  <2>1. fs \in Seq(FileRecords)
    BY <1>1, <1>4, <1>9
  <2>2. t.replay \in PacketsOf({"Y"})
    BY <1>1, ReceiverFields
  <2> QED
    BY <1>8, <2>1, <2>2
<1>11. /\ v \in Receivers /\ v.pc = t.pc /\ v.exp = t.exp /\ v.sess = t.sess /\ v.buf = tb.buf
       /\ v.files = fs /\ v.pend = 0 /\ v.replay = rp
  <2> HIDE DEF fs, rp
  <2>1. v \in Receivers /\ v.files = fs /\ v.pend = 0 /\ v.replay = rp
    BY <1>1, <1>10 DEF Receivers
  <2>2. v.pc = tb.pc /\ v.exp = tb.exp /\ v.sess = tb.sess /\ v.buf = tb.buf
    BY <1>1 DEF Receivers
  <2> QED
    BY <1>3, <2>1, <2>2
<1>12. r' = Advance(v) /\ (toS' = toS \/ toS' = toS \o <<ack>>)
  <2> DEFINE off2 == IF tb.pend <= p.pos THEN tb.pend ELSE 0
             ack2 == Packet("Y", p.seq, tb.sess.chk, 0, off2, Classic)
             z == [tb EXCEPT !.pend = 0,
                             !.files[Len(tb.files)].decl = p.pos,
                             !.files[Len(tb.files)].len = off2,
                             !.files[Len(tb.files)].good = off2,
                             !.replay = IF off2 > 0 THEN ack2 ELSE @]
  <2>1. off2 = off /\ ack2 = ack
    BY <1>3 DEF off, ack
  <2>2. Answer(Advance(z), <<ack2>>)
    BY DEF TakeAttributes
  <2> HIDE DEF off2, ack2
  <2>3. z = v
    <3>1. tb.files = t.files /\ t.files[n] = c /\ n \in DOMAIN t.files /\ tb.replay = t.replay
      BY <1>3, <1>4
    <3> DEFINE fs2 == [[[t.files EXCEPT ![n].decl = p.pos] EXCEPT ![n].len = off] EXCEPT ![n].good = off]
    <3>2. fs2 = fs
      <4>1. t.files[n] = c /\ n \in DOMAIN t.files /\ c \in FileRecords /\ t.files \in Seq(FileRecords)
        BY <1>1, <1>4, <3>1
      <4> QED
        BY <4>1 DEF FileRecords
    <3>3. z = [tb EXCEPT !.pend = 0, !.files = fs2, !.replay = rp]
      BY <1>1, <2>1, <3>1, ZenonT(60) DEF Receivers
    <3> HIDE DEF fs2, fs, rp, z
    <3> QED
      BY <3>2, <3>3
  <2> HIDE DEF z, v
  <2> QED
    BY <2>1, <2>2, <2>3 DEF Answer, WriteToS
<1> HIDE DEF v, e, rp
<1>13. g.chunks # None
  BY <1>7 DEF None
<1>14. FileShape(g, n, e, TRUE)
  <2>1. off <= g.chunks /\ off >= Skip(g, n) /\ g.chunks <= g.chunks
    BY <1>6, <1>7
  <2> QED
    BY <1>2, <1>9, <1>13, <2>1 DEF FileShape
<1>15. Len(v.files) = n /\ v.files # <<>> /\ LastFile(v) = e /\ FilesShape(g, v)
  <2>1. v.files = [t.files EXCEPT ![Len(t.files)] = e]
    BY <1>11
  <2>2. v.pc \in {"run", "drain"} /\ e \in FileRecords
    BY <1>1, <1>9, <1>11
  <2>3. t.files # <<>> /\ FileShape(g, Len(t.files), e, TRUE)
    BY <1>4, <1>14
  <2> QED
    BY <1>1, <2>1, <2>2, <2>3, LastChanged
<1>16. E = First(g, n) + 1 /\ First(g, n) \in Nat
  <2>1. n \in Nat \ {0}
    BY <1>2
  <2>2. First(g, n) \in Nat
    BY <1>1, <2>1, FirstFacts
  <2>3. E = First(g, n) + 1
    BY <1>1, <1>2 DEF At, Place
  <2> QED
    BY <2>2, <2>3
<1>17. Exp(g, v) = E + 1
  <2>1. Exp(g, v) = DataAt(g, n, off + 1)
    BY <1>1, <1>2, <1>9, <1>11, <1>13, <1>15 DEF Exp
  <2> HIDE DEF E
  <2> QED
    BY <1>2, <1>6, <1>7, <1>16, <2>1 DEF DataAt
<1>18. Pending(g, v)
  BY <1>9, <1>13, <1>15 DEF Pending
<1>19. Moved(g, t, tb, v)
  BY <1>1, <1>11, <1>15, <1>17, <1>18 DEF Moved
<1>20. Answers(g, t, p, ack)
  <2>1. \A f \in 1..g.files : g.att = 1 /\ E = First(g, f) + 1 => f = n
    BY <1>1, <1>2, NotAttributes
  <2> QED
    BY <1>6, <1>8, <2>1 DEF Answers
<1>21. Replay(g, v)
  <2>1. Replay(g, t) /\ t.exp = E % Numbers
    BY <1>5 DEF ReceiverShape
  <2>2. t.replay.seq # None /\ t.replay.pos # 0 => E <= 2 + w
    BY DEF Taking
  <2>3. w \in Nat
    BY <1>1, ReceiverFields, CapsFacts
  <2>4. First(g, 1) = 1 /\ Skip(g, 1) = g.skip /\ (n # 1 => Skip(g, n) = 0)
    BY DEF First, Skip
  <2>5. n # 1 => E > 2
    <3> HAVE n # 1
    <3>0. n \in Nat /\ n > 0
      BY <1>2
    <3> HIDE DEF n
    <3>1. 1 < n /\ 1 + 1 = 2 /\ n \in Nat \ {0} /\ 1 \in Nat \ {0}
      BY <3>0
    <3>2. First(g, 1 + 1) <= First(g, n)
      BY <1>1, <3>1, FirstMonotone
    <3>3. First(g, 1 + 1) = First(g, 1) + 2 + g.att + g.chunks - Skip(g, 1)
      BY <1>1, <3>1, FirstFacts
    <3>4. Skip(g, 1) \in 0..g.chunks
      BY <1>1, PlanFacts
    <3> HIDE DEF E
    <3> QED
      BY <1>2, <1>7, <1>16, <2>4, <3>2, <3>3, <3>4
  <2> HIDE DEF E, w
  <2>6. Exp(g, v) = E + 1 /\ v.sess.window = w /\ v.replay = rp
    BY <1>11, <1>17 DEF w
  <2>7. CASE n = 1
    <3>1. E = 2 /\ off = g.skip
      BY <1>6, <1>16, <2>4, <2>7
    <3>2. off > 0 => rp = ack /\ ack.pos = g.skip /\ ack.seq = 2 % Numbers
      BY <1>3, <1>8, <2>1, <3>1 DEF rp
    <3>3. ~(off > 0) => rp = t.replay
      BY DEF rp
    <3>4. E + 1 <= 3 + w
      BY <2>3, <3>1
    <3> QED
      BY <1>7, <2>1, <2>2, <2>6, <3>1, <3>2, <3>3, <3>4 DEF Replay
  <2>8. CASE n # 1
    <3>1. rp = t.replay
      BY <1>6, <2>4, <2>8 DEF rp
    <3>2. E + 1 \in 3 .. 2 + w => E \in 3 .. 2 + w
      BY <1>1, <2>3, <2>5, <2>8 DEF E
    <3>3. E <= 2 + w => E + 1 <= 3 + w
      BY <1>1, <2>3 DEF E
    <3> QED
      BY <2>1, <2>2, <2>6, <3>1, <3>2, <3>3 DEF Replay, E, w
  <2> QED
    BY <2>7, <2>8
<1>22. p.k # "B"
  OBVIOUS
<1>23. /\ Holds(g, xfer, u, Advance(v), qR2, toS) /\ Holds(g, xfer, u, Advance(v), qR2, toS \o <<ack>>)
       /\ Advance(v).sess = t.sess
  BY <1>19, <1>20, <1>21, <1>22, AdvanceKeeps
<1>24. OneMore(g, t, tb, r')
  BY <1>12, <1>19 DEF OneMore
<1> QED
  BY <1>12, <1>23, <1>24

\* The B of the batch, which is never put aside.
LEMMA TakeBreakKeeps ==
  ASSUME NEW g, NEW u, NEW t, NEW tb, NEW qR, NEW qR2, NEW h, NEW p,
         Taking(g, xfer, u, t, tb, qR, qR2, toS, h, p), p.k = "B", TakeBreak(tb, p)
  PROVE  Holds(g, xfer, u, r', qR2, toS') /\ r'.sess = t.sess
<1> DEFINE n == Len(t.files)
           y == Reply("Y", p.seq, t.sess.chk)
           v == [tb EXCEPT !.pc = "ok"]
<1>1. /\ g \in Plans /\ t \in Receivers /\ tb \in Receivers /\ t.pc \in {"run", "drain"}
      /\ FilesShape(g, t) /\ GoodPacket(g, p) /\ At(g, p) = Exp(g, t) /\ Exp(g, t) \in Nat
      /\ t.files \in Seq(FileRecords)
  BY TakingFacts
<1>2. n = g.files /\ n > 0 /\ LastFile(t).kept /\ n \in Nat
  BY <1>1, ExpectedIs
<1>3. /\ tb.exp = t.exp /\ tb.sess = t.sess /\ tb.files = t.files /\ p.seq = t.exp
      /\ Core(g, xfer, u, t, qR, toS, h) /\ PlanFor(g, xfer)
  BY DEF Taking, SameButBuf
<1>4. t.pc = "run" /\ h = Exp(g, t) /\ t.exp = Exp(g, t) % Numbers
  <2>1. t.pc # "drain"
    <3>1. t.pc = "drain" => p \in PacketsOf({"D"})
      BY <1>1, ReceiverFields DEF Taking, Takes
    <3> QED
      BY <3>1, PacketFields
  <2>2. ReceiverShape(g, t, h)
    BY <1>1, <1>3 DEF Core, Alive, Done
  <2>3. t.pc = "run"
    BY <1>1, <2>1
  <2> QED
    BY <1>3, <2>2, <2>3, NakTells DEF ReceiverShape
<1>5. Exp(g, t) = BreakAt(g)
  BY <1>1 DEF At, Place
<1>6. /\ u.pc \notin {"poke", "S"} /\ qR2 \in Seq(ToR) /\ Shift(qR, qR2, StopAndWait)
      /\ Alive(u.pc) => BreakAt(g) < SendNext(g, u)
  BY <1>5, TakesFacts DEF Taking
<1>7. y \in ToS /\ y.k = "Y" /\ y.seq = BreakAt(g) % Numbers
  <2>1. t.exp \in Int /\ t.sess.chk \in 1..3
    <3>1. t.exp \in 0..Numbers - 1 /\ t.sess \in Caps
      BY <1>1, ReceiverFields
    <3> QED
      BY <3>1, CapsFacts
  <2> QED
    BY <1>3, <1>4, <1>5, <2>1, ReplyType
<1>8. v \in Receivers /\ v.pc = "ok" /\ v.sess = t.sess /\ v.files = t.files /\ v.idle = tb.idle
  <2>1. v \in Receivers /\ v.pc = "ok"
    BY <1>1 DEF Receivers, Done
  <2>2. v.sess = tb.sess /\ v.files = tb.files /\ v.idle = tb.idle
    BY <1>1 DEF Receivers
  <2> QED
    BY <1>3, <2>1, <2>2
<1>9. r' = v /\ (toS' = toS \/ toS' = toS \o <<y>>)
  BY <1>3 DEF TakeBreak, Answer, WriteToS
<1>10. tb.idle = t.idle
  BY DEF Taking, SameButBuf
<1> HIDE DEF v, y
<1>11. FilesShape(g, v)
  <2>1. t.files # <<>>
    BY <1>1, <1>2
  <2> QED
    BY <1>1, <1>2, <1>8, <2>1 DEF FilesShape, LastFile
<1>12. Core(g, xfer, u, v, qR2, toS', h)
  <2>1. Alive(t.pc) /\ h = BreakAt(g) /\ v.idle = t.idle
    BY <1>4, <1>5, <1>8, <1>10 DEF Alive, Done
  <2>2. v \in Receivers /\ v.pc = "ok" /\ v.sess = t.sess /\ v.files = t.files
    BY <1>8
  <2>3. toS' = toS \/ toS' = toS \o <<y>>
    BY <1>9
  <2> QED
    BY <1>3, <1>6, <1>7, <1>11, <2>1, <2>2, <2>3, ReceiverBreaks
<1>13. h \in Nat
  BY <1>3, CoreFacts
<1>14. Holds(g, xfer, u, v, qR2, toS')
  BY <1>12, <1>13 DEF Holds
<1> QED
  BY <1>8, <1>9, <1>14

\* The expected packet, whatever it is.
LEMMA ExpectedKeeps ==
  ASSUME NEW g, NEW u, NEW t, NEW tb, NEW qR, NEW qR2, NEW h, NEW p,
         Taking(g, xfer, u, t, tb, qR, qR2, toS, h, p), Resumes(g, xfer, t.sess), ~Refused(tb, p),
         \/ p.k = "F" /\ TakeFile(tb, p)
         \/ p.k = "A" /\ TakeAttributes(tb, p)
         \/ p.k = "D" /\ TakeData(tb, p)
         \/ p.k = "Z" /\ TakeEof(tb, p)
         \/ p.k = "B" /\ TakeBreak(tb, p)
  PROVE  Holds(g, xfer, u, r', qR2, toS') /\ r'.sess = t.sess
<1>1. CASE p.k = "F" /\ TakeFile(tb, p)
  BY <1>1, TakeFileKeeps
<1>2. CASE p.k = "A" /\ TakeAttributes(tb, p)
  BY <1>2, TakeAttributesKeeps
<1>3. CASE p.k = "D" /\ TakeData(tb, p)
  BY <1>3, TakeDataKeeps
<1>4. CASE p.k = "Z" /\ TakeEof(tb, p)
  BY <1>4, TakeEofKeeps
<1>5. CASE p.k = "B" /\ TakeBreak(tb, p)
  BY <1>5, TakeBreakKeeps
<1> QED
  BY <1>1, <1>2, <1>3, <1>4, <1>5

(* What a packet does to the files received: it opens one when the last was   *)
(* handed over, adds to the last one, or hands it over as it stands.         *)

FilesGrow(F, F2) ==
  \E e \in FileRecords :
    \/ F2 = Append(F, e) /\ ~e.kept /\ e.good = 0 /\ (F # <<>> => F[Len(F)].kept)
    \/ /\ F # <<>> /\ F2 = [F EXCEPT ![Len(F)] = e] /\ ~F[Len(F)].kept
       /\ F[Len(F)].good <= e.good /\ (e.kept => e.good = F[Len(F)].good)

Grows(t, t2) ==
  \/ t2.files = t.files
  \/ {t.pc, t2.pc} \subseteq {"run", "drain"} /\ FilesGrow(t.files, t2.files)

\* The expected packet makes the files grow.
LEMMA ExpectedGrows ==
  ASSUME NEW g, NEW u, NEW t, NEW tb, NEW qR, NEW qR2, NEW h, NEW p,
         Taking(g, xfer, u, t, tb, qR, qR2, toS, h, p), ~Refused(tb, p),
         \/ p.k = "F" /\ TakeFile(tb, p)
         \/ p.k = "A" /\ TakeAttributes(tb, p)
         \/ p.k = "D" /\ TakeData(tb, p)
         \/ p.k = "Z" /\ TakeEof(tb, p)
         \/ p.k = "B" /\ TakeBreak(tb, p)
  PROVE  Grows(t, r')
<1> DEFINE n == Len(t.files)
           F == t.files
           c == F[n]
<1>1. /\ g \in Plans /\ t \in Receivers /\ tb \in Receivers /\ t.pc \in {"run", "drain"}
      /\ FilesShape(g, t) /\ GoodPacket(g, p) /\ At(g, p) = Exp(g, t) /\ Exp(g, t) \in Nat
      /\ F \in Seq(FileRecords)
      /\ F # <<>> => LastFile(t) \in FileRecords /\ n >= 1 /\ FileShape(g, n, LastFile(t), TRUE)
  BY TakingFacts
<1>0. n \in Nat
  BY <1>1
<1>2. /\ p.k = "F" => (n > 0 => c.kept)
      /\ p.k \in {"A", "D", "Z"} => n > 0 /\ F # <<>> /\ ~c.kept
      /\ p.k = "A" => g.att = 1 /\ c.decl = None
  <2>1. LastFile(t) = c
    BY DEF LastFile
  <2>2. /\ p.k = "F" => (n > 0 => LastFile(t).kept)
        /\ p.k \in {"A", "D", "Z"} => n > 0 /\ ~LastFile(t).kept
        /\ p.k = "A" => g.att = 1 /\ LastFile(t).decl = None
    BY <1>1, ExpectedIs
  <2> QED
    BY <1>0, <1>1, <2>1, <2>2
<1>3. tb.files = F /\ tb.pc = t.pc /\ tb.sess = t.sess /\ LastFile(tb) = c
  BY DEF Taking, SameButBuf, LastFile
<1>4. F # <<>> => c \in FileRecords /\ c.len \in Nat /\ c.good \in Nat /\ n \in DOMAIN F
  <2>1. F # <<>> => c \in FileRecords /\ n \in DOMAIN F
    BY <1>0, <1>1 DEF LastFile
  <2> QED
    BY <2>1 DEF FileRecords
<1>5. ASSUME NEW v, v \in Receivers, r' = Advance(v), FilesGrow(F, v.files)
      PROVE  Grows(t, r')
  <2>1. Advance(v).files = v.files /\ Advance(v).pc \in {"run", "drain"}
    BY <1>5, AdvanceIs
  <2> QED
    BY <1>1, <1>5, <2>1 DEF Grows
<1>6. CASE p.k = "F" /\ TakeFile(tb, p)
  <2> DEFINE e == [f |-> p.f, len |-> 0, good |-> 0, decl |-> None, kept |-> FALSE]
             o == ResumeOffset(tb, p.f)
             v == [tb EXCEPT !.pend = o, !.files = Append(tb.files, e)]
  <2>1. e \in FileRecords /\ e.good = 0 /\ ~e.kept
    <3>1. p.f \in Nat
      <4>1. p.f \in 1..g.files /\ g.files \in Nat
        BY <1>1, <1>6, PlanFacts DEF GoodPacket, Sendable
      <4> QED
        BY <4>1
    <3> QED
      BY <3>1 DEF FileRecords
  <2>2. o \in Nat
    <3>1. xfer \in Transfers
      BY DEF Taking, Core, Sessions
    <3> QED
      BY <3>1, TransferFacts DEF ResumeOffset
  <2>3. Append(F, e) \in Seq(FileRecords)
    BY <1>1, <2>1
  <2>4. r' = Advance(v)
    BY <1>6 DEF TakeFile, Advanced, Answer
  <2> HIDE DEF e, o
  <2>5. v \in Receivers /\ v.files = Append(F, e)
    BY <1>1, <1>3, <2>2, <2>3 DEF Receivers
  <2>6. FilesGrow(F, v.files)
    <3>1. F # <<>> => c.kept
      BY <1>0, <1>1, <1>2, <1>6
    <3> QED
      BY <2>1, <2>5, <3>1 DEF FilesGrow
  <2> HIDE DEF v
  <2> QED
    BY <1>5, <2>4, <2>5, <2>6
<1>7. ASSUME NEW e \in FileRecords, NEW v, v \in Receivers, F # <<>>, ~c.kept,
             v.files = [F EXCEPT ![n] = e], r' = Advance(v),
             c.good <= e.good, e.kept => e.good = c.good
      PROVE  Grows(t, r')
  <2>1. FilesGrow(F, v.files)
    BY <1>7 DEF FilesGrow
  <2> QED
    BY <1>5, <1>7, <2>1
<1>8. CASE p.k = "A" /\ TakeAttributes(tb, p)
  <2> DEFINE off == IF tb.pend <= p.pos THEN tb.pend ELSE 0
             ack == Packet("Y", p.seq, tb.sess.chk, 0, off, Classic)
             e == [c EXCEPT !.decl = p.pos, !.len = off, !.good = off]
             fs == [F EXCEPT ![n] = e]
             rp == IF off > 0 THEN ack ELSE tb.replay
             v == [tb EXCEPT !.pend = 0, !.files = fs, !.replay = rp]
             w == [tb EXCEPT !.pend = 0, !.files[Len(tb.files)].decl = p.pos,
                             !.files[Len(tb.files)].len = off, !.files[Len(tb.files)].good = off,
                             !.replay = IF off > 0 THEN ack ELSE @]
  <2>1. F # <<>> /\ ~c.kept /\ c.good = 0
    <3>1. F # <<>> /\ ~c.kept /\ g.att = 1 /\ c.decl = None
      BY <1>2, <1>8
    <3>2. FileShape(g, n, c, TRUE)
      BY <1>1, <3>1 DEF LastFile
    <3> QED
      BY <3>1, <3>2 DEF FileShape
  <2>2. off \in Nat /\ p.pos \in Nat
    <3>1. tb.pend \in Nat
      BY <1>1, ReceiverFields
    <3>2. p.pos \in Nat
      BY <1>1, <1>8, PlanFacts DEF GoodPacket, Sendable
    <3> QED
      BY <3>1, <3>2
  <2>3. r' = Advance(w)
    BY <1>8 DEF TakeAttributes, Answer
  <2>4. rp \in PacketsOf({"Y"})
    <3>1. tb.replay \in PacketsOf({"Y"}) /\ tb.sess \in Caps /\ tb.exp \in 0..Numbers - 1
      BY <1>1, ReceiverFields
    <3>2. p.seq \in Int /\ tb.sess.chk \in 1..3
      <4>1. p.seq = tb.exp
        BY DEF Taking, SameButBuf
      <4> QED
        BY <3>1, <4>1, CapsFacts
    <3>3. Classic \in Caps
      BY DEF Classic, Caps
    <3> HIDE DEF off
    <3>4. ack \in PacketsOf({"Y"})
      BY <2>2, <3>2, <3>3 DEF Packet, PacketsOf
    <3> QED
      BY <3>1, <3>4
  <2> HIDE DEF off, ack, rp
  <2>5. e \in FileRecords /\ e.good = off /\ e.kept = c.kept
    BY <1>4, <2>1, <2>2 DEF FileRecords
  <2>6. w = v
    <3>1. [[[F EXCEPT ![n].decl = p.pos] EXCEPT ![n].len = off] EXCEPT ![n].good = off] = fs
      BY <1>1, <1>4, <2>1
    <3> QED
      BY <1>1, <1>3, <3>1 DEF Receivers, rp
  <2> HIDE DEF e, w
  <2>7. fs \in Seq(FileRecords)
    BY <1>1, <1>4, <2>1, <2>5
  <2> HIDE DEF fs
  <2>8. v \in Receivers /\ v.files = fs
    BY <1>1, <2>4, <2>7 DEF Receivers
  <2> HIDE DEF v
  <2>9. v.files = [F EXCEPT ![n] = e]
    BY <2>8 DEF fs
  <2>10. c.good <= e.good /\ (e.kept => e.good = c.good)
    BY <2>1, <2>2, <2>5
  <2> QED
    BY <1>7, <2>1, <2>3, <2>5, <2>6, <2>8, <2>9, <2>10
<1>9. CASE p.k = "D" /\ TakeData(tb, p)
  <2> DEFINE next == c.good = c.len /\ p.f = c.f /\ p.pos = c.len + 1
             e == [c EXCEPT !.len = c.len + 1, !.good = IF next THEN c.good + 1 ELSE c.good]
             fs == [F EXCEPT ![n] = e]
             v == [tb EXCEPT !.files = fs]
             w == [tb EXCEPT !.files[Len(tb.files)].len = @ + 1,
                             !.files[Len(tb.files)].good = IF next THEN @ + 1 ELSE @]
  <2>1. F # <<>> /\ ~c.kept
    BY <1>2, <1>9
  <2>2. r' = Advance(w)
    <3>1. TakeData(tb, p) => r' = Advance(w)
      BY <1>3 DEF TakeData, Advanced, Answer
    <3> QED
      BY <1>9, <3>1
  <2> HIDE DEF next
  <2>3. e \in FileRecords /\ e.kept = c.kept /\ c.good <= e.good
    <3> DEFINE l == c.len + 1
               q == IF next THEN c.good + 1 ELSE c.good
    <3>1. e = [c EXCEPT !.len = l, !.good = q] /\ l \in Nat /\ q \in Nat /\ c.good <= q
      BY <1>4, <2>1
    <3> HIDE DEF l, q, e
    <3>2. e \in FileRecords /\ e.good = q
      BY <1>4, <2>1, <3>1 DEF FileRecords
    <3>3. e.kept = c.kept
      BY <1>4, <2>1, <3>1 DEF FileRecords
    <3> QED
      BY <3>1, <3>2, <3>3
  <2>4. w = v
    <3>1. [[F EXCEPT ![n].len = @ + 1] EXCEPT ![n].good = IF next THEN @ + 1 ELSE @] = fs
      BY <1>1, <1>4, <2>1 DEF FileRecords
    <3>2. tb.files = F /\ F[n] = c /\ n \in DOMAIN F /\ c.good = F[n].good
      BY <1>3, <1>4, <2>1
    <3> QED
      BY <1>1, <3>1, <3>2, ZenonT(60) DEF Receivers
  <2> HIDE DEF e, w
  <2>5. fs \in Seq(FileRecords)
    BY <1>1, <1>4, <2>1, <2>3
  <2> HIDE DEF fs
  <2>6. v \in Receivers /\ v.files = fs
    BY <1>1, <2>5 DEF Receivers
  <2> HIDE DEF v
  <2>7. v.files = [F EXCEPT ![n] = e]
    BY <2>6 DEF fs
  <2> QED
    BY <1>7, <2>1, <2>2, <2>3, <2>4, <2>6, <2>7
<1>10. CASE p.k = "Z" /\ TakeEof(tb, p)
  <2> DEFINE e == [c EXCEPT !.kept = TRUE]
             fs == [F EXCEPT ![n] = e]
             v == [tb EXCEPT !.files = fs]
             w == [tb EXCEPT !.files[Len(tb.files)].kept = TRUE]
  <2>1. F # <<>> /\ ~c.kept
    BY <1>2, <1>10
  <2>2. r' = Advance(w)
    BY <1>10 DEF TakeEof, Advanced, Answer
  <2>3. e \in FileRecords /\ e.good = c.good
    BY <1>4, <2>1 DEF FileRecords
  <2>4. w = v
    BY <1>1, <1>3, <1>4, <2>1 DEF Receivers
  <2> HIDE DEF e, w
  <2>5. fs \in Seq(FileRecords)
    BY <1>1, <1>4, <2>1, <2>3
  <2> HIDE DEF fs
  <2>6. v \in Receivers /\ v.files = fs
    BY <1>1, <2>5 DEF Receivers
  <2> HIDE DEF v
  <2>7. v.files = [F EXCEPT ![n] = e]
    BY <2>6 DEF fs
  <2>8. c.good <= e.good
    BY <1>4, <2>1, <2>3
  <2> QED
    BY <1>7, <2>1, <2>2, <2>3, <2>4, <2>6, <2>7, <2>8
<1>11. CASE p.k = "B" /\ TakeBreak(tb, p)
  <2>1. r'.files = F
    BY <1>1, <1>3, <1>11 DEF TakeBreak, Answer, Receivers
  <2> QED
    BY <2>1 DEF Grows
<1> QED
  BY <1>6, <1>8, <1>9, <1>10, <1>11

\* One packet through the loop, read from the line or put aside before.
LEMMA HandleKeeps ==
  ASSUME NEW g, PlanFor(g, xfer), NEW u, NEW h, NEW qR2, NEW p, NEW B,
         Core(g, xfer, u, r, toR, toS, h), Resumes(g, xfer, r.sess),
         \/ r.pc = "run" /\ toR # <<>> /\ p = Head(toR) /\ p.k \in StopAndWait \cup {"E"}
              /\ qR2 = Tail(toR) /\ B = r.buf
         \/ r.pc = "drain" /\ p \in r.buf /\ qR2 = toR /\ B = r.buf \ {p} /\ p.seq = r.exp,
         NEW tb, tb = Refreshed([r EXCEPT !.buf = B]), Handle(tb, p)
  PROVE  Holds(g, xfer, u, r', qR2, toS') /\ r'.sess = r.sess /\ Grows(r, r')
<1> DEFINE t == Refreshed(r)
<1>1. /\ r \in Receivers /\ toR \in Seq(ToR) /\ h \in Nat /\ r.pc \in {"run", "drain"} /\ Alive(r.pc)
      /\ B \subseteq r.buf
  BY DEF Core, Types, Alive, Done
<1>2. /\ Core(g, xfer, u, t, toR, toS, h) /\ t \in Receivers /\ Alike(r, t) /\ t.idle = r.idle
      /\ t.replay.seq # None /\ t.replay.pos # 0 => Exp(g, r) <= 2 + r.sess.window
  BY <1>1, RefreshedKeeps
<1>3. /\ t.pc = r.pc /\ t.exp = r.exp /\ t.sess = r.sess /\ t.buf = r.buf /\ Exp(g, t) = Exp(g, r)
  BY <1>2, AlikeFacts DEF Alike
<1>4. tb = [t EXCEPT !.buf = B]
  <2>1. r.replay.seq = r.replay.seq /\ r.sess = r.sess
    OBVIOUS
  <2> QED
    BY <1>1 DEF Receivers, Refreshed
<1> HIDE DEF t
<1>5. SameButBuf(t, tb) /\ tb.buf = B /\ tb.idle = t.idle
  <2>1. B \in SUBSET PacketsOf({"D"})
    BY <1>1, ReceiverFields
  <2>2. tb \in Receivers /\ tb.buf = B
    BY <1>2, <1>4, <2>1 DEF Receivers
  <2>3. /\ tb.pc = t.pc /\ tb.exp = t.exp /\ tb.sess = t.sess /\ tb.replay = t.replay
        /\ tb.pend = t.pend /\ tb.files = t.files /\ tb.idle = t.idle
    BY <1>2, <1>4 DEF Receivers
  <2> QED
    BY <2>2, <2>3 DEF SameButBuf
<1>6. tb.exp = r.exp
  BY <1>3, <1>5 DEF SameButBuf
<1>7. qR2 \in Seq(ToR) /\ Shift(toR, qR2, StopAndWait)
  <2>1. CASE toR # <<>> /\ qR2 = Tail(toR)
    BY <1>1, <2>1, TailFacts, TailShift
  <2>2. CASE qR2 = toR
    BY <1>1, <2>2, SameShift
  <2> QED
    BY <2>1, <2>2
<1>8. CASE ReceiverFails(<<>>) \/ Abort
  <2>1. Core(g, xfer, u, r', qR2, toS', h) /\ r'.sess = r.sess
    BY <1>1, <1>7, <1>8, ReceiverFailsKeeps
  <2>2. r'.files = r.files
    BY <1>1, <1>8 DEF ReceiverFails, Abort, Answer, Receivers
  <2> QED
    BY <1>1, <2>1, <2>2 DEF Holds, Grows
<1>9. CASE p.k # "E" /\ p.seq # tb.exp /\ OutOfOrder(tb, p)
  <2>1. r.pc = "run" /\ toR # <<>> /\ p = Head(toR) /\ p.k \in StopAndWait /\ qR2 = Tail(toR) /\ B = r.buf
    BY <1>6, <1>9
  <2>2. tb = t
    BY <1>2, <1>3, <1>4, <2>1 DEF Receivers
  <2>3. OutOfOrder(Refreshed(r), p) /\ p.seq # r.exp
    BY <1>6, <1>9, <2>2 DEF t
  <2>4. Core(g, xfer, u, r', Tail(toR), toS', h) /\ r'.sess = r.sess
    BY <2>1, <2>3, OutOfOrderKeeps
  <2>5. r'.files = r.files
    <3>1. r'.files = r.files \/ r'.files = tb.files
      <4>1. CASE Abort
        BY <1>1, <4>1 DEF Abort, ReceiverFails, Answer, Receivers
      <4>2. CASE r'.files = tb.files
        BY <4>2
      <4>3. tb \in Receivers
        BY <1>5 DEF SameButBuf
      <4> QED
        BY <1>9, <4>1, <4>2, <4>3 DEF OutOfOrder, Answer, Receivers
    <3>2. tb.files = r.files
      BY <1>2, <1>5 DEF SameButBuf, Alike
    <3> QED
      BY <3>1, <3>2
  <2> QED
    BY <1>1, <2>1, <2>4, <2>5 DEF Holds, Grows
<1>10. CASE /\ p.seq = tb.exp /\ ~Refused(tb, p)
            /\ \/ p.k = "F" /\ TakeFile(tb, p)
               \/ p.k = "A" /\ TakeAttributes(tb, p)
               \/ p.k = "D" /\ TakeData(tb, p)
               \/ p.k = "Z" /\ TakeEof(tb, p)
               \/ p.k = "B" /\ TakeBreak(tb, p)
  <2>1. Takes(t, tb.buf, toR, qR2, p)
    <3>1. p.k \in {"F", "A", "D", "Z", "B"}
      BY <1>10
    <3>2. p.k \in StopAndWait
      BY <3>1 DEF StopAndWait
    <3> QED
      BY <1>3, <1>5, <3>2 DEF Takes
  <2>2. Taking(g, xfer, u, t, tb, toR, qR2, toS, h, p)
    BY <1>2, <1>3, <1>5, <1>6, <1>10, <2>1 DEF Taking
  <2>3. Resumes(g, xfer, t.sess)
    BY <1>3
  <2>4. Holds(g, xfer, u, r', qR2, toS') /\ r'.sess = t.sess
    BY <1>10, <2>2, <2>3, ExpectedKeeps
  <2>5. Grows(t, r')
    BY <1>10, <2>2, ExpectedGrows
  <2>6. Grows(r, r')
    BY <1>2, <2>5 DEF Grows, Alike
  <2> QED
    BY <1>3, <2>4, <2>6
<1> QED
  BY <1>8, <1>9, <1>10 DEF Handle

(* Send-Init.  Before it nothing is received, every packet on the line is the *)
(* S, and the plan does not depend on what the receiver will agree to.        *)

LEMMA BeforeInit ==
  ASSUME NEW g, NEW x, PlanFor(g, x), NEW u, NEW t, NEW qR, NEW qS, NEW h,
         Core(g, x, u, t, qR, qS, h), t.pc = "init"
  PROVE  /\ h = 0 /\ Exp(g, t) = 0 /\ t.files = <<>> /\ t.buf = {} /\ t.idle = 0
         /\ t.sess = Classic /\ u.sess = Classic /\ t.sess.window = 1
         /\ \A j \in DOMAIN qR : Carries(qR[j]) => At(g, qR[j]) = 0 /\ GoodPacket(g, qR[j])
         /\ \A m \in Nat : ~Rcvd(g, t, m)
<1>1. /\ ReceiverShape(g, t, h) /\ PacketsSound(g, t, h, qR) /\ FilesShape(g, t)
      /\ t.sess = Classic /\ u.sess = Classic /\ t.idle = 0
  BY DEF Core, Alive, Done, Sessions
<1>2. Exp(g, t) = 0 /\ t.files = <<>> /\ t.buf = {} /\ t.sess.window = 1
  BY <1>1 DEF Exp, ReceiverShape, FilesShape, Classic
<1>3. h = 0
  <2>1. h \in Exp(g, t) .. Exp(g, t) + t.sess.window /\ ~(h > Exp(g, t))
    BY <1>1 DEF ReceiverShape
  <2> QED
    BY <1>2, <2>1
<1>4. ASSUME NEW j \in DOMAIN qR, Carries(qR[j])
      PROVE  At(g, qR[j]) = 0 /\ GoodPacket(g, qR[j])
  <2>1. GoodPacket(g, qR[j]) /\ At(g, qR[j]) < h + t.sess.window
    BY <1>1, <1>4 DEF PacketsSound, PacketSound
  <2>2. At(g, qR[j]) \in Nat
    BY <2>1, PlaceBounds DEF GoodPacket, At, PlanFor
  <2> QED
    BY <1>2, <1>3, <2>1, <2>2
<1>5. \A m \in Nat : ~Rcvd(g, t, m)
  BY <1>2 DEF Rcvd, BufAt
<1> QED
  BY <1>1, <1>2, <1>3, <1>4, <1>5

\* What the receiver agrees to is within what the sender offered.
LEMMA AgreedSession ==
  ASSUME NEW x \in Transfers, ~(x.ours.stream /\ x.theirs.stream), NEW c, c \in {x.ours, Classic},
         NEW e, e = intersect_capabilities(x.theirs, c)
  PROVE  /\ e \in Caps /\ ~e.stream /\ e.window >= 1 /\ e.window \in Nat /\ 2 * e.window < Numbers
<1>1. x.ours \in Caps /\ x.theirs \in Caps /\ 2 * x.ours.window < Numbers /\ Numbers > 2 /\ Classic \in Caps
  BY TransferFacts
<1>2. c \in Caps
  BY <1>1
<1>3. /\ c.window \in Nat /\ c.window >= 1 /\ c.chk \in 1..3 /\ c.attrs \in BOOLEAN
      /\ c.stream \in BOOLEAN /\ c.resend \in BOOLEAN
  BY <1>2, CapsFacts
<1>4. /\ x.theirs.window \in Nat /\ x.theirs.window >= 1 /\ x.theirs.chk \in 1..3
      /\ x.theirs.attrs \in BOOLEAN /\ x.theirs.stream \in BOOLEAN /\ x.theirs.resend \in BOOLEAN
  BY <1>1, CapsFacts
<1>5. 2 * c.window < Numbers
  <2>1. Classic.window = 1
    BY DEF Classic
  <2> QED
    BY <1>1, <2>1, NumbersType
<1>6. ~(x.theirs.stream /\ c.stream)
  BY DEF Classic
<1>7. /\ Lower(x.theirs.window, c.window) \in Nat /\ Lower(x.theirs.window, c.window) >= 1
      /\ Lower(x.theirs.window, c.window) <= c.window
  BY <1>3, <1>4 DEF Lower
<1>8. Lower(x.theirs.chk, c.chk) \in 1..3
  BY <1>3, <1>4 DEF Lower
<1>9. /\ e.window = Lower(x.theirs.window, c.window) /\ e.chk = Lower(x.theirs.chk, c.chk)
      /\ e.stream = (x.theirs.stream /\ c.stream)
  BY DEF intersect_capabilities
<1>10. e \in Caps
  BY <1>3, <1>4, <1>7, <1>8 DEF intersect_capabilities, Caps
<1>11. 2 * e.window < Numbers
  <2> DEFINE a == e.window
             b == c.window
  <2>1. a \in Nat /\ b \in Nat /\ a <= b /\ 2 * b < Numbers
    BY <1>3, <1>5, <1>7, <1>9
  <2> HIDE DEF a, b
  <2>2. 2 * a < Numbers
    BY <2>1, NumbersType
  <2> QED
    BY <2>2 DEF a
<1> QED
  BY <1>6, <1>7, <1>9, <1>10, <1>11

LEMMA InitTaken ==
  ASSUME NEW g, NEW x, PlanFor(g, x), NEW u, NEW t, NEW t2, NEW qR, NEW qS, NEW h, NEW y,
         Core(g, x, u, t, qR, qS, h), g.att = 0, t.pc = "init", qR # <<>>,
         NEW p, p = Head(qR), p.k = "S",
         t2 \in Receivers, t2.pc = "run", t2.exp = Succ(p.seq), t2.replay = y, t2.files = t.files,
         t2.sess = intersect_capabilities(x.theirs, p.caps), t2.idle = t.idle, t2.buf = t.buf,
         y \in ToS, y.k = "Y", y.seq = p.seq, y.pos = 0, y.caps = t2.sess
  PROVE  Core(g, x, u, t2, Tail(qR), qS, 1) /\ Core(g, x, u, t2, Tail(qR), qS \o <<y>>, 1)
<1> DEFINE q == Tail(qR)
           w == t2.sess.window
           c == p.caps
<1>1. /\ h = 0 /\ Exp(g, t) = 0 /\ t.files = <<>> /\ t.buf = {} /\ t.idle = 0
      /\ t.sess = Classic /\ u.sess = Classic /\ t.sess.window = 1
      /\ \A j \in DOMAIN qR : Carries(qR[j]) => At(g, qR[j]) = 0 /\ GoodPacket(g, qR[j])
      /\ \A m \in Nat : ~Rcvd(g, t, m)
  BY BeforeInit
<1>2. /\ g \in Plans /\ u \in Senders(x) /\ qR \in Seq(ToR) /\ qS \in Seq(ToS)
      /\ Sessions(x, u, t, qR) /\ x \in Transfers /\ ~(x.ours.stream /\ x.theirs.stream)
  BY DEF Core, Types, Sessions, PlanFor
<1>3. /\ q \in Seq(ToR) /\ p = qR[1] /\ 1 \in DOMAIN qR
      /\ \A j \in DOMAIN q : q[j] = qR[j + 1] /\ j + 1 \in DOMAIN qR
  BY <1>2, TailFacts
<1>4. c \in {x.ours, Classic} /\ Carries(p)
  BY <1>2, <1>3 DEF Sessions, Carries, StopAndWait
<1>5. t2.sess \in Caps /\ ~t2.sess.stream /\ w >= 1 /\ w \in Nat /\ 2 * w < Numbers
  BY <1>2, <1>4, AgreedSession
<1>6. p.seq = 0 % Numbers /\ p.seq = 0 /\ t2.exp = 1 % Numbers
  <2>1. p.seq = 0 % Numbers
    BY <1>1, <1>3, <1>4 DEF GoodPacket
  <2>2. 0 % Numbers = 0
    BY NumbersType
  <2> QED
    BY <2>1, <2>2 DEF Succ
<1> HIDE DEF q, w, c
<1>7. Exp(g, t2) = 1 /\ BufAt(g, t2) = {}
  BY <1>1 DEF Exp, BufAt
<1>8. \A j \in DOMAIN q : Carries(q[j]) => At(g, q[j]) = 0 /\ GoodPacket(g, q[j])
  BY <1>1, <1>3
<1>9. Types(x, u, t2, q, qS)
  <2>1. 0 <= NoProgress * w
    <3>1. NoProgress \in Nat
      BY KermitAssumption
    <3> QED
      BY <1>5, <3>1
  <2>2. Len(t2.files) <= MaxBatchFiles
    <3>1. MaxBatchFiles \in Nat
      BY KermitAssumption
    <3> QED
      BY <1>1, <3>1
  <2> QED
    BY <1>1, <1>2, <1>3, <2>1, <2>2 DEF Types, w
<1>10. Sessions(x, u, t2, q)
  <2>1. u.sess.window = 1 /\ ~u.sess.attrs /\ ~u.sess.stream
    BY <1>1 DEF Classic
  <2>2. u.sess.window <= t2.sess.window /\ 2 * t2.sess.window < Numbers
    BY <1>5, <2>1 DEF w
  <2>3. \A j \in DOMAIN q : q[j].k = "S" => q[j].caps \in {x.ours, Classic}
    BY <1>2, <1>3 DEF Sessions
  <2>4. t2.replay.caps = t2.sess /\ t2.replay.seq = 0 /\ t2.files = <<>> /\ t2.pc # "init"
    BY <1>1, <1>6
  <2> QED
    BY <1>1, <1>2, <1>5, <2>1, <2>2, <2>3, <2>4 DEF Sessions
<1>11. FilesShape(g, t2)
  <2>1. Len(t2.files) <= g.files /\ DOMAIN t2.files = {}
    BY <1>1, <1>2, PlanFacts, SMTT(30)
  <2> QED
    BY <2>1 DEF FilesShape
<1>12. ReceiverShape(g, t2, 1)
  <2>1. Pending(g, t2) /\ Replay(g, t2)
    BY DEF Pending, Replay
  <2>2. BufShape(g, t2, 1)
    <3>1. t2.buf = {} /\ \A m \in 1..0 : FALSE
      BY <1>1
    <3>2. 1 - 1 = 0
      OBVIOUS
    <3> QED
      BY <1>7, <3>1, <3>2 DEF BufShape
  <2>3. 1 \in 1..1 + t2.sess.window
    BY <1>5 DEF w
  <2> QED
    BY <1>6, <1>7, <2>1, <2>2, <2>3 DEF ReceiverShape
<1>13. PacketsSound(g, t2, 1, q)
  <2>1. 1 <= 0 + t2.sess.window /\ 0 < 1 + t2.sess.window /\ ~(0 > 1) /\ 0 < 0 + t2.sess.window
    BY <1>5 DEF w
  <2>2. t2.buf = {}
    BY <1>1
  <2>3. \A j \in DOMAIN q : \A i \in 1..j - 1 : i \in DOMAIN q
    BY <1>3, DomainFacts
  <2> QED
    BY <1>8, <2>1, <2>2, <2>3 DEF PacketsSound, PacketSound
<1>14. ASSUME Alive(u.pc)
       PROVE  Sent(g, u, t2, 1, q)
  <2>1. Sent(g, u, t, h, qR) /\ SendNext(g, u) \in Nat
    BY <1>14, CoreFacts DEF Core, Alive, Done
  <2>2. 0 < SendNext(g, u)
    BY <1>1, <1>3, <1>4, <2>1 DEF Sent
  <2>3. \A m \in 0 .. SendNext(g, u) - 1 : m \in Unacked(g, u)
    BY <1>1, <2>1 DEF Sent
  <2> QED
    BY <1>1, <1>8, <2>1, <2>2, <2>3 DEF Sent
<1>15. NewReplies(g, u, t2, 1, <<y>>)
  <2>1. 0 < BreakAt(g) /\ BreakAt(g) \in Nat
    <3>1. g.files + 1 \in Nat \ {0}
      <4>1. g.files \in Nat
        BY <1>2, PlanFacts
      <4> QED
        BY <4>1
    <3>2. First(g, g.files + 1) \in Nat /\ First(g, g.files + 1) >= 1
      BY <1>2, <3>1, FirstFacts
    <3> QED
      BY <3>2 DEF BreakAt
  <2>2. ReplyTells(g, u, t2, y, 0)
    BY <2>1 DEF ReplyTells
  <2>3. Rcvd(g, t2, 0)
    BY <1>7 DEF Rcvd
  <2>4. 1 <= 0 + t2.sess.window
    BY <1>5 DEF w
  <2> QED
    BY <1>6, <2>2, <2>3, <2>4 DEF NewReplies
<1>16. /\ Alive(t.pc) /\ Alive(t2.pc) /\ h <= 1 /\ Exp(g, t) <= Exp(g, t2)
       /\ t.sess.window <= t2.sess.window /\ \A n \in Nat : ~Rcvd(g, t, n)
  BY <1>1, <1>5, <1>7 DEF Alive, Done, w
<1>17. <<y>> \in Seq(ToS) /\ 1 \in Nat
  OBVIOUS
<1> QED
  BY <1>9, <1>10, <1>11, <1>12, <1>13, <1>14, <1>15, <1>16, <1>17, ReceiverSteps DEF q

\* The receiver's first packet.
LEMMA SendInitKeeps ==
  ASSUME xfer \in Transfers, NEW g, g = PlanNow(xfer, s, r), NEW h,
         Core(g, xfer, s, r, toR, toS, h), ReceiverSendInit
  PROVE  Holds(g, xfer, s, r', toR', toS') /\ PlanNow(xfer, s, r') = g /\ r'.files = r.files
<1>1. /\ s \in Senders(xfer) /\ r \in Receivers /\ toR \in Seq(ToR) /\ toS \in Seq(ToS) /\ h \in Nat
      /\ r.pc = "init" /\ toR' = Tail(toR) /\ Alive(r.pc)
  BY DEF Core, Types, ReceiverSendInit, ReceiverTook, Alive, Done
<1>2. PICK p \in Range(toR) :
        /\ ReceiverReads(p)
        /\ IF Readable(p, 1) /\ p.k = "S"
           THEN LET sess == intersect_capabilities(xfer.theirs, p.caps)
                    ack == Packet("Y", p.seq, 1, 0, 0, sess)
                IN Answer([r EXCEPT !.pc = "run", !.exp = Succ(p.seq), !.sess = sess, !.replay = ack],
                          <<ack>>)
           ELSE ReceiverFails(<<>>)
  BY DEF ReceiverSendInit
<1>3. toR # <<>> /\ p = Head(toR)
  BY <1>2 DEF ReceiverReads
<1>4. Tail(toR) \in Seq(ToR) /\ Shift(toR, Tail(toR), StopAndWait) /\ p \in ToR /\ p = toR[1] /\ 1 \in DOMAIN toR
  BY <1>1, <1>3, TailFacts, TailShift
<1>5. PlanFor(g, xfer) /\ (s.sess.attrs <=> g.att = 1)
  BY <1>1, PlanNowFits
<1>6. s.sess = Classic /\ g.att = 0
  <2>1. s.sess = Classic
    BY <1>1, <1>5, BeforeInit
  <2>2. ~s.sess.attrs
    BY <2>1 DEF Classic
  <2>3. g.att \in {0, 1}
    BY <1>5, PlanFacts DEF PlanFor
  <2> QED
    BY <1>5, <2>1, <2>2, <2>3
<1>7. PlanNow(xfer, s, r') = g
  <2>1. ~s.sess.attrs
    BY <1>6 DEF Classic
  <2> QED
    BY <2>1 DEF PlanNow, PlanOf
<1>8. CASE ReceiverFails(<<>>)
  <2>1. Core(g, xfer, s, r', Tail(toR), toS', h)
    BY <1>1, <1>4, <1>8, ReceiverFailsKeeps
  <2>2. r'.files = r.files
    BY <1>1, <1>8 DEF ReceiverFails, Answer, Receivers
  <2> QED
    BY <1>1, <1>7, <2>1, <2>2 DEF Holds
<1>9. CASE Readable(p, 1) /\ p.k = "S"
  <2> DEFINE e == intersect_capabilities(xfer.theirs, p.caps)
             y == Packet("Y", p.seq, 1, 0, 0, e)
             x == Succ(p.seq)
             t2 == [r EXCEPT !.pc = "run", !.exp = x, !.sess = e, !.replay = y]
  <2>1. p \in PacketsOf(StopAndWait \cup {"E"})
    BY <1>4, <1>9 DEF ToR, Strikes
  <2>2. p.seq \in Int /\ p.caps \in {xfer.ours, Classic}
    <3>1. p.seq \in Int
      BY <2>1, PacketFields
    <3>2. Sessions(xfer, s, r, toR)
      BY DEF Core
    <3> QED
      BY <1>4, <1>9, <3>1, <3>2 DEF Sessions
  <2>3. e \in Caps
    <3>1. ~(xfer.ours.stream /\ xfer.theirs.stream)
      BY DEF Core, Sessions
    <3> QED
      BY <2>2, <3>1, AgreedSession
  <2>4. r' = t2 /\ toS' = WriteToS(<<y>>)
    BY <1>2, <1>9 DEF Answer
  <2> HIDE DEF e
  <2>5. /\ y \in PacketsOf({"Y"}) /\ y.k = "Y" /\ y.seq = p.seq /\ y.pos = 0 /\ y.caps = e
    BY <2>2, <2>3 DEF Packet, PacketsOf
  <2>6. y \in ToS
    <3>1. y \in PacketsOf({"Y", "N", "E"})
      BY <2>2, <2>3 DEF Packet, PacketsOf
    <3> QED
      BY <3>1 DEF ToS
  <2>7. x \in 0..Numbers - 1
    <3>1. p.seq + 1 \in Int
      BY <2>2
    <3> QED
      BY <3>1, DivMod DEF Succ
  <2> HIDE DEF x, y
  <2>8. t2 \in Receivers /\ t2.pc = "run" /\ t2.exp = x /\ t2.sess = e /\ t2.replay = y
    BY <1>1, <2>3, <2>5, <2>7 DEF Receivers
  <2>9. t2.files = r.files /\ t2.idle = r.idle /\ t2.buf = r.buf
    BY <1>1 DEF Receivers
  <2> HIDE DEF t2
  <2>10. t2.exp = Succ(p.seq) /\ t2.sess = intersect_capabilities(xfer.theirs, p.caps) /\ y.caps = t2.sess
    BY <2>5, <2>8 DEF x, e
  <2>11. Core(g, xfer, s, t2, Tail(toR), toS, 1) /\ Core(g, xfer, s, t2, Tail(toR), toS \o <<y>>, 1)
    BY <1>1, <1>3, <1>5, <1>6, <1>9, <2>5, <2>6, <2>8, <2>9, <2>10, InitTaken
  <2>12. Core(g, xfer, s, r', toR', toS', 1) /\ 1 \in Nat
    BY <1>1, <2>4, <2>11, WriteToSIs
  <2>13. Holds(g, xfer, s, r', toR', toS')
    BY <2>12 DEF Holds
  <2> QED
    BY <1>7, <2>4, <2>9, <2>13
<1> QED
  BY <1>2, <1>8, <1>9

-----------------------------------------------------------------------------
(* Every step of the transfer.                                              *)

LEMMA PlanResumes ==
  ASSUME NEW x \in Transfers, NEW u \in Senders(x), NEW t \in Receivers, u.sess.attrs => t.sess.attrs
  PROVE  Resumes(PlanNow(x, u, t), x, t.sess)
<1>1. u.sess \in Caps
  BY SenderFields
<1>2. u.sess.attrs \in BOOLEAN
  BY <1>1, CapsFacts
<1>3. PlanNow(x, u, t).att = 1 => u.sess.attrs
  BY <1>2 DEF PlanNow, PlanOf
<1> QED
  BY <1>3 DEF PlanNow, PlanOf, Resumes

\* What a receiver's step does, all but Send-Init under the same plan.
ReceiverKept(g) ==
  /\ Holds(g, xfer, s, r', toR', toS') /\ PlanNow(xfer, s, r') = g
  /\ Grows(r, r')

LEMMA PacketKeeps ==
  ASSUME xfer \in Transfers, NEW g, g = PlanNow(xfer, s, r), NEW h,
         Core(g, xfer, s, r, toR, toS, h), ReceiverPacket
  PROVE  ReceiverKept(g)
<1>1. /\ s \in Senders(xfer) /\ r \in Receivers /\ toR \in Seq(ToR) /\ r.pc = "run"
      /\ toR' = Tail(toR) /\ (s.sess.attrs => r.sess.attrs)
  BY DEF Core, Types, Sessions, ReceiverPacket, ReceiverTook
<1>2. PICK p \in Range(toR) : ReceiverReads(p) /\ Readable(p, r.sess.chk) /\ Handle(Refreshed(r), p)
  BY DEF ReceiverPacket
<1>3. toR # <<>> /\ p = Head(toR) /\ p.k \notin {"ESC", "CAN"}
  BY <1>2 DEF ReceiverReads, Readable
<1>4. p.k \in StopAndWait \cup {"E"}
  <2>1. p \in ToR
    BY <1>1, <1>3, TailFacts
  <2>2. p \in PacketsOf(StopAndWait \cup {"E"})
    BY <1>3, <2>1 DEF ToR, Strikes
  <2> QED
    BY <2>2, PacketFields
<1>5. PlanFor(g, xfer) /\ Resumes(g, xfer, r.sess)
  BY <1>1, PlanNowFits, PlanResumes
<1>6. [r EXCEPT !.buf = r.buf] = r
  BY <1>1 DEF Receivers
<1>7. Handle(Refreshed([r EXCEPT !.buf = r.buf]), p)
  BY <1>2, <1>6
<1>8. PICK tb : tb = Refreshed([r EXCEPT !.buf = r.buf])
  OBVIOUS
<1>9. Handle(tb, p)
  BY <1>7, <1>8
<1>10. PICK B : B = r.buf
  OBVIOUS
<1>11. tb = Refreshed([r EXCEPT !.buf = B])
  BY <1>8, <1>10
<1>12. PICK qR2 : qR2 = Tail(toR)
  OBVIOUS
<1>13. Holds(g, xfer, s, r', qR2, toS') /\ r'.sess = r.sess /\ Grows(r, r')
  BY <1>1, <1>3, <1>4, <1>5, <1>9, <1>10, <1>11, <1>12, HandleKeeps
<1>14. PlanNow(xfer, s, r') = g
  BY <1>13 DEF PlanNow
<1> QED
  BY <1>1, <1>12, <1>13, <1>14 DEF ReceiverKept

LEMMA DrainKeeps ==
  ASSUME xfer \in Transfers, NEW g, g = PlanNow(xfer, s, r), NEW h,
         Core(g, xfer, s, r, toR, toS, h), ReceiverDrain
  PROVE  ReceiverKept(g)
<1>1. /\ s \in Senders(xfer) /\ r \in Receivers /\ r.pc = "drain" /\ toR' = toR
      /\ s.sess.attrs => r.sess.attrs
  BY DEF Core, Types, Sessions, ReceiverDrain
<1>2. PICK p \in r.buf : p.seq = r.exp /\ Handle(Refreshed([r EXCEPT !.buf = @ \ {p}]), p)
  BY DEF ReceiverDrain
<1>3. PlanFor(g, xfer) /\ Resumes(g, xfer, r.sess)
  BY <1>1, PlanNowFits, PlanResumes
<1>4. PICK B : B = r.buf \ {p}
  OBVIOUS
<1>5. Handle(Refreshed([r EXCEPT !.buf = B]), p)
  BY <1>2, <1>4
<1>6. PICK tb : tb = Refreshed([r EXCEPT !.buf = B])
  OBVIOUS
<1>7. Handle(tb, p)
  BY <1>5, <1>6
<1>8. Holds(g, xfer, s, r', toR, toS') /\ r'.sess = r.sess /\ Grows(r, r')
  BY <1>1, <1>2, <1>3, <1>4, <1>6, <1>7, HandleKeeps
<1>9. PlanNow(xfer, s, r') = g
  BY <1>8 DEF PlanNow
<1> QED
  BY <1>1, <1>8, <1>9 DEF ReceiverKept

\* The plan of a step that leaves the receiver's session and files alone.
LEMMA KeptPlainly ==
  ASSUME NEW g, g = PlanNow(xfer, s, r), NEW h \in Nat, Core(g, xfer, s, r', toR', toS', h),
         r'.sess = r.sess, r'.files = r.files
  PROVE  ReceiverKept(g)
  BY DEF ReceiverKept, Holds, PlanNow, Grows

LEMMA ReadErrorFiles ==
  ASSUME r \in Receivers, ReceiverFails(<<>>) \/ Abort \/ ReadError
  PROVE  r'.files = r.files
  BY DEF ReceiverFails, Abort, ReadError, Answer, Receivers

LEMMA ReceiverReadKeeps ==
  ASSUME xfer \in Transfers, NEW g, g = PlanNow(xfer, s, r), NEW h,
         Core(g, xfer, s, r, toR, toS, h), ReceiverRead
  PROVE  ReceiverKept(g)
<1>1. s \in Senders(xfer) /\ r \in Receivers /\ toR \in Seq(ToR) /\ h \in Nat
  BY DEF Core, Types
<1>2. PlanFor(g, xfer)
  BY <1>1, PlanNowFits
<1>3. CASE ReceiverSendInit
  <2>1. Holds(g, xfer, s, r', toR', toS') /\ PlanNow(xfer, s, r') = g /\ r'.files = r.files
    BY <1>3, SendInitKeeps
  <2> QED
    BY <2>1 DEF ReceiverKept, Grows
<1>4. ASSUME NEW p \in Range(toR), ReceiverReads(p)
      PROVE  Tail(toR) \in Seq(ToR) /\ Shift(toR, Tail(toR), StopAndWait)
  BY <1>1, <1>4, TailFacts, TailShift DEF ReceiverReads
<1>5. CASE ReceiverCancelled
  <2>1. r.pc = "run" /\ toR' = Tail(toR) /\ Alive(r.pc)
    BY <1>5 DEF ReceiverCancelled, ReceiverTook, Alive, Done
  <2>2. ReceiverFails(<<>>) \/ Abort
    BY <1>5 DEF ReceiverCancelled
  <2>3. Tail(toR) \in Seq(ToR) /\ Shift(toR, Tail(toR), StopAndWait)
    BY <1>4, <1>5 DEF ReceiverCancelled
  <2>4. Core(g, xfer, s, r', Tail(toR), toS', h) /\ r'.sess = r.sess
    BY <2>1, <2>2, <2>3, ReceiverFailsKeeps
  <2>5. r'.files = r.files
    BY <1>1, <2>2, ReadErrorFiles
  <2>6. Core(g, xfer, s, r', toR', toS', h)
    BY <2>1, <2>4
  <2> QED
    BY <1>1, <2>4, <2>5, <2>6, KeptPlainly
<1>6. CASE ReceiverUnreadable
  <2>1. r.pc = "run" /\ toR' = Tail(toR) /\ ReadError
    BY <1>6 DEF ReceiverUnreadable, ReceiverTook
  <2>2. Tail(toR) \in Seq(ToR) /\ Shift(toR, Tail(toR), StopAndWait)
    BY <1>4, <1>6 DEF ReceiverUnreadable
  <2>3. Core(g, xfer, s, r', Tail(toR), toS', h) /\ r'.sess = r.sess
    BY <1>2, <2>1, <2>2, ReadErrorKeeps
  <2>4. r'.files = r.files
    BY <1>1, <2>1, ReadErrorFiles
  <2>5. Core(g, xfer, s, r', toR', toS', h)
    BY <2>1, <2>3
  <2> QED
    BY <1>1, <2>3, <2>4, <2>5, KeptPlainly
<1>7. CASE ReceiverPacket
  BY <1>7, PacketKeeps
<1>8. CASE ReceiverDrain
  BY <1>8, DrainKeeps
<1> QED
  BY <1>3, <1>5, <1>6, <1>7, <1>8 DEF ReceiverRead

\* The faults of the line only take packets away, damage them or put a strike ahead.
LEMMA FaultKeeps ==
  ASSUME NEW g, NEW h, Core(g, xfer, s, r, toR, toS, h), LineFault
  PROVE  Core(g, xfer, s, r, toR', toS', h) /\ s' = s /\ r' = r
<1>1. toR \in Seq(ToR) /\ toS \in Seq(ToS)
  BY DEF Core, Types
<1>2. {"ESC", "CAN"} \cap StopAndWait = {} /\ {"ESC", "CAN"} \cap {"Y", "N"} = {}
  BY DEF StopAndWait
<1>3. ASSUME NEW k \in {"ESC", "CAN"}
      PROVE  <<[k |-> k, ok |-> TRUE]>> \in Seq(ToR) /\ <<[k |-> k, ok |-> TRUE]>> \in Seq(ToS)
  <2>1. [k |-> k, ok |-> TRUE] \in Strikes
    BY DEF Strikes
  <2>2. [k |-> k, ok |-> TRUE] \in ToR /\ [k |-> k, ok |-> TRUE] \in ToS
    BY <2>1 DEF ToR, ToS
  <2> QED
    BY <2>2
<1>4. CASE LoseToR
  <2>1. toR # <<>> /\ toR' = Tail(toR) /\ s' = s /\ r' = r /\ toS' = toS
    BY <1>4 DEF LoseToR
  <2>2. Tail(toR) \in Seq(ToR) /\ Shift(toR, Tail(toR), StopAndWait)
    BY <1>1, <2>1, TailFacts, TailShift
  <2> QED
    BY <2>1, <2>2, ShiftR
<1>5. CASE LoseToS
  <2>1. toS # <<>> /\ toS' = Tail(toS) /\ s' = s /\ r' = r /\ toR' = toR
    BY <1>5 DEF LoseToS
  <2>2. Tail(toS) \in Seq(ToS) /\ Shift(toS, Tail(toS), {"Y", "N"})
    BY <1>1, <2>1, TailFacts, TailShift
  <2> QED
    BY <2>1, <2>2, ShiftS
<1>6. CASE DamageToR
  <2>1. toR # <<>> /\ toR' = [toR EXCEPT ![1].ok = FALSE] /\ s' = s /\ r' = r /\ toS' = toS
    BY <1>6 DEF DamageToR
  <2>2. toR' \in Seq(ToR) /\ Shift(toR, toR', StopAndWait)
    BY <1>1, <1>2, <2>1, DamageShift DEF ToR
  <2> QED
    BY <2>1, <2>2, ShiftR
<1>7. CASE DamageToS
  <2>1. toS # <<>> /\ toS' = [toS EXCEPT ![1].ok = FALSE] /\ s' = s /\ r' = r /\ toR' = toR
    BY <1>7 DEF DamageToS
  <2>2. toS' \in Seq(ToS) /\ Shift(toS, toS', {"Y", "N"})
    BY <1>1, <1>2, <2>1, DamageShift DEF ToS
  <2> QED
    BY <2>1, <2>2, ShiftS
<1>8. CASE CancelS
  <2>1. s' = s /\ r' = r /\ toR' = toR
    BY <1>8 DEF CancelS
  <2>2. PICK k \in {"ESC", "CAN"} : toS' = <<[k |-> k, ok |-> TRUE]>> \o toS
    BY <1>8 DEF CancelS
  <2>3. k \notin {"Y", "N"}
    BY <2>2
  <2>4. toS' \in Seq(ToS) /\ Shift(toS, toS', {"Y", "N"})
    BY <1>1, <1>3, <2>2, <2>3, StrikeShift, ConcatFacts
  <2> QED
    BY <2>1, <2>4, ShiftS
<1>9. CASE CancelR
  <2>1. s' = s /\ r' = r /\ toS' = toS
    BY <1>9 DEF CancelR
  <2>2. PICK k \in {"ESC", "CAN"} : toR' = <<[k |-> k, ok |-> TRUE]>> \o toR
    BY <1>9 DEF CancelR
  <2>3. k \notin StopAndWait
    BY <2>2 DEF StopAndWait
  <2>4. toR' \in Seq(ToR) /\ Shift(toR, toR', StopAndWait)
    BY <1>1, <1>3, <2>2, <2>3, StrikeShift, ConcatFacts
  <2> QED
    BY <2>1, <2>4, ShiftR
<1>10. CASE HangUp
  BY <1>10 DEF HangUp
<1> QED
  BY <1>4, <1>5, <1>6, <1>7, <1>8, <1>9, <1>10 DEF LineFault

\* A half that finds the line down.
LEMMA LineDownKeeps ==
  ASSUME xfer \in Transfers, NEW g, PlanFor(g, xfer), NEW h, Core(g, xfer, s, r, toR, toS, h)
  PROVE  /\ SenderLineDown => Core(g, xfer, s', r, toR', toS, h) /\ s'.sess = s.sess
         /\ ReceiverLineDown => Core(g, xfer, s, r', toR, toS', h) /\ r'.sess = r.sess /\ r'.files = r.files
<1>1. s \in Senders(xfer) /\ r \in Receivers /\ toR \in Seq(ToR) /\ toS \in Seq(ToS)
  BY DEF Core, Types
<1>2. ASSUME SenderLineDown
      PROVE  Core(g, xfer, s', r, toR', toS, h) /\ s'.sess = s.sess
  BY <1>1, <1>2, FailsKeeps DEF SenderLineDown
<1>3. ASSUME ReceiverLineDown
      PROVE  Core(g, xfer, s, r', toR, toS', h) /\ r'.sess = r.sess /\ r'.files = r.files
  <2>1. Alive(r.pc) /\ ReceiverFails(<<>>)
    BY <1>3 DEF ReceiverLineDown, Alive, Done
  <2>2. Shift(toR, toR, StopAndWait)
    BY <1>1, SameShift
  <2> QED
    BY <1>1, <2>1, <2>2, ReceiverFailsKeeps, ReadErrorFiles
<1> QED
  BY <1>2, <1>3

\* What a step does to the two halves, as far as the promise of FileTransfer goes.
Steady ==
  /\ xfer' = xfer
  /\ s.pc \in Done => s'.pc = s.pc
  /\ r.pc \in Done => r'.pc = r.pc
  /\ r'.files = r.files \/ (s' = s /\ Grows(r, r'))

Goes == Holds(PlanNow(xfer, s, r)', xfer', s', r', toR', toS') /\ Steady

\* A step of the sender, or of both, that leaves the sessions and the files alone.
LEMMA GoesPlainly ==
  ASSUME NEW g, g = PlanNow(xfer, s, r), NEW h \in Nat, xfer' = xfer,
         Core(g, xfer, s', r', toR', toS', h), s'.sess = s.sess, r'.sess = r.sess,
         r'.files = r.files, s.pc \in Done => s'.pc = s.pc, r.pc \in Done => r'.pc = r.pc
  PROVE  Goes
<1>1. PlanNow(xfer, s, r)' = g
  BY DEF PlanNow
<1> QED
  BY <1>1 DEF Goes, Steady, Holds

LEMMA ReceiverGoes ==
  ASSUME NEW g, g = PlanNow(xfer, s, r), xfer' = xfer, s' = s, ReceiverKept(g),
         r.pc \notin Done
  PROVE  Goes
<1>1. PlanNow(xfer, s, r)' = PlanNow(xfer, s, r')
  BY DEF PlanNow
<1> QED
  BY <1>1 DEF Goes, Steady, ReceiverKept

LEMMA SilenceFiles ==
  ASSUME r \in Receivers, ReceiverSilence
  PROVE  r'.files = r.files /\ r.pc \notin Done
<1>1. r.pc \notin Done /\ (ReceiverFails(<<>>) \/ ReadError)
  BY DEF ReceiverSilence, Done
<1> QED
  BY <1>1, ReadErrorFiles

\* Every step keeps the invariant.
LEMMA NextKeeps ==
  ASSUME KInv, [Next]_vars
  PROVE  KInv' /\ Steady
<1>1. PICK h \in Nat : Core(PlanNow(xfer, s, r), xfer, s, r, toR, toS, h)
  BY DEF KInv
<1>2. PICK g : g = PlanNow(xfer, s, r)
  OBVIOUS
<1>3. Core(g, xfer, s, r, toR, toS, h)
  BY <1>1, <1>2
<1>4. /\ xfer \in Transfers /\ s \in Senders(xfer) /\ r \in Receivers
      /\ toR \in Seq(ToR) /\ toS \in Seq(ToS)
  BY <1>3 DEF Core, Types, Sessions
<1>5. PlanFor(g, xfer)
  BY <1>2, <1>4, PlanNowFits
<1>6. SenderSilence => s.pc \notin Done
  BY DEF SenderSilence, StopAndWait, Done
<1>7. SUFFICES Goes
  BY DEF Goes, Holds, KInv
<1>8. CASE SenderRead
  <2>1. Core(PlanNow(xfer, s, r)', xfer', s', r', toR', toS', h)
    BY <1>2, <1>3, <1>4, <1>8, SenderReadKeeps
  <2>2. SenderTook /\ s.pc \notin Done
    BY <1>8 DEF SenderRead, SenderCancelled, SenderPeerError, SenderPoked, SenderReply,
                SenderUnreadable, SenderWindow, SenderStream, SenderReads
  <2> QED
    BY <2>1, <2>2 DEF SenderTook, Goes, Holds, Steady
<1>9. CASE ReceiverRead
  <2>1. ReceiverKept(g)
    BY <1>2, <1>3, <1>4, <1>9, ReceiverReadKeeps
  <2>2. xfer' = xfer /\ s' = s /\ r.pc \notin Done
    BY <1>9 DEF ReceiverRead, ReceiverSendInit, ReceiverCancelled, ReceiverUnreadable,
                ReceiverPacket, ReceiverDrain, ReceiverTook, Done
  <2> QED
    BY <1>2, <2>1, <2>2, ReceiverGoes
<1>10. CASE SenderTimeout \/ SenderTimeoutLate
  <2>1. SenderSilence /\ xfer' = xfer /\ r' = r /\ toS' = toS
    BY <1>10 DEF SenderTimeout, SenderTimeoutLate
  <2>2. Core(g, xfer, s', r', toR', toS', h) /\ s'.sess = s.sess
    BY <1>3, <1>4, <1>5, <2>1, SilenceKeeps
  <2> QED
    BY <1>2, <1>6, <2>1, <2>2, GoesPlainly
<1>11. CASE ReceiverTimeout \/ ReceiverTimeoutLate
  <2>1. ReceiverSilence /\ xfer' = xfer /\ s' = s /\ toR' = toR
    BY <1>11 DEF ReceiverTimeout, ReceiverTimeoutLate
  <2>2. Core(g, xfer, s, r', toR, toS', h) /\ r'.sess = r.sess
    BY <1>3, <1>5, <2>1, ReceiverSilenceKeeps
  <2>3. r'.files = r.files /\ r.pc \notin Done
    BY <1>4, <2>1, SilenceFiles
  <2> QED
    BY <1>2, <2>1, <2>2, <2>3, GoesPlainly
<1>12. CASE BothTimeout
  <2>1. SenderSilence /\ ReceiverSilence /\ xfer' = xfer
    BY <1>12 DEF BothTimeout
  <2>2. Core(g, xfer, s', r, toR', toS, h) /\ s'.sess = s.sess
    BY <1>3, <1>4, <1>5, <2>1, SilenceKeeps
  <2>3. Core(g, xfer, s', r', toR', toS', h) /\ r'.sess = r.sess
    BY <1>5, <2>1, <2>2, ReceiverSilenceKeeps
  <2>4. r'.files = r.files /\ r.pc \notin Done
    BY <1>4, <2>1, SilenceFiles
  <2> QED
    BY <1>2, <1>6, <2>1, <2>2, <2>3, <2>4, GoesPlainly
<1>13. CASE SenderLineDown
  <2>1. xfer' = xfer /\ r' = r /\ toS' = toS /\ s.pc \notin Done
    BY <1>13 DEF SenderLineDown
  <2>2. Core(g, xfer, s', r', toR', toS', h) /\ s'.sess = s.sess
    BY <1>3, <1>4, <1>5, <1>13, <2>1, LineDownKeeps
  <2> QED
    BY <1>2, <2>1, <2>2, GoesPlainly
<1>14. CASE ReceiverLineDown
  <2>1. xfer' = xfer /\ s' = s /\ toR' = toR /\ r.pc \notin Done
    BY <1>14 DEF ReceiverLineDown, Done
  <2>2. Core(g, xfer, s', r', toR', toS', h) /\ r'.sess = r.sess /\ r'.files = r.files
    BY <1>3, <1>4, <1>5, <1>14, <2>1, LineDownKeeps
  <2> QED
    BY <1>2, <2>1, <2>2, GoesPlainly
<1>15. CASE LineFault /\ UNCHANGED xfer
  <2>1. Core(g, xfer, s, r, toR', toS', h) /\ s' = s /\ r' = r
    BY <1>3, <1>15, FaultKeeps
  <2> QED
    BY <1>2, <1>15, <2>1, GoesPlainly
<1>16. CASE UNCHANGED vars
  BY <1>2, <1>3, <1>16, GoesPlainly DEF vars
<1> QED
  BY <1>8, <1>9, <1>10, <1>11, <1>12, <1>13, <1>14, <1>15, <1>16
     DEF Next, Progress, Timeout, Terminated

-----------------------------------------------------------------------------
(* The initial state.                                                       *)

LEMMA StartReceiver ==
  ASSUME ReceiverInit
  PROVE  /\ r \in Receivers /\ r.pc = "init" /\ r.exp = 0 /\ r.sess = Classic /\ r.idle = 0
         /\ r.buf = {} /\ r.files = <<>> /\ r.replay.seq = None /\ r.replay.pos = 0
<1>1. Classic \in Caps
  BY DEF Classic, Caps
<1>2. NoReplay \in PacketsOf({"Y"}) /\ NoReplay.seq = None /\ NoReplay.pos = 0
  BY <1>1 DEF NoReplay, Reply, Packet, PacketsOf, None
<1>3. 0 \in 0..Numbers - 1 /\ 0 \in 0..MaxRetries
  <2>1. MaxRetries \in Nat
    BY KermitAssumption
  <2> QED
    BY <2>1, NumbersType
<1>4. <<>> \in Seq(FileRecords)
  OBVIOUS
<1> HIDE DEF NoReplay
<1>5. r \in Receivers
  BY <1>1, <1>2, <1>3, <1>4 DEF ReceiverInit, Receivers
<1> QED
  BY <1>2, <1>5 DEF ReceiverInit

LEMMA StartSender ==
  ASSUME xfer \in Transfers, SenderInit
  PROVE  /\ s \in Senders(xfer) /\ s.pc \in {"poke", "S"} /\ (s.pc = "poke" <=> xfer.poke) /\ s.seq = 0
         /\ s.f = 1 /\ s.off = 0 /\ s.ours = xfer.ours /\ s.sess = Classic /\ s.out = <<>>
<1>1. /\ Classic \in Caps /\ xfer.files \in Nat /\ xfer.files > 0 /\ xfer.chunks \in Nat
      /\ xfer.poke \in BOOLEAN
  BY TransferFacts
<1>2. 0 \in 0..Numbers - 1 /\ 1 \in 1..xfer.files /\ 0 \in 0..xfer.chunks /\ 0 \in Nat
  BY <1>1, NumbersType
<1>3. <<>> \in Seq(Entries)
  OBVIOUS
<1>4. s.pc \in {"poke", "S"} /\ (s.pc = "poke" <=> xfer.poke)
  BY <1>1 DEF SenderInit
<1>5. s \in Senders(xfer)
  <2> DEFINE c == IF xfer.poke THEN "poke" ELSE "S"
  <2>1. c \in StopAndWait \cup {"poke", "W"} \cup Done
    BY DEF StopAndWait
  <2>2. s = [pc |-> c, seq |-> 0, f |-> 1, off |-> 0, att |-> 0,
             ours |-> xfer.ours, legacy |-> FALSE, sess |-> Classic, out |-> <<>>]
    BY DEF SenderInit
  <2> HIDE DEF c
  <2> QED
    BY <1>1, <1>2, <1>3, <2>1, <2>2 DEF Senders
<1> QED
  BY <1>4, <1>5 DEF SenderInit

LEMMA InitHolds ==
  ASSUME Init, ~Streams
  PROVE  KInv
<1> DEFINE g == PlanNow(xfer, s, r)
<1>1. /\ xfer \in Transfers /\ SenderInit /\ ReceiverInit /\ toR = Entering(s, 0)
      /\ ~(xfer.ours.stream /\ xfer.theirs.stream)
  BY DEF Init, Streams
<1>2. /\ r \in Receivers /\ r.pc = "init" /\ r.exp = 0 /\ r.sess = Classic /\ r.idle = 0
      /\ r.buf = {} /\ r.files = <<>> /\ r.replay.seq = None /\ r.replay.pos = 0
  BY <1>1, StartReceiver
<1>3. /\ s \in Senders(xfer) /\ s.pc \in {"poke", "S"} /\ (s.pc = "poke" <=> xfer.poke) /\ s.seq = 0
      /\ s.f = 1 /\ s.off = 0 /\ s.ours = xfer.ours /\ s.sess = Classic /\ s.out = <<>>
  BY <1>1, StartSender
<1>4. PlanFor(g, xfer) /\ (s.sess.attrs <=> g.att = 1)
  BY <1>1, <1>2, <1>3, PlanNowFits
<1>5. g \in Plans /\ g.att # 1 /\ ~s.sess.attrs /\ ~s.sess.stream /\ s.sess.window = 1 /\ r.sess.window = 1
  BY <1>2, <1>3, <1>4 DEF PlanFor, Classic
<1> HIDE DEF g
<1>6. BreakAt(g) \in Nat /\ BreakAt(g) >= 1
  <2>1. g.files \in Nat
    BY <1>5, PlanFacts
  <2>2. g.files + 1 \in Nat \ {0}
    BY <2>1
  <2> QED
    BY <1>5, <2>2, FirstFacts DEF BreakAt
<1>7. 0 % Numbers = 0 /\ Numbers \in Nat /\ Numbers > 2
  <2>1. Numbers > 2
    BY <1>1, TransferFacts
  <2> QED
    BY <2>1, NumbersType
<1>8. SenderShape(g, s)
  <2>1. s.pc = "S" => Waits(g, s) = 0
    BY DEF Waits, Place
  <2>2. DOMAIN s.out = {}
    BY <1>3
  <2>3. OutShape(g, s)
    BY <2>2 DEF OutShape
  <2> QED
    BY <1>3, <1>7, <2>1, <2>3 DEF SenderShape, StopAndWait
<1>9. toR \in Seq(ToR) /\ \A j \in DOMAIN toR : /\ toR[j].k = "S" /\ toR[j].caps = xfer.ours /\ s.pc = "S"
                                                /\ GoodPacket(g, toR[j]) /\ At(g, toR[j]) = 0
  <2>1. CASE s.pc = "S"
    <3> DEFINE c == Current(s)
    <3>1. s.pc \in StopAndWait
      BY <2>1 DEF StopAndWait
    <3>2. toR = <<c>>
      BY <1>1, <3>1 DEF Entering
    <3>3. c \in ToR /\ GoodPacket(g, c) /\ At(g, c) = Waits(g, s) /\ c.k = "S"
      BY <1>1, <1>3, <1>4, <1>8, <2>1, <3>1, CurrentGood
    <3>4. Waits(g, s) = 0
      BY <2>1 DEF Waits, Place
    <3>5. c.caps = xfer.ours
      BY <1>3, <2>1 DEF Current, Packet
    <3> HIDE DEF c
    <3> QED
      BY <2>1, <3>2, <3>3, <3>4, <3>5
  <2>2. CASE s.pc = "poke"
    <3>1. s.pc \notin StopAndWait /\ Len(s.out) = 0
      BY <1>3, <2>2 DEF StopAndWait
    <3>2. toR = [i \in 1..Len(s.out) - 0 |-> Outgoing(s, s.out[0 + i])]
      BY <1>1, <3>1 DEF Entering
    <3>3. toR = <<>>
      BY <3>1, <3>2
    <3> QED
      BY <3>3
  <2> QED
    BY <1>3, <2>1, <2>2
<1>10. toS = <<>> \/ (s.pc = "poke" /\ toS = <<Reply("N", 0, 1)>>)
  BY <1>3 DEF Init
<1>11. toS \in Seq(ToS)
  <2>1. 0 \in Int /\ 1 \in 1..3
    OBVIOUS
  <2>2. Reply("N", 0, 1) \in ToS
    BY <2>1, ReplyType
  <2>3. <<Reply("N", 0, 1)>> \in Seq(ToS) /\ <<>> \in Seq(ToS)
    BY <2>2
  <2> QED
    BY <1>10, <2>3
<1>12. Types(xfer, s, r, toR, toS)
  <2>1. 0 <= NoProgress * 1 /\ 0 <= MaxBatchFiles
    BY KermitAssumption
  <2>2. Len(r.files) = 0
    BY <1>2
  <2> QED
    BY <1>2, <1>3, <1>5, <1>9, <1>11, <2>1, <2>2 DEF Types
<1>13. Sessions(xfer, s, r, toR)
  <2>1. 2 * 1 < Numbers
    BY <1>7
  <2>2. ~r.sess.stream
    BY <1>2 DEF Classic
  <2>3. s.sess.window <= r.sess.window
    BY <1>5
  <2> QED
    BY <1>1, <1>2, <1>3, <1>5, <1>9, <2>1, <2>2, <2>3 DEF Sessions
<1>14. FilesShape(g, r) /\ Exp(g, r) = 0
  <2>1. Len(r.files) <= g.files /\ DOMAIN r.files = {}
    BY <1>2, <1>5, PlanFacts
  <2> QED
    BY <1>2, <2>1 DEF FilesShape, Exp
<1>15. ReceiverShape(g, r, 0)
  <2>1. Pending(g, r)
    BY <1>2 DEF Pending
  <2>2. Replay(g, r)
    BY <1>2, <1>5 DEF Replay
  <2>3. BufShape(g, r, 0)
    <3>1. \A m \in 0 .. 0 - 1 : FALSE
      OBVIOUS
    <3> QED
      BY <1>2, <1>14, <3>1 DEF BufShape
  <2>4. 0 \in 0..0 + r.sess.window /\ ~(0 > 0)
    BY <1>5
  <2> QED
    BY <1>2, <1>7, <1>14, <2>1, <2>2, <2>3, <2>4 DEF ReceiverShape
<1>16. PacketsSound(g, r, 0, toR)
  <2>1. 0 <= 0 + 1 /\ 0 < 0 + 1 /\ ~(0 > 0)
    OBVIOUS
  <2>2. \A j \in DOMAIN toR : \A i \in 1..j - 1 : i \in DOMAIN toR
    BY <1>9, DomainFacts
  <2> QED
    BY <1>2, <1>5, <1>9, <2>1, <2>2 DEF PacketsSound, PacketSound
<1>17. Sent(g, s, r, 0, toR)
  <2>1. CASE s.pc = "S"
    <3>1. Waits(g, s) = 0
      BY <2>1 DEF Waits, Place
    <3>2. SendNext(g, s) = 1 /\ Unacked(g, s) = {0}
      BY <2>1, <3>1 DEF SendNext, Unacked
    <3> QED
      BY <1>2, <1>9, <3>2 DEF Sent
  <2>2. CASE s.pc = "poke"
    <3>1. SendNext(g, s) = 0
      BY <2>2 DEF SendNext
    <3>2. DOMAIN toR = {}
      BY <1>9, <2>2
    <3>3. \A m \in 0 .. 0 - 1 : FALSE
      OBVIOUS
    <3> QED
      BY <1>2, <3>1, <3>2, <3>3 DEF Sent
  <2> QED
    BY <1>3, <2>1, <2>2
<1>18. RepliesSound(g, s, r, 0, toS)
  <2>1. CASE toS = <<>>
    BY <2>1 DEF RepliesSound
  <2>2. CASE s.pc = "poke" /\ toS = <<Reply("N", 0, 1)>>
    <3> DEFINE y == Reply("N", 0, 1)
    <3>1. y.k = "N" /\ y.seq = 0
      BY DEF Reply, Packet
    <3>2. toS = <<y>>
      BY <2>2
    <3>3. SendNext(g, s) = 0
      BY <2>2 DEF SendNext
    <3> HIDE DEF y
    <3>4. ReplyTells(g, s, r, y, 0)
      BY <1>6, <3>1 DEF ReplyTells
    <3>5. 0 <= 0 + r.sess.window
      BY <1>5
    <3>6. ReplySound(g, s, r, 0, y, 0, 0)
      BY <1>7, <1>14, <3>1, <3>3, <3>4, <3>5 DEF ReplySound
    <3>7. DOMAIN toS = {1} /\ toS[1] = y /\ \A i \in 1..1 - 1 : FALSE
      BY <3>2
    <3> QED
      BY <3>6, <3>7 DEF RepliesSound
  <2> QED
    BY <1>10, <2>1, <2>2
<1>19. s.pc # "ok"
  BY <1>3
<1>20. Core(g, xfer, s, r, toR, toS, 0)
  BY <1>8, <1>12, <1>13, <1>14, <1>15, <1>16, <1>17, <1>18, <1>19 DEF Core
<1> QED
  BY <1>20 DEF KInv, g

-----------------------------------------------------------------------------
(* What the invariant says of the states.                                   *)

Orderly(g, x, u, t) ==
  /\ PlanFor(g, x) /\ FilesShape(g, t) /\ (u.pc = "ok" => t.pc = "ok")
  /\ x \in Transfers /\ u \in Senders(x) /\ t \in Receivers
  /\ t.idle <= NoProgress * t.sess.window /\ Len(t.files) <= MaxBatchFiles

LEMMA HoldsOrderly ==
  ASSUME NEW x, NEW u, NEW t, NEW qR, NEW qS, NEW h, Core(PlanNow(x, u, t), x, u, t, qR, qS, h)
  PROVE  Orderly(PlanNow(x, u, t), x, u, t)
<1>1. PICK g : g = PlanNow(x, u, t)
  OBVIOUS
<1>2. /\ x \in Transfers /\ u \in Senders(x) /\ t \in Receivers /\ FilesShape(g, t)
      /\ (u.pc = "ok" => t.pc = "ok")
      /\ t.idle <= NoProgress * t.sess.window /\ Len(t.files) <= MaxBatchFiles
  BY <1>1 DEF Core, Types, Sessions
<1>3. PlanFor(g, x)
  BY <1>1, <1>2, PlanNowFits
<1> QED
  BY <1>1, <1>2, <1>3 DEF Orderly

LEMMA InvariantOrderly ==
  /\ KInv => \E g : Orderly(g, xfer, s, r)
  /\ KInv' => \E g : Orderly(g, xfer', s', r')
<1>1. KInv => \E g : Orderly(g, xfer, s, r)
  BY HoldsOrderly DEF KInv
<1>2. KInv' => \E h \in Nat : Core(PlanNow(xfer', s', r'), xfer', s', r', toR', toS', h)
  BY DEF KInv
<1>3. KInv' => \E g : Orderly(g, xfer', s', r')
  BY <1>2, HoldsOrderly
<1> QED
  BY <1>1, <1>3

LEMMA InvariantImplies ==
  ASSUME KInv
  PROVE  TypeOK /\ PrefixReceived /\ KeptIsWhole /\ SenderSuccessIsWhole
<1>0. PICK g : Orderly(g, xfer, s, r)
  BY InvariantOrderly
<1>1. /\ PlanFor(g, xfer) /\ FilesShape(g, r) /\ (s.pc = "ok" => r.pc = "ok")
      /\ xfer \in Transfers /\ s \in Senders(xfer) /\ r \in Receivers
      /\ r.idle <= NoProgress * r.sess.window /\ Len(r.files) <= MaxBatchFiles
  BY <1>0 DEF Orderly
<1>2. g.chunks = xfer.chunks /\ g.files = xfer.files
  BY <1>1 DEF PlanFor
<1>3. \A i \in DOMAIN r.files : FileShape(g, i, r.files[i], i = Len(r.files))
  BY <1>1 DEF FilesShape
<1>4. TypeOK
  <2>1. /\ s.pc \in StopAndWait \cup {"poke", "W"} \cup Done /\ s.seq \in 0..Numbers - 1
        /\ s.f \in 1..xfer.files /\ s.off \in 0..xfer.chunks
        /\ s.ours \in {xfer.ours, Classic} /\ s.sess \in Caps /\ s.out \in Seq(Entries)
    BY <1>1, SenderFields
  <2>2. /\ r.pc \in {"init", "run", "drain"} \cup Done /\ r.exp \in 0..Numbers - 1 /\ r.sess \in Caps
        /\ r.fails \in 0..MaxRetries /\ r.idle \in Nat
    BY <1>1, ReceiverFields
  <2>3. s.ours \in Caps
    BY <1>1, <2>1, TransferFacts
  <2>4. \A i \in DOMAIN s.out : s.out[i].retries <= MaxRetries
    <3>1. \A i \in DOMAIN s.out : s.out[i] \in Entries
      BY <2>1
    <3>2. \A e \in Entries : e.retries <= MaxRetries
      BY KermitAssumption DEF Entries
    <3> QED
      BY <3>1, <3>2
  <2>5. r.idle \in 0..NoProgress * r.sess.window
    <3>1. NoProgress \in Nat /\ r.sess.window \in Nat
      BY <2>2, CapsFacts, KermitAssumption
    <3>2. NoProgress * r.sess.window \in Nat
      BY <3>1
    <3> QED
      BY <1>1, <2>2, <3>2
  <2> QED
    BY <1>1, <2>1, <2>2, <2>3, <2>4, <2>5 DEF TypeOK
<1>5. PrefixReceived
  BY <1>3 DEF PrefixReceived, FileShape
<1>6. KeptIsWhole
  BY <1>2, <1>3 DEF KeptIsWhole, WholeFile, FileShape
<1>7. SenderSuccessIsWhole
  <2>1. SUFFICES ASSUME s.pc = "ok", NEW f \in 1..xfer.files
                 PROVE  f \in DOMAIN r.files /\ r.files[f].f = f /\ r.files[f].kept
    BY DEF SenderSuccessIsWhole
  <2>2. Len(r.files) = xfer.files /\ LastFile(r).kept
    BY <1>1, <1>2, <2>1 DEF FilesShape
  <2>3. f \in DOMAIN r.files
    <3>1. r.files \in Seq(FileRecords)
      BY <1>1, ReceiverFields
    <3> QED
      BY <2>1, <2>2, <3>1
  <2>4. FileShape(g, f, r.files[f], f = Len(r.files))
    BY <1>3, <2>3
  <2>5. r.files[f].kept
    <3>1. CASE f = Len(r.files)
      BY <2>2, <3>1 DEF LastFile
    <3>2. CASE f # Len(r.files)
      BY <2>4, <3>2 DEF FileShape
    <3> QED
      BY <3>1, <3>2
  <2> QED
    BY <2>3, <2>4, <2>5 DEF FileShape
<1> QED
  BY <1>4, <1>5, <1>6, <1>7

-----------------------------------------------------------------------------
(* The promise of FileTransfer.  HandedOver and GotOf are what its kept counts    *)
(* and its got is, of files of c chunks.                                     *)

HandedOver(F, c) == {i \in DOMAIN F : F[i].kept /\ F[i].good = c /\ F[i].len = c}

GotOf(F) == IF F # <<>> /\ ~F[Len(F)].kept THEN F[Len(F)].good ELSE 0

\* All files but an open last one are handed over.
LEMMA KeptCount ==
  ASSUME NEW g \in Plans, NEW t \in Receivers, FilesShape(g, t)
  PROVE  /\ t.files \in Seq(FileRecords) /\ Len(t.files) \in Nat /\ Len(t.files) <= g.files
         /\ Cardinality(HandedOver(t.files, g.chunks)) =
              IF t.files = <<>> \/ t.files[Len(t.files)].kept THEN Len(t.files) ELSE Len(t.files) - 1
         /\ t.files # <<>> => /\ t.files[Len(t.files)] \in FileRecords /\ Len(t.files) >= 1
                              /\ t.files[Len(t.files)].good \in 0..g.chunks
                              /\ (t.files[Len(t.files)].kept => t.files[Len(t.files)].good = g.chunks)
<1> DEFINE F == t.files
           n == Len(F)
           m == IF F = <<>> \/ F[n].kept THEN n ELSE n - 1
<1>1. F \in Seq(FileRecords) /\ n \in Nat /\ n <= g.files /\ g.chunks \in Nat
      /\ \A i \in DOMAIN F : FileShape(g, i, F[i], i = n)
  BY ReceiverFields, PlanFacts DEF FilesShape
<1>2. DOMAIN F = 1..n /\ (F # <<>> => n >= 1 /\ n \in DOMAIN F /\ F[n] \in FileRecords)
  BY <1>1
<1>3. m \in Int /\ m <= n /\ m >= 0
  BY <1>1, <1>2
<1>4. HandedOver(F, g.chunks) = 1..m
  <2>1. ASSUME NEW i \in HandedOver(F, g.chunks)
        PROVE  i \in 1..m
    <3>1. i \in 1..n /\ F[i].kept
      BY <1>2, <2>1 DEF HandedOver
    <3>2. CASE m = n
      BY <3>1, <3>2
    <3>3. CASE m = n - 1 /\ F # <<>> /\ ~F[n].kept
      BY <1>1, <3>1, <3>3
    <3> QED
      BY <3>2, <3>3
  <2>2. ASSUME NEW i \in 1..m
        PROVE  i \in HandedOver(F, g.chunks)
    <3>1. i \in DOMAIN F
      BY <1>1, <1>2, <1>3, <2>2
    <3>2. FileShape(g, i, F[i], i = n)
      BY <1>1, <3>1
    <3>3. F[i].kept
      <4>1. CASE i = n
        <5>1. m = n /\ F # <<>>
          BY <1>1, <2>2, <4>1
        <5>2. F[n].kept
          BY <1>1, <5>1
        <5> QED
          BY <4>1, <5>2
      <4>2. CASE i # n
        BY <3>2, <4>2 DEF FileShape
      <4> QED
        BY <4>1, <4>2
    <3> QED
      BY <3>1, <3>2, <3>3 DEF HandedOver, FileShape
  <2> QED
    BY <2>1, <2>2
<1>5. Cardinality(1..m) = m
  <2>1. 1 \in Int /\ m \in Int
    BY <1>3
  <2>2. Cardinality(1..m) = IF 1 > m THEN 0 ELSE m - 1 + 1
    BY <2>1, FS_Interval
  <2> QED
    BY <1>3, <2>2
<1>6. ASSUME F # <<>>
      PROVE  F[n].good \in 0..g.chunks /\ (F[n].kept => F[n].good = g.chunks)
  <2>1. FileShape(g, n, F[n], n = n) /\ F[n] \in FileRecords
    BY <1>1, <1>2, <1>6
  <2>2. F[n].good \in Nat /\ F[n].good = F[n].len /\ F[n].len <= g.chunks /\ (F[n].kept => F[n].len = g.chunks)
    BY <2>1 DEF FileShape, FileRecords
  <2> QED
    BY <1>1, <2>2
<1> QED
  BY <1>1, <1>2, <1>4, <1>5, <1>6

\* What a packet does to the files is what FileTransfer allows.
LEMMA GrowthPromised ==
  ASSUME NEW g \in Plans, NEW g2 \in Plans, g2.chunks = g.chunks, g2.files = g.files,
         NEW t \in Receivers, NEW t2 \in Receivers, FilesShape(g, t), FilesShape(g2, t2),
         FilesGrow(t.files, t2.files),
         NEW k, k = Cardinality(HandedOver(t.files, g.chunks)),
         NEW k2, k2 = Cardinality(HandedOver(t2.files, g.chunks)),
         NEW a, a = GotOf(t.files), NEW a2, a2 = GotOf(t2.files)
  PROVE  \/ k2 = k /\ a2 = a
         \/ k2 = k /\ a2 \in a + 1 .. g.chunks
         \/ k2 = k + 1 /\ a2 = 0 /\ a + 0 >= g.chunks /\ k < g.files
<1> DEFINE F == t.files
           F2 == t2.files
           n == Len(F)
           n2 == Len(F2)
<1>1. /\ F \in Seq(FileRecords) /\ n \in Nat /\ n <= g.files
      /\ k = IF F = <<>> \/ F[n].kept THEN n ELSE n - 1
      /\ F # <<>> => /\ F[n] \in FileRecords /\ n >= 1 /\ F[n].good \in 0..g.chunks
                     /\ (F[n].kept => F[n].good = g.chunks)
  BY KeptCount
<1>2. /\ F2 \in Seq(FileRecords) /\ n2 \in Nat /\ n2 <= g.files
      /\ k2 = IF F2 = <<>> \/ F2[n2].kept THEN n2 ELSE n2 - 1
      /\ F2 # <<>> => /\ F2[n2] \in FileRecords /\ n2 >= 1 /\ F2[n2].good \in 0..g.chunks
                      /\ (F2[n2].kept => F2[n2].good = g.chunks)
  BY KeptCount
<1>3. g.chunks \in Nat /\ g.files \in Nat
  BY PlanFacts
<1>4. PICK e \in FileRecords :
        \/ F2 = Append(F, e) /\ ~e.kept /\ e.good = 0 /\ (F # <<>> => F[n].kept)
        \/ /\ F # <<>> /\ F2 = [F EXCEPT ![n] = e] /\ ~F[n].kept
           /\ F[n].good <= e.good /\ (e.kept => e.good = F[n].good)
  BY DEF FilesGrow
<1>5. CASE F2 = Append(F, e) /\ ~e.kept /\ e.good = 0 /\ (F # <<>> => F[n].kept)
  <2>1. n2 = n + 1 /\ F2[n2] = e /\ F2 # <<>>
    BY <1>1, <1>4, <1>5
  <2>2. a = 0 /\ a2 = 0
    BY <1>5, <2>1 DEF GotOf
  <2>3. k = n /\ k2 = n2 - 1
    BY <1>1, <1>2, <1>5, <2>1
  <2> QED
    BY <1>1, <2>1, <2>2, <2>3
<1>6. CASE /\ F # <<>> /\ F2 = [F EXCEPT ![n] = e] /\ ~F[n].kept
           /\ F[n].good <= e.good /\ (e.kept => e.good = F[n].good)
  <2>1. n2 = n /\ F2[n] = e /\ F2 # <<>> /\ n >= 1 /\ n \in DOMAIN F
    <3>1. n \in DOMAIN F
      BY <1>1, <1>6
    <3> QED
      BY <1>1, <1>6, <3>1
  <2>2. k = n - 1 /\ a = F[n].good /\ a \in 0..g.chunks
    BY <1>1, <1>6 DEF GotOf
  <2>3. e.good \in 0..g.chunks /\ (e.kept => e.good = g.chunks)
    BY <1>2, <2>1
  <2>4. CASE e.kept
    <3>1. k2 = n /\ a2 = 0
      BY <1>2, <2>1, <2>4 DEF GotOf
    <3>2. a = g.chunks
      BY <1>6, <2>2, <2>3, <2>4
    <3> QED
      BY <1>1, <1>3, <2>1, <2>2, <3>1, <3>2
  <2>5. CASE ~e.kept
    <3>1. k2 = n - 1 /\ a2 = e.good
      BY <1>2, <2>1, <2>5 DEF GotOf
    <3>2. a2 \in Int /\ a <= a2 /\ a2 <= g.chunks /\ a \in Int
      BY <1>3, <1>6, <2>2, <2>3, <3>1
    <3> QED
      BY <1>3, <2>2, <3>1, <3>2
  <2> QED
    BY <2>4, <2>5
<1> QED
  BY <1>4, <1>5, <1>6

LEMMA PromiseInit ==
  ASSUME Init
  PROVE  Promise!Init
<1>1. /\ xfer \in Transfers /\ r.files = <<>> /\ r.pc = "init" /\ s.pc \in {"poke", "S"}
  <2>1. xfer \in Transfers /\ SenderInit /\ ReceiverInit
    BY DEF Init
  <2> QED
    BY <2>1, StartSender, StartReceiver
<1>2. xfer.files \in Nat /\ xfer.chunks \in Nat
  BY <1>1, TransferFacts
<1>3. Outcome(s.pc) = "run" /\ Outcome(r.pc) = "run"
  BY <1>1 DEF Outcome, Done
<1>4. ~Open
  BY <1>1 DEF Open
<1>5. Cardinality({i \in DOMAIN r.files : r.files[i].kept /\ WholeFile(r.files[i])}) = 0
  <2>1. DOMAIN r.files = {}
    BY <1>1
  <2>2. {i \in DOMAIN r.files : r.files[i].kept /\ WholeFile(r.files[i])} = {}
    BY <2>1
  <2> QED
    BY <2>2, FS_EmptySet
<1> QED
  BY <1>2, <1>3, <1>4, <1>5 DEF Promise!Init

LEMMA PromiseNext ==
  ASSUME KInv, KInv', [Next]_vars
  PROVE  [Promise!Next]_(Promise!ftvars)
<1> DEFINE Job == [files |-> xfer.files, size |-> xfer.chunks, slack |-> 0, assured |-> TRUE]
           Got == IF Open THEN LastFile(r).good ELSE 0
           Kept == Cardinality({i \in DOMAIN r.files : r.files[i].kept /\ WholeFile(r.files[i])})
           Snd == Outcome(s.pc)
           Rcv == Outcome(r.pc)
<1>1. Steady
  BY NextKeeps
<1>2. PICK g : Orderly(g, xfer, s, r)
  BY InvariantOrderly
<1>3. PICK g2 : Orderly(g2, xfer', s', r')
  BY InvariantOrderly
<1>4. xfer' = xfer
  BY <1>1 DEF Steady
<1>5. /\ g \in Plans /\ g2 \in Plans /\ g2.chunks = g.chunks /\ g2.files = g.files
      /\ g.chunks = xfer.chunks /\ g.files = xfer.files
  BY <1>2, <1>3, <1>4 DEF PlanFor, Orderly
<1>6. /\ r \in Receivers /\ r' \in Receivers /\ FilesShape(g, r) /\ FilesShape(g2, r')
      /\ s'.pc = "ok" => r'.pc = "ok"
  BY <1>2, <1>3 DEF Orderly
<1>7. Job' = Job /\ Job.files = g.files /\ Job.size = g.chunks /\ Job.slack = 0
  BY <1>4, <1>5
<1>8. Kept = Cardinality(HandedOver(r.files, g.chunks)) /\ Kept' = Cardinality(HandedOver(r'.files, g.chunks))
  <2>1. {i \in DOMAIN r.files : r.files[i].kept /\ WholeFile(r.files[i])} = HandedOver(r.files, g.chunks)
    BY <1>5 DEF HandedOver, WholeFile
  <2>2. {i \in DOMAIN r'.files : r'.files[i].kept /\ (WholeFile(r.files[i]))'} = HandedOver(r'.files, g.chunks)
    BY <1>4, <1>5 DEF HandedOver, WholeFile
  <2> QED
    BY <2>1, <2>2
<1>9. Got = GotOf(r.files) /\ Got' = GotOf(r'.files)
  BY DEF Open, LastFile, GotOf
<1>10. /\ Snd' \in {"run", "ok", "err"} /\ (Snd' = "ok" <=> s'.pc = "ok")
       /\ Snd # "run" => Snd' = Snd
       /\ Snd \in {"run", "ok", "err"} /\ (s' = s => Snd' = Snd)
  BY <1>1 DEF Outcome, Done, Steady
<1>11. /\ Rcv' \in {"run", "ok", "err"}
       /\ Rcv # "run" => Rcv' = Rcv
       /\ Rcv \in {"run", "ok", "err"}
       /\ {r.pc, r'.pc} \subseteq {"run", "drain"} => Rcv = "run" /\ Rcv' = "run"
  BY <1>1 DEF Outcome, Done, Steady
<1>12. s'.pc = "ok" => Kept' = g.files
  <2>1. SUFFICES ASSUME s'.pc = "ok"
                 PROVE  Cardinality(HandedOver(r'.files, g.chunks)) = g.files
    BY <1>8
  <2>2. r'.files # <<>> /\ Len(r'.files) = g.files /\ r'.files[Len(r'.files)].kept
    BY <1>5, <1>6, <2>1 DEF FilesShape, LastFile
  <2> QED
    BY <1>5, <1>6, <2>2, KeptCount
<1>13. \/ Got' = Got /\ Kept' = Kept
       \/ /\ Snd' = Snd /\ Rcv = "run" /\ Rcv' = "run"
          /\ \/ Got' \in Got + 1..Job.size /\ Kept' = Kept
             \/ /\ Got + Job.slack >= Job.size /\ Kept < Job.files
                /\ Kept' = Kept + 1 /\ Got' = 0
  <2> HIDE DEF Got, Kept, Snd, Rcv, Job
  <2>1. CASE r'.files = r.files
    BY <1>8, <1>9, <2>1
  <2>2. CASE /\ s' = s /\ {r.pc, r'.pc} \subseteq {"run", "drain"}
             /\ FilesGrow(r.files, r'.files)
    <3>1. \/ Kept' = Kept /\ Got' = Got
          \/ Kept' = Kept /\ Got' \in Got + 1 .. g.chunks
          \/ Kept' = Kept + 1 /\ Got' = 0 /\ Got + 0 >= g.chunks /\ Kept < g.files
      BY <1>5, <1>6, <1>8, <1>9, <2>2, GrowthPromised
    <3> QED
      BY <1>7, <1>10, <1>11, <2>2, <3>1
  <2> QED
    BY <1>1, <2>1, <2>2 DEF Steady, Grows
<1>14. CASE Got' = Got /\ Kept' = Kept
  <2>1. CASE Snd' = Snd /\ Rcv' = Rcv
    <3>1. UNCHANGED <<Job, Got, Kept, Snd, Rcv>>
      BY <1>7, <1>14, <2>1
    <3> QED
      BY <3>1 DEF Promise!ftvars
  <2>2. CASE ~(Snd' = Snd /\ Rcv' = Rcv)
    <3> HIDE DEF Job, Got, Kept, Snd, Rcv
    <3>1. /\ Snd = "run" \/ Rcv = "run"
          /\ Snd' \in IF Snd = "run" THEN {"run", "ok", "err"} ELSE {Snd}
          /\ Rcv' \in IF Rcv = "run" THEN {"run", "ok", "err"} ELSE {Rcv}
      BY <1>10, <1>11, <2>2
    <3>2. Snd = "run" /\ Snd' = "ok" /\ Job.assured => Kept = Job.files
      BY <1>7, <1>10, <1>12, <1>14
    <3>3. UNCHANGED <<Job, Got, Kept>>
      BY <1>7, <1>14
    <3> USE DEF Job, Got, Kept, Snd, Rcv
    <3>4. Promise!Return
      BY <3>1, <3>2, <3>3 DEF Promise!Return
    <3> QED
      BY <3>4 DEF Promise!Next
  <2> QED
    BY <2>1, <2>2
<1>15. CASE /\ Snd' = Snd /\ Rcv = "run" /\ Rcv' = "run"
            /\ Got' \in Got + 1..Job.size /\ Kept' = Kept
  <2>1. Promise!Extend
    BY <1>7, <1>15 DEF Promise!Extend
  <2> QED
    BY <2>1 DEF Promise!Next
<1>16. CASE /\ Snd' = Snd /\ Rcv = "run" /\ Rcv' = "run"
            /\ Got + Job.slack >= Job.size /\ Kept < Job.files
            /\ Kept' = Kept + 1 /\ Got' = 0
  <2>1. Promise!Keep
    BY <1>7, <1>16 DEF Promise!Keep
  <2> QED
    BY <2>1 DEF Promise!Next
<1> HIDE DEF Job, Got, Kept, Snd, Rcv
<1> QED
  BY <1>13, <1>14, <1>15, <1>16

-----------------------------------------------------------------------------
(* A line that has added no fault.                                           *)

\* The sender always waits for something, so something is on its way.
LEMMA UnderWay ==
  ASSUME NEW g, NEW x, PlanFor(g, x), NEW u, NEW t, NEW qR, NEW qS, NEW h,
         Core(g, x, u, t, qR, qS, h), u.pc \in Busy, InStep(g, u, t, qR, qS)
  PROVE  qS # <<>> \/ (t.pc = "run" /\ qR # <<>>)
<1>1. /\ Alive(u.pc) /\ u.pc \notin {"poke", "S"}
  BY DEF Busy, Alive, Done
<1>2. /\ Window(SendNext(g, u), Unacked(g, u), t.sess.window) /\ Exp(g, t) \in Nat
      /\ SenderShape(g, u) /\ u \in Senders(x)
  BY <1>1, CoreFacts DEF Core
<1>3. PICK m : m \in Unacked(g, u)
  <2>1. CASE u.pc = "W"
    <3>1. u.out # <<>> /\ u.out \in Seq(Entries)
      BY <1>2, <2>1, SenderFields DEF SenderShape
    <3>2. 1 \in DOMAIN u.out
      BY <3>1
    <3> QED
      BY <2>1, <3>2 DEF Unacked
  <2>2. CASE u.pc # "W"
    BY <1>1, <2>2 DEF Unacked
  <2> QED
    BY <2>1, <2>2
<1>4. m \in Nat /\ m < SendNext(g, u) /\ SendNext(g, u) \in Nat
  BY <1>2, <1>3 DEF Window
<1>5. CASE m < Exp(g, t) \/ t.pc = "ok"
  <2>1. Acks(qS, m)
    BY <1>3, <1>5 DEF InStep
  <2> QED
    BY <2>1 DEF Acks
<1>6. CASE m >= Exp(g, t) /\ t.pc # "ok"
  <2>1. t.pc = "run" /\ SendNext(g, u) = Exp(g, t) + Len(qR)
    BY <1>6 DEF InStep, InLine
  <2>2. Len(<<>>) = 0
    OBVIOUS
  <2> QED
    BY <1>2, <1>4, <1>6, <2>1, <2>2
<1> QED
  BY <1>2, <1>4, <1>5, <1>6

\* The sender goes on: what it writes follows what is on its way.
LEMMA EnterInStep ==
  ASSUME xfer \in Transfers, NEW g, PlanFor(g, xfer), NEW u, NEW v, NEW t, NEW qR, NEW qS, NEW h, NEW ps,
         Core(g, xfer, u, t, qR, qS, h), u.pc \in Busy, u.pc # "B", InStep(g, u, t, qR, qS), qS # <<>>,
         Proceeds(g, u, v, ps, SendNext(g, u)), Exactly(g, v, ps, SendNext(g, u)),
         \A m \in Unacked(g, v) : \/ m >= SendNext(g, u)
                                  \/ m \in Unacked(g, u) /\ Head(qS).seq # m % Numbers
  PROVE  InStep(g, v, t, qR \o ps, Tail(qS))
<1>1. /\ Alive(u.pc)
  BY DEF Busy, Alive, Done
<1>2. /\ SendNext(g, u) \in Nat /\ Exp(g, t) \in Nat /\ qR \in Seq(ToR) /\ qS \in Seq(ToS)
      /\ t.pc = "run" /\ ps \in Seq(ToR)
      /\ Window(SendNext(g, u), Unacked(g, u), t.sess.window)
  BY <1>1, CoreFacts DEF InStep, Proceeds
<1>3. v.sess = t.sess
  BY DEF InStep, Proceeds
<1>4. /\ Tail(qS) \in Seq(ToS) /\ Head(qS) = qS[1]
      /\ \A j \in DOMAIN Tail(qS) : Tail(qS)[j] = qS[j + 1] /\ j + 1 \in DOMAIN qS
      /\ Len(Tail(qS)) = Len(qS) - 1
  BY <1>2, TailFacts
<1>5. PlainAcks(Tail(qS), t.sess.chk)
  BY <1>4 DEF InStep, PlainAcks
<1>6. /\ qR \o ps \in Seq(ToR) /\ Len(qR \o ps) = Len(qR) + Len(ps)
      /\ \A j \in DOMAIN (qR \o ps) :
              \/ j \in DOMAIN qR /\ (qR \o ps)[j] = qR[j]
              \/ j - Len(qR) \in DOMAIN ps /\ (qR \o ps)[j] = ps[j - Len(qR)] /\ j > Len(qR)
  BY <1>2, ConcatFacts
<1>7. DOMAIN qR = 1..Len(qR) /\ Len(qR) \in Nat /\ DOMAIN ps = 1..Len(ps) /\ Len(ps) \in Nat
      /\ DOMAIN qS = 1..Len(qS) /\ Len(qS) \in Nat /\ DOMAIN Tail(qS) = 1..Len(Tail(qS))
      /\ DOMAIN (qR \o ps) = 1..Len(qR \o ps)
  BY <1>2, <1>4, <1>6, DomainFacts
<1> HIDE DEF Proceeds
<1>8. InLine(g, v, t, qR \o ps)
  <2>1. InLine(g, u, t, qR)
    BY <1>2 DEF InStep
  <2>2. SendNext(g, v) = Exp(g, t) + Len(qR \o ps)
    BY <1>2, <1>6, <1>7, <2>1 DEF InLine, Exactly
  <2>3. ASSUME NEW j \in DOMAIN (qR \o ps)
        PROVE  /\ Carries((qR \o ps)[j]) /\ (qR \o ps)[j].ok /\ (qR \o ps)[j].chk = t.sess.chk
               /\ At(g, (qR \o ps)[j]) = Exp(g, t) + j - 1
               /\ (qR \o ps)[j].k = "B" => v.pc = "B"
    <3>1. CASE j \in DOMAIN qR /\ (qR \o ps)[j] = qR[j]
      BY <2>1, <3>1 DEF InLine
    <3>2. CASE j - Len(qR) \in DOMAIN ps /\ (qR \o ps)[j] = ps[j - Len(qR)]
      <4>1. PICK i \in DOMAIN ps : i = j - Len(qR)
        BY <3>2
      <4>2. (qR \o ps)[j] = ps[i]
        BY <3>2, <4>1
      <4>3. ps[i].ok /\ ps[i].chk = t.sess.chk /\ At(g, ps[i]) = SendNext(g, u) + i - 1
        BY <1>3 DEF Exactly
      <4>4. Carries(ps[i]) /\ (ps[i].k = v.pc \/ ps[i].k = "D")
        BY DEF Proceeds, GoodPacket, Sendable, Carries
      <4>5. SendNext(g, u) + i - 1 = Exp(g, t) + j - 1
        BY <1>2, <1>7, <2>1, <4>1 DEF InLine
      <4> QED
        BY <4>2, <4>3, <4>4, <4>5
    <3> QED
      BY <1>6, <3>1, <3>2
  <2> QED
    BY <2>2, <2>3 DEF InLine
<1>9. Window(SendNext(g, v), Unacked(g, v), t.sess.window)
  <2>1. v \in Senders(xfer) /\ SenderShape(g, v) /\ Alive(v.pc)
    BY DEF Proceeds
  <2>2. t.sess.window \in Nat /\ v.sess.window <= t.sess.window
    BY <1>3, CoreFacts
  <2> QED
    BY <2>1, <2>2, SenderWindowHolds
<1>10. ASSUME NEW m \in Unacked(g, v), m < Exp(g, t)
      PROVE  Acks(Tail(qS), m)
  <2>1. SendNext(g, u) >= Exp(g, t)
    BY <1>2, <1>7 DEF InStep, InLine
  <2>2. m \in Unacked(g, u) /\ Head(qS).seq # m % Numbers
    <3>1. CASE m >= SendNext(g, u)
      <4>1. m \in Nat
        BY <1>10, <1>9 DEF Window
      <4> QED
        BY <1>2, <1>10, <2>1, <3>1, <4>1
    <3> QED
      BY <3>1
  <2>3. PICK j \in DOMAIN qS : qS[j].seq = m % Numbers
    BY <1>10, <2>2 DEF InStep, Acks
  <2>4. j # 1
    BY <1>4, <2>2, <2>3
  <2>5. j - 1 \in DOMAIN Tail(qS)
    BY <1>4, <1>7, <2>3, <2>4
  <2>6. Tail(qS)[j - 1] = qS[j]
    <3>1. Tail(qS)[j - 1] = qS[(j - 1) + 1]
      BY <1>4, <2>5
    <3>2. (j - 1) + 1 = j
      BY <1>7
    <3> QED
      BY <3>1, <3>2
  <2> QED
    BY <2>3, <2>5, <2>6 DEF Acks
<1> QED
  BY <1>2, <1>3, <1>5, <1>8, <1>10 DEF InStep

\* An ACK of a packet no longer waited for goes by.
LEMMA DropInStep ==
  ASSUME NEW g, NEW u, NEW t, NEW qR, NEW S, NEW qS \in Seq(S), qS # <<>>, InStep(g, u, t, qR, qS),
         \A m \in Unacked(g, u) : Head(qS).seq # m % Numbers
  PROVE  InStep(g, u, t, qR, Tail(qS))
<1>1. /\ Tail(qS) \in Seq(S) /\ Head(qS) = qS[1]
      /\ \A j \in DOMAIN Tail(qS) : Tail(qS)[j] = qS[j + 1] /\ j + 1 \in DOMAIN qS
      /\ Len(Tail(qS)) = Len(qS) - 1
  BY TailFacts
<1>2. DOMAIN qS = 1..Len(qS) /\ Len(qS) \in Nat /\ DOMAIN Tail(qS) = 1..Len(Tail(qS))
  BY <1>1, DomainFacts
<1>3. PlainAcks(Tail(qS), t.sess.chk)
  BY <1>1 DEF InStep, PlainAcks
<1>4. ASSUME NEW m \in Unacked(g, u), m < Exp(g, t) \/ t.pc = "ok"
      PROVE  Acks(Tail(qS), m)
  <2>1. PICK j \in DOMAIN qS : qS[j].seq = m % Numbers
    BY <1>4 DEF InStep, Acks
  <2>2. j # 1
    BY <1>1, <2>1
  <2>3. j - 1 \in DOMAIN Tail(qS) /\ (j - 1) + 1 = j
    BY <1>1, <1>2, <2>1, <2>2
  <2>4. Tail(qS)[j - 1] = qS[j]
    <3>1. Tail(qS)[j - 1] = qS[(j - 1) + 1]
      BY <1>1, <2>3
    <3> QED
      BY <2>3, <3>1
  <2> QED
    BY <2>1, <2>3, <2>4 DEF Acks
<1> QED
  BY <1>3, <1>4 DEF InStep

\* The Send-Init of a clean line.
LEMMA PokeSmooth ==
  ASSUME xfer \in Transfers, NEW g, PlanFor(g, xfer), NEW h, Core(g, xfer, s, r, toR, toS, h), up,
         Starting(xfer, s, r, toR, toS), s.pc = "poke", Enter([s EXCEPT !.pc = "S"], 0)
  PROVE  Starting(xfer, s', r, toR', <<>>) /\ s'.pc = "S"
<1>1. s \in Senders(xfer) /\ SenderShape(g, s)
  BY DEF Core, Types, Alive, Done
<1>2. s.seq = 0 /\ s.ours = xfer.ours /\ r.pc = "init" /\ toR = <<>>
  BY <1>1 DEF SenderShape, Starting
<1>3. s' = [s EXCEPT !.pc = "S"] /\ toR' = toR \o Entering(s', 0)
  BY <1>2 DEF Enter, WriteToR, Done
<1>4. s'.pc = "S" /\ s'.seq = 0 /\ s'.ours = xfer.ours
  BY <1>1, <1>2, <1>3 DEF Senders
<1>5. Entering(s', 0) = <<Packet("S", 0, 1, 0, 0, xfer.ours)>>
  BY <1>4 DEF Entering, Current, StopAndWait
<1>6. toR' = <<Packet("S", 0, 1, 0, 0, xfer.ours)>>
  BY <1>2, <1>3, <1>5
<1> QED
  BY <1>2, <1>4, <1>6 DEF Starting

\* Both ends come to the same session.
LEMMA SameSession ==
  ASSUME NEW a \in Caps, NEW b \in Caps
  PROVE  intersect_capabilities(a, intersect_capabilities(b, a)) = intersect_capabilities(b, a)
<1> DEFINE c == intersect_capabilities(b, a)
<1>1. /\ c.window = Lower(b.window, a.window) /\ c.chk = Lower(b.chk, a.chk)
      /\ c.attrs = (b.attrs /\ a.attrs) /\ c.stream = (b.stream /\ a.stream)
      /\ c.resend = (b.resend /\ a.resend)
  BY DEF intersect_capabilities
<1>2. /\ a.window \in Nat /\ b.window \in Nat /\ a.chk \in 1..3 /\ b.chk \in 1..3
      /\ a.attrs \in BOOLEAN /\ a.stream \in BOOLEAN /\ a.resend \in BOOLEAN
      /\ b.attrs \in BOOLEAN /\ b.stream \in BOOLEAN /\ b.resend \in BOOLEAN
  BY CapsFacts
<1>3. Lower(a.window, c.window) = c.window /\ Lower(a.chk, c.chk) = c.chk
  BY <1>1, <1>2 DEF Lower
<1>4. /\ (a.attrs /\ c.attrs) = c.attrs /\ (a.stream /\ c.stream) = c.stream
      /\ (a.resend /\ c.resend) = c.resend
  BY <1>1, <1>2
<1>5. c = [window |-> c.window, chk |-> c.chk, attrs |-> c.attrs, stream |-> c.stream, resend |-> c.resend]
  BY DEF intersect_capabilities
<1>6. intersect_capabilities(a, c) =
        [window |-> Lower(a.window, c.window), chk |-> Lower(a.chk, c.chk),
         attrs |-> a.attrs /\ c.attrs, stream |-> a.stream /\ c.stream, resend |-> a.resend /\ c.resend]
  BY DEF intersect_capabilities
<1> HIDE DEF c
<1>7. intersect_capabilities(a, c) = c
  BY <1>3, <1>4, <1>5, <1>6
<1> QED
  BY <1>7 DEF c

LEMMA InitAckSmooth ==
  ASSUME xfer \in Transfers, NEW g, PlanFor(g, xfer), NEW h, Core(g, xfer, s, r, toR, toS, h), up,
         Starting(xfer, s, r, toR, toS), s.pc = "S", toS # <<>>,
         Enter(Acked(s, Head(toS)), 0),
         NEW g2, PlanFor(g2, xfer), NEW h2, Core(g2, xfer, s', r, toR', Tail(toS), h2)
  PROVE  InStep(g2, s', r, toR', Tail(toS)) /\ s'.pc = "F"
<1> DEFINE p == Head(toS)
<1>1. /\ s \in Senders(xfer) /\ SenderShape(g, s) /\ Sessions(xfer, s, r, toR)
      /\ xfer.ours \in Caps /\ xfer.theirs \in Caps
  BY TransferFacts DEF Core, Types, Alive, Done
<1>2. /\ s.ours = xfer.ours /\ r.pc = "run" /\ toR = <<>> /\ r.files = <<>>
      /\ r.sess = intersect_capabilities(xfer.theirs, xfer.ours)
      /\ toS = <<Packet("Y", 0, 1, 0, 0, r.sess)>>
  BY <1>1 DEF Starting, Sessions
<1>3. p.caps = r.sess /\ Tail(toS) = <<>>
  BY <1>2 DEF Packet
<1>4. /\ s' = Acked(s, p) /\ toR' = toR \o Entering(s', 0)
  BY <1>2 DEF Enter, WriteToR, Done
<1>5. s'.pc = "F" /\ s'.sess = r.sess
  <2>1. s'.pc = "F" /\ s'.sess = intersect_capabilities(s.ours, p.caps)
    BY <1>1, <1>4 DEF Acked, Senders
  <2> QED
    BY <1>1, <1>2, <1>3, <2>1, SameSession
<1> HIDE DEF p
<1>6. s' \in Senders(xfer) /\ SenderShape(g2, s') /\ s'.pc \in StopAndWait
  BY <1>5 DEF Core, Types, Alive, Done, StopAndWait
<1>7. /\ Proceeds(g2, s', s', Entering(s', 0), Waits(g2, s'))
      /\ Exactly(g2, s', Entering(s', 0), Waits(g2, s'))
  BY <1>5, <1>6, OneProceeds
<1>8. s'.f = 1
  BY <1>1, <1>4 DEF Acked, Senders, SenderShape
<1>9. Waits(g2, s') = 1 /\ Exp(g2, r) = 1
  BY <1>2, <1>5, <1>8 DEF Waits, Place, First, Exp
<1> DEFINE ps == Entering(s', 0)
<1> HIDE DEF ps
<1>10. toR' = ps /\ ps \in Seq(ToR)
  BY <1>2, <1>4, <1>7 DEF ps, Proceeds
<1>11. InLine(g2, s', r, toR')
  <2>1. SendNext(g2, s') = Exp(g2, r) + Len(ps)
    BY <1>7, <1>9 DEF Exactly, ps
  <2>2. ASSUME NEW j \in DOMAIN ps
        PROVE  /\ Carries(ps[j]) /\ ps[j].ok /\ ps[j].chk = r.sess.chk
               /\ At(g2, ps[j]) = Exp(g2, r) + j - 1
               /\ ps[j].k = "B" => s'.pc = "B"
    <3>1. ps[j].ok /\ ps[j].chk = s'.sess.chk /\ At(g2, ps[j]) = 1 + j - 1
      BY <1>7, <1>9 DEF Exactly, ps
    <3>2. Carries(ps[j]) /\ (ps[j].k = "F" \/ ps[j].k = "D")
      BY <1>5, <1>7 DEF Proceeds, GoodPacket, Sendable, Carries, ps
    <3> QED
      BY <1>5, <1>9, <3>1, <3>2
  <2> QED
    BY <1>10, <2>1, <2>2 DEF InLine
<1>12. PlainAcks(Tail(toS), r.sess.chk)
  BY <1>3 DEF PlainAcks
<1>13. \A m \in Unacked(g2, s') : m = 1
  BY <1>5, <1>9 DEF Unacked
<1> QED
  BY <1>2, <1>5, <1>9, <1>11, <1>12, <1>13 DEF InStep

\* The ACK of a stop-and-wait packet.
LEMMA AckSmooth ==
  ASSUME xfer \in Transfers, NEW g, PlanFor(g, xfer), NEW h, Core(g, xfer, s, r, toR, toS, h), up,
         InStep(g, s, r, toR, toS), s.pc \in {"F", "A", "D", "Z"}, toS # <<>>,
         Acknowledges(Head(toS)), s.sess.attrs <=> g.att = 1,
         IF Acked(s, Head(toS)).pc = "ok" THEN s' = Acked(s, Head(toS)) /\ UNCHANGED toR
         ELSE Enter(Acked(s, Head(toS)), 0)
  PROVE  InStep(g, s', r, toR', Tail(toS)) /\ s'.pc \in Busy
<1> DEFINE c == Waits(g, s)
           p == Head(toS)
           v == Acked(s, p)
           ps == Entering(v, 0)
<1>1. s.pc \in StopAndWait /\ s.pc \in Busy /\ s.pc # "B"
  BY DEF StopAndWait, Busy
<1>2. /\ c \in Nat /\ SendNext(g, s) = c + 1 /\ Unacked(g, s) = {c}
      /\ SenderShape(g, s) /\ Alive(s.pc) /\ s \in Senders(xfer)
  BY <1>1, AcknowledgedIs
<1>3. PICK m \in Nat : ReplyTells(g, s, r, p, m) /\ (p.k = "Y" => m = c)
  BY <1>1, AcknowledgedIs
<1>4. s.pc = "A" => p.pos = Skip(g, s.f)
  <2> SUFFICES ASSUME s.pc = "A" PROVE p.pos = Skip(g, s.f)
    OBVIOUS
  <2>1. p.k = "Y" /\ c = First(g, s.f) + 1 /\ g.att = 1 /\ s.f \in 1..g.files
    BY <1>2, SenderFields DEF Acknowledges, Waits, Place, SenderShape, PlanFor
  <2> QED
    BY <1>3, <2>1 DEF ReplyTells
<1>5. ~s.sess.stream /\ 2 * s.sess.window < Numbers
  <2>1. Sessions(xfer, s, r, toR)
    BY DEF Core
  <2>2. s.sess.window \in Nat /\ r.sess.window \in Nat /\ Numbers \in Nat
    BY <1>2, SenderFields, CapsFacts, CoreFacts, NumbersType
  <2> QED
    BY <2>1, <2>2 DEF Sessions
<1>6. /\ Proceeds(g, s, v, ps, c + 1) /\ v.pc \in {"F", "A", "D", "Z", "B", "W"}
      /\ Afresh(g, v, ps, c + 1)
  BY <1>2, <1>4, <1>5, AckedGoes
<1>7. r.pc = "run"
  BY <1>1 DEF InStep
<1>8. s' = v /\ toR' = toR \o ps
  BY <1>6, <1>7 DEF Enter, WriteToR, Done
<1> HIDE DEF v, ps, p, c
<1>9. /\ Proceeds(g, s, v, ps, SendNext(g, s)) /\ Exactly(g, v, ps, SendNext(g, s))
      /\ \A n \in Unacked(g, v) : n >= SendNext(g, s)
  BY <1>2, <1>6 DEF Afresh
<1>10. InStep(g, v, r, toR \o ps, Tail(toS))
  BY <1>1, <1>9, EnterInStep
<1> QED
  BY <1>6, <1>8, <1>10 DEF Busy

\* The ACK of a packet of the window.
LEMMA WindowAckSmooth ==
  ASSUME xfer \in Transfers, NEW g, PlanFor(g, xfer), NEW h,
         Core(g, xfer, s, r, toR, toS, h), up, InStep(g, s, r, toR, toS),
         s.pc = "W", toS # <<>>, NEW i, i \in Indices("D", Head(toS).seq),
         NEW z, z = Without(s, i), Enter(WindowLoop(z), Len(z.out))
  PROVE  InStep(g, s', r, toR', Tail(toS)) /\ s'.pc \in Busy
<1> DEFINE c == DataAt(g, s.f, s.out[i].pos)
           v == WindowLoop(z)
           ps == Entering(v, Len(z.out))
           o == RemoveAt(s.out, i)
<1>1. /\ Alive(s.pc) /\ s \in Senders(xfer) /\ Sessions(xfer, s, r, toR) /\ s.pc \in Busy /\ s.pc # "B"
  BY DEF Alive, Done, Core, Types, Busy
<1>2. SenderShape(g, s) /\ s.out \in Seq(Entries)
  BY <1>1, SenderFields DEF Core
<1>3. i \in DOMAIN s.out /\ s.out[i].seq = Head(toS).seq
  BY DEF Indices
<1>4. OutShape(g, s) /\ s.off \in Skip(g, s.f) .. g.chunks /\ s.seq = DataAt(g, s.f, s.off + 1) % Numbers
  BY <1>2 DEF SenderShape, SendNext
<1>5. Unacked(g, s) = {DataAt(g, s.f, s.out[j].pos) : j \in DOMAIN s.out}
      /\ SendNext(g, s) = DataAt(g, s.f, s.off + 1)
  BY DEF Unacked, SendNext
<1>6. Head(toS).seq = c % Numbers /\ c \in Unacked(g, s)
  BY <1>3, <1>4, <1>5 DEF OutShape
<1>7. /\ o \in Seq(Entries)
      /\ \A j \in DOMAIN o : \/ j < i /\ j \in DOMAIN s.out /\ o[j] = s.out[j]
                             \/ j >= i /\ j + 1 \in DOMAIN s.out /\ o[j] = s.out[j + 1]
  BY <1>2, <1>3, RemoveAtFacts
<1> HIDE DEF o
<1>8. /\ z \in Senders(xfer) /\ z.pc = "W" /\ z.f = s.f /\ z.off = s.off /\ z.seq = s.seq
      /\ z.sess = s.sess /\ z.out = o
  <2>1. z = [s EXCEPT !.out = o]
    BY DEF o, Without
  <2> QED
    BY <1>1, <1>7, <2>1 DEF Senders
<1>9. ASSUME NEW j \in DOMAIN o
      PROVE  \E a \in DOMAIN s.out : o[j] = s.out[a] /\ a # i /\ ((a = j /\ j < i) \/ (a = j + 1 /\ j >= i))
  <2>1. \/ j < i /\ j \in DOMAIN s.out /\ o[j] = s.out[j]
        \/ j >= i /\ j + 1 \in DOMAIN s.out /\ o[j] = s.out[j + 1]
    BY <1>7
  <2>2. i \in Nat /\ j \in Nat
    BY <1>2, <1>3, <1>7
  <2> QED
    BY <2>1, <2>2
<1>10. Ready(g, z)
  <2>1. OutShape(g, z)
    <3> SUFFICES ASSUME NEW j \in DOMAIN z.out
                 PROVE  /\ z.out[j].pos \in Skip(g, z.f) + 1 .. z.off
                        /\ z.out[j].seq = DataAt(g, z.f, z.out[j].pos) % Numbers
                        /\ z.off + 1 <= z.out[j].pos + z.sess.window
                        /\ \A n \in DOMAIN z.out : z.out[j].pos = z.out[n].pos => j = n
      BY DEF OutShape
    <3>1. PICK a \in DOMAIN s.out : o[j] = s.out[a] /\ ((a = j /\ j < i) \/ (a = j + 1 /\ j >= i))
      BY <1>8, <1>9
    <3>2. ASSUME NEW n \in DOMAIN z.out, z.out[j].pos = z.out[n].pos
          PROVE  j = n
      <4>1. PICK b \in DOMAIN s.out : o[n] = s.out[b] /\ ((b = n /\ n < i) \/ (b = n + 1 /\ n >= i))
        BY <1>8, <1>9
      <4>2. a = b
        BY <1>4, <1>8, <3>1, <3>2, <4>1 DEF OutShape
      <4>3. i \in Nat /\ j \in Nat /\ n \in Nat
        BY <1>2, <1>3, <1>7, <1>8
      <4> QED
        BY <3>1, <4>1, <4>2, <4>3
    <3> QED
      BY <1>4, <1>8, <3>1, <3>2 DEF OutShape
  <2>2. ~s.sess.stream /\ 2 * s.sess.window < Numbers
    <3>1. s.sess.window \in Nat /\ r.sess.window \in Nat /\ Numbers \in Nat
      BY <1>1, SenderFields, CapsFacts, CoreFacts, NumbersType
    <3> QED
      BY <1>1, <3>1 DEF Sessions
  <2> QED
    BY <1>4, <1>8, <2>1, <2>2 DEF Ready
<1>11. /\ Proceeds(g, z, v, ps, DataAt(g, z.f, z.off + 1))
       /\ Exactly(g, v, ps, DataAt(g, z.f, z.off + 1))
       /\ v.pc \in {"W", "Z"}
       /\ \A m \in Unacked(g, v) : \/ \E j \in DOMAIN z.out : m = DataAt(g, z.f, z.out[j].pos)
                                   \/ m >= DataAt(g, z.f, z.off + 1)
  BY <1>8, <1>10, WindowLoopGoes
<1>12. r.pc = "run"
  BY <1>1 DEF InStep
<1>13. s' = v /\ toR' = toR \o ps
  BY <1>12 DEF Enter, WriteToR, Done
<1> HIDE DEF v, ps, c
<1>14. Proceeds(g, s, v, ps, SendNext(g, s)) /\ Exactly(g, v, ps, SendNext(g, s))
  BY <1>5, <1>8, <1>11 DEF Proceeds
<1>15. ASSUME NEW m \in Unacked(g, v)
       PROVE  m >= SendNext(g, s) \/ (m \in Unacked(g, s) /\ Head(toS).seq # m % Numbers)
  <2>1. CASE m >= DataAt(g, z.f, z.off + 1)
    BY <1>5, <1>8, <2>1
  <2>2. CASE \E j \in DOMAIN z.out : m = DataAt(g, z.f, z.out[j].pos)
    <3>1. PICK j \in DOMAIN o : m = DataAt(g, s.f, o[j].pos)
      BY <1>8, <2>2
    <3>2. PICK a \in DOMAIN s.out : o[j] = s.out[a] /\ a # i
      BY <1>9
    <3>3. m = DataAt(g, s.f, s.out[a].pos)
      BY <3>1, <3>2
    <3>4. m \in Unacked(g, s)
      BY <1>5, <3>3
    <3>5. m # c
      <4>1. s.out[a].pos # s.out[i].pos
        BY <1>3, <1>4, <3>2 DEF OutShape
      <4>2. s.out[a].pos \in Int /\ s.out[i].pos \in Int
        <5>1. s.out[a] \in Entries /\ s.out[i] \in Entries
          BY <1>2, <1>3
        <5> QED
          BY <5>1 DEF Entries
      <4>3. g \in Plans /\ s.f \in Nat \ {0}
        BY <1>1, SenderFields DEF PlanFor
      <4>4. First(g, s.f) \in Int /\ g.att \in Int /\ Skip(g, s.f) \in Int
        <5>1. First(g, s.f) \in Nat
          BY <4>3, FirstFacts
        <5>2. g.att \in Nat /\ g.chunks \in Nat /\ Skip(g, s.f) \in 0..g.chunks
          BY <4>3, PlanFacts
        <5> QED
          BY <5>1, <5>2
      <4> QED
        BY <3>3, <4>1, <4>2, <4>4 DEF c, DataAt
    <3>6. /\ m \in Nat /\ c \in Nat /\ m - c < Numbers /\ c - m < Numbers
      <4>1. /\ Window(SendNext(g, s), Unacked(g, s), r.sess.window)
            /\ r.sess.window \in Nat /\ 2 * r.sess.window < Numbers /\ Numbers \in Nat
        BY <1>1, CoreFacts, NumbersType
      <4>2. /\ m \in Nat /\ m < SendNext(g, s) /\ SendNext(g, s) <= m + r.sess.window
            /\ c \in Nat /\ c < SendNext(g, s) /\ SendNext(g, s) <= c + r.sess.window
            /\ SendNext(g, s) \in Nat
        BY <1>6, <3>4, <4>1 DEF Window
      <4> QED
        BY <4>1, <4>2
    <3>7. c % Numbers # m % Numbers
      BY <3>5, <3>6, SameNumber
    <3> QED
      BY <1>6, <3>4, <3>7
  <2> QED
    BY <1>11, <2>1, <2>2
<1>16. InStep(g, v, r, toR \o ps, Tail(toS))
  BY <1>1, <1>14, <1>15, EnterInStep
<1> QED
  BY <1>11, <1>13, <1>16 DEF Busy

\* What the sender reads next on a clean line.
LEMMA NextAnswer ==
  ASSUME NEW g, NEW x, PlanFor(g, x), NEW u, NEW t, NEW qR, NEW qS, NEW h,
         Core(g, x, u, t, qR, qS, h), Smooth(g, x, u, t, qR, qS), Alive(u.pc), qS # <<>>,
         NEW p, p = Head(qS)
  PROVE  /\ ~Cancels(p) /\ p.k # "E"
         /\ u.pc # "poke" => p.k = "Y" /\ Readable(p, u.sess.chk)
<1>1. u \in Senders(x) /\ Sessions(x, u, t, qR) /\ qS \in Seq(ToS)
  BY DEF Core, Types
<1>2. CASE u.pc = "poke"
  <2>1. qS = <<Reply("N", 0, 1)>>
    BY <1>2 DEF Smooth, Starting
  <2>2. p = Reply("N", 0, 1)
    BY <2>1
  <2> QED
    BY <1>2, <2>2 DEF Reply, Packet, Cancels
<1>3. CASE u.pc = "S"
  <2>1. qS = <<Packet("Y", 0, 1, 0, 0, t.sess)>> /\ u.sess = Classic
    BY <1>1, <1>3 DEF Smooth, Starting, Sessions
  <2>2. p = Packet("Y", 0, 1, 0, 0, t.sess)
    BY <2>1
  <2> QED
    BY <1>3, <2>1, <2>2 DEF Packet, Cancels, Readable, Classic
<1>4. CASE u.pc \in Busy
  <2>1. InStep(g, u, t, qR, qS) /\ 1 \in DOMAIN qS /\ p = qS[1]
    BY <1>1, <1>4, TailFacts DEF Smooth
  <2>2. p.k = "Y" /\ p.ok /\ p.chk = u.sess.chk
    BY <2>1 DEF InStep, PlainAcks
  <2> QED
    BY <2>2 DEF Cancels, Readable
<1> QED
  BY <1>1, <1>2, <1>3, <1>4, SenderFields DEF Busy, StopAndWait, Alive

LEMMA SenderReplySmooth ==
  ASSUME xfer \in Transfers, NEW g, g = PlanNow(xfer, s, r), NEW h, Core(g, xfer, s, r, toR, toS, h), up,
         Smooth(g, xfer, s, r, toR, toS), SenderReply,
         NEW g2, g2 = PlanNow(xfer, s', r), NEW h2, Core(g2, xfer, s', r, toR', Tail(toS), h2)
  PROVE  Smooth(g2, xfer, s', r, toR', Tail(toS))
<1>1. /\ s \in Senders(xfer) /\ s' \in Senders(xfer) /\ r \in Receivers /\ toS \in Seq(ToS)
      /\ s.pc \in StopAndWait /\ Alive(s.pc)
  BY DEF Core, Types, SenderReply, StopAndWait, Alive, Done
<1>2. PlanFor(g, xfer) /\ (s.sess.attrs <=> g.att = 1) /\ PlanFor(g2, xfer)
  BY <1>1, PlanNowFits
<1>3. PICK p \in Range(toS) :
        /\ SenderReads(p) /\ Readable(p, s.sess.chk) /\ p.k # "E"
        /\ \/ /\ Acknowledges(p)
              /\ LET t == Acked(s, p) IN
                 IF t.pc = "ok" THEN s' = t /\ UNCHANGED toR ELSE Enter(t, 0)
           \/ Refuses(p) /\ ~Acknowledges(p) /\ Resend(FALSE)
           \/ p.k = "Y" /\ ~Acknowledges(p) /\ UNCHANGED <<s, toR>>
           \/ p.k = "N" /\ ~Acknowledges(p) /\ ~Refuses(p) /\ SenderFails(FALSE)
  BY DEF SenderReply
<1>4. toS # <<>> /\ p = Head(toS)
  BY <1>3 DEF SenderReads
<1>5. p.k = "Y"
  BY <1>1, <1>2, <1>4, NextAnswer DEF StopAndWait
<1>6. \/ /\ Acknowledges(p)
         /\ IF Acked(s, p).pc = "ok" THEN s' = Acked(s, p) /\ UNCHANGED toR ELSE Enter(Acked(s, p), 0)
      \/ ~Acknowledges(p) /\ UNCHANGED <<s, toR>>
  BY <1>3, <1>5 DEF Refuses
<1>7. r.pc \in {"init", "run", "ok"} /\ r.buf = {}
  BY DEF Smooth
<1>8. CASE s.pc = "S"
  <2>1. Acked(s, p).pc = "F" /\ Acknowledges(p)
    BY <1>1, <1>5, <1>8 DEF Acked, Senders, Acknowledges
  <2>2. Enter(Acked(s, Head(toS)), 0)
    BY <1>4, <1>6, <2>1
  <2>3. Starting(xfer, s, r, toR, toS)
    BY <1>8 DEF Smooth
  <2>4. InStep(g2, s', r, toR', Tail(toS)) /\ s'.pc = "F"
    BY <1>2, <1>4, <1>8, <2>2, <2>3, InitAckSmooth
  <2> QED
    BY <1>7, <2>4 DEF Smooth
<1>9. CASE s.pc # "S"
  <2>1. s.pc \in Busy /\ InStep(g, s, r, toR, toS)
    BY <1>1, <1>9 DEF Busy, StopAndWait, Smooth
  <2>2. CASE ~Acknowledges(p) /\ UNCHANGED <<s, toR>>
    <3>1. p.seq # s.seq
      BY <1>5, <2>2 DEF Acknowledges
    <3>2. Unacked(g, s) = {Waits(g, s)} /\ s.seq = Waits(g, s) % Numbers
      <4>1. SenderShape(g, s)
        BY <1>1 DEF Core
      <4> QED
        BY <1>1, <4>1 DEF SenderShape, Unacked, StopAndWait
    <3>3. InStep(g, s, r, toR, Tail(toS))
      BY <1>1, <1>4, <2>1, <3>1, <3>2, DropInStep
    <3>4. g2 = g /\ s' = s /\ toR' = toR
      BY <2>2
    <3> QED
      BY <1>7, <2>1, <3>3, <3>4 DEF Smooth, Busy
  <2>3. CASE Acknowledges(p) /\ s.pc = "B"
    <3>1. s'.pc = "ok"
      <4>1. Acked(s, p).pc = "ok"
        BY <1>1, <2>3 DEF Acked, Senders
      <4> QED
        BY <1>6, <2>3, <4>1
    <3> QED
      BY <1>7, <3>1 DEF Smooth, Busy
  <2>4. CASE Acknowledges(p) /\ s.pc # "B"
    <3>1. s.pc \in {"F", "A", "D", "Z"}
      BY <1>1, <1>9, <2>4 DEF StopAndWait
    <3>2. IF Acked(s, Head(toS)).pc = "ok" THEN s' = Acked(s, Head(toS)) /\ UNCHANGED toR
          ELSE Enter(Acked(s, Head(toS)), 0)
      BY <1>4, <1>6, <2>4
    <3>3. InStep(g, s', r, toR', Tail(toS)) /\ s'.pc \in Busy
      BY <1>2, <1>4, <2>1, <2>4, <3>1, <3>2, AckSmooth
    <3>4. g2 = g
      BY <2>1, <3>3 DEF InStep, PlanNow
    <3> QED
      BY <1>7, <3>3, <3>4 DEF Smooth, Busy
  <2> QED
    BY <1>6, <2>2, <2>3, <2>4
<1> QED
  BY <1>8, <1>9

LEMMA SenderWindowSmooth ==
  ASSUME xfer \in Transfers, NEW g, g = PlanNow(xfer, s, r), NEW h, Core(g, xfer, s, r, toR, toS, h), up,
         Smooth(g, xfer, s, r, toR, toS), SenderWindow,
         NEW g2, g2 = PlanNow(xfer, s', r)
  PROVE  Smooth(g2, xfer, s', r, toR', Tail(toS))
<1>1. /\ s \in Senders(xfer) /\ r \in Receivers /\ toS \in Seq(ToS) /\ s.pc = "W"
      /\ s.out \in Seq(Entries) /\ Alive(s.pc) /\ s.pc \in Busy
  BY SenderFields DEF Core, Types, SenderWindow, Alive, Done, Busy
<1>2. PlanFor(g, xfer) /\ InStep(g, s, r, toR, toS)
  BY <1>1, PlanNowFits DEF Smooth
<1>3. PICK p \in Range(toS) :
        /\ SenderReads(p) /\ ~Cancels(p)
        /\ LET hit == IF Readable(p, s.sess.chk) THEN Indices("D", p.seq) ELSE {} IN
           \/ /\ Readable(p, s.sess.chk) /\ p.k = "Y" /\ hit # {}
              /\ LET t == [s EXCEPT !.out = RemoveAt(@, Lowest(@, hit))]
                 IN Enter(WindowLoop(t), Len(t.out))
           \/ Readable(p, s.sess.chk) /\ p.k = "N" /\ hit # {} /\ Retransmit(hit)
           \/ (Readable(p, s.sess.chk) => p.k # "E" /\ hit = {}) /\ UNCHANGED <<s, toR>>
  BY DEF SenderWindow
<1>4. toS # <<>> /\ p = Head(toS)
  BY <1>3 DEF SenderReads
<1>5. p.k = "Y" /\ Readable(p, s.sess.chk)
  BY <1>1, <1>2, <1>4, NextAnswer
<1> DEFINE hit == Indices("D", p.seq)
           z == Without(s, Lowest(s.out, hit))
<1>6. hit \subseteq DOMAIN s.out
  BY DEF Indices
<1>7. \/ hit # {} /\ Enter(WindowLoop(z), Len(z.out))
      \/ hit = {} /\ UNCHANGED <<s, toR>>
  BY <1>3, <1>5 DEF Without
<1>8. r.pc \in {"init", "run", "ok"} /\ r.buf = {}
  BY DEF Smooth
<1>9. CASE hit # {} /\ Enter(WindowLoop(z), Len(z.out))
  <2> DEFINE i == Lowest(s.out, hit)
  <2>1. i \in hit
    BY <1>1, <1>6, <1>9, LowestIs
  <2>2. z = Without(s, i)
    OBVIOUS
  <2> HIDE DEF z, i
  <2>3. i \in Indices("D", Head(toS).seq)
    BY <1>4, <2>1
  <2>4. InStep(g, s', r, toR', Tail(toS)) /\ s'.pc \in Busy
    BY <1>1, <1>2, <1>4, <1>9, <2>2, <2>3, WindowAckSmooth
  <2>5. g2 = g
    BY <1>2, <2>4 DEF InStep, PlanNow
  <2> QED
    BY <1>8, <2>4, <2>5 DEF Smooth, Busy
<1>10. CASE hit = {} /\ UNCHANGED <<s, toR>>
  <2>1. ASSUME NEW m \in Unacked(g, s)
        PROVE  p.seq # m % Numbers
    <3>1. PICK i \in DOMAIN s.out : m = DataAt(g, s.f, s.out[i].pos)
      BY <1>1 DEF Unacked
    <3>2. s.out[i].seq = m % Numbers
      <4>1. OutShape(g, s)
        BY <1>1 DEF Core, SenderShape
      <4> QED
        BY <3>1, <4>1 DEF OutShape
    <3>3. s.out[i].k = "D"
      <4>1. s.out[i] \in Entries
        BY <1>1
      <4> QED
        BY <4>1 DEF Entries
    <3>4. i \notin Indices("D", p.seq)
      BY <1>10
    <3> QED
      BY <3>2, <3>3, <3>4 DEF Indices
  <2>2. InStep(g, s, r, toR, Tail(toS))
    BY <1>1, <1>2, <1>4, <2>1, DropInStep
  <2>3. g2 = g /\ s' = s /\ toR' = toR
    BY <1>10
  <2> QED
    BY <1>1, <1>8, <2>2, <2>3 DEF Smooth, Busy
<1> QED
  BY <1>7, <1>9, <1>10

LEMMA SenderReadSmooth ==
  ASSUME xfer \in Transfers, NEW g, g = PlanNow(xfer, s, r), NEW h, Core(g, xfer, s, r, toR, toS, h), up,
         Smooth(g, xfer, s, r, toR, toS), SenderRead,
         NEW g2, g2 = PlanNow(xfer, s', r), NEW h2, Core(g2, xfer, s', r, toR', Tail(toS), h2)
  PROVE  Smooth(g2, xfer, s', r, toR', Tail(toS))
<1>1. s \in Senders(xfer) /\ r \in Receivers
  BY DEF Core, Types
<1>2. PlanFor(g, xfer)
  BY <1>1, PlanNowFits
<1>3. toS # <<>> /\ Alive(s.pc)
  BY DEF SenderRead, SenderCancelled, SenderPeerError, SenderPoked, SenderReply, SenderUnreadable,
         SenderWindow, SenderStream, SenderReads, Alive
<1>4. PICK p : p = Head(toS)
  OBVIOUS
<1>5. /\ ~Cancels(p) /\ p.k # "E"
      /\ s.pc # "poke" => p.k = "Y" /\ Readable(p, s.sess.chk)
  BY <1>2, <1>3, <1>4, NextAnswer
<1>6. ~SenderCancelled /\ ~SenderPeerError /\ ~SenderUnreadable
  BY <1>4, <1>5 DEF SenderCancelled, SenderPeerError, SenderUnreadable, SenderReads, StopAndWait
<1>7. ~SenderStream
  BY <1>1, SenderFields DEF SenderStream, StopAndWait, Done
<1>8. CASE SenderPoked
  <2>1. s.pc = "poke" /\ Enter([s EXCEPT !.pc = "S"], 0)
    BY <1>8 DEF SenderPoked
  <2>2. Starting(xfer, s, r, toR, toS)
    BY <2>1 DEF Smooth
  <2>3. Starting(xfer, s', r, toR', <<>>) /\ s'.pc = "S"
    BY <1>2, <2>1, <2>2, PokeSmooth
  <2>4. Tail(toS) = <<>>
    <3>1. toS = <<Reply("N", 0, 1)>>
      BY <1>3, <2>1, <2>2 DEF Starting
    <3> QED
      BY <3>1
  <2> QED
    BY <2>3, <2>4 DEF Smooth, Busy
<1>9. CASE SenderReply
  BY <1>9, SenderReplySmooth
<1>10. CASE SenderWindow
  BY <1>10, SenderWindowSmooth
<1> QED
  BY <1>6, <1>7, <1>8, <1>9, <1>10 DEF SenderRead

\* What the receiver reads next, once Send-Init is past: the packet it expects.
LEMMA NextPacket ==
  ASSUME NEW g, NEW x, PlanFor(g, x), NEW u, NEW t, NEW qR, NEW qS, NEW h,
         Core(g, x, u, t, qR, qS, h), Smooth(g, x, u, t, qR, qS), t.pc = "run", qR # <<>>,
         NEW p, p = Head(qR)
  PROVE  /\ u.pc \in Busy /\ InStep(g, u, t, qR, qS) /\ p.k \in StopAndWait
         /\ Readable(p, t.sess.chk) /\ ~Cancels(p) /\ p.seq = t.exp
         /\ p.k = "B" => u.pc = "B"
<1>1. /\ u \in Senders(x) /\ qR \in Seq(ToR) /\ (u.pc = "ok" => t.pc = "ok")
      /\ ReceiverShape(g, t, h)
  BY DEF Core, Types, Alive, Done
<1>2. u.pc \in Busy
  <2>1. u.pc \notin {"poke", "S"}
    BY DEF Smooth, Starting
  <2>2. u.pc \notin Done
    BY <1>1 DEF Smooth, Done
  <2> QED
    BY <1>1, <2>1, <2>2, SenderFields DEF Busy, StopAndWait
<1>3. InStep(g, u, t, qR, qS) /\ InLine(g, u, t, qR) /\ 1 \in DOMAIN qR /\ p = qR[1]
  BY <1>1, <1>2, TailFacts DEF Smooth, InStep
<1>4. /\ Carries(p) /\ p.ok /\ p.chk = t.sess.chk /\ At(g, p) = Exp(g, t) + 1 - 1
      /\ p.k = "B" => u.pc = "B"
  BY <1>3 DEF InLine
<1>5. p.k \in StopAndWait /\ Readable(p, t.sess.chk) /\ ~Cancels(p)
  BY <1>4 DEF Carries, Readable, Cancels, StopAndWait
<1>6. p.seq = t.exp
  <2>1. p.seq = At(g, p) % Numbers
    BY <1>5, HeadPlace
  <2>2. Exp(g, t) + 1 - 1 = Exp(g, t)
    BY CoreFacts
  <2> QED
    BY <1>1, <1>4, <2>1, <2>2 DEF ReceiverShape
<1> QED
  BY <1>2, <1>3, <1>4, <1>5, <1>6

\* An expected packet is never refused: the batch is within its limit, and a file ends
\* with all the chunks it declared.
LEMMA NotRefused ==
  ASSUME NEW g, NEW x, NEW u, NEW t, NEW tb, NEW qR, NEW qR2, NEW qS, NEW h, NEW p,
         Taking(g, x, u, t, tb, qR, qR2, qS, h, p), x.files <= MaxBatchFiles
  PROVE  ~Refused(tb, p)
<1>1. /\ g \in Plans /\ t \in Receivers /\ t.pc \in {"run", "drain"} /\ FilesShape(g, t)
      /\ GoodPacket(g, p) /\ At(g, p) = Exp(g, t) /\ t.files \in Seq(FileRecords)
      /\ t.files # <<>> => FileShape(g, Len(t.files), LastFile(t), TRUE)
      /\ tb.files = t.files /\ g.files = x.files
  BY TakingFacts DEF Taking, SameButBuf, PlanFor
<1>2. LET n == Len(t.files)
          e == LastFile(t)
      IN /\ p.k \in {"F", "A", "D", "Z", "B"} /\ n \in Nat
         /\ p.k = "F" => n < g.files
         /\ p.k \in {"A", "D", "Z"} => n > 0
         /\ p.k = "Z" => e.len = g.chunks
  BY <1>1, ExpectedIs
<1>3. LastFile(tb) = LastFile(t)
  BY <1>1 DEF LastFile
<1>4. g.files \in Nat /\ MaxBatchFiles \in Nat
  BY <1>1, PlanFacts, KermitAssumption
<1>5. ~(p.k \in {"A", "D", "Z"} /\ tb.files = <<>>)
  <2>1. tb.files = <<>> => Len(t.files) = 0
    BY <1>1
  <2> QED
    BY <1>2, <2>1
<1>6. ~(p.k = "F" /\ Len(tb.files) >= MaxBatchFiles)
  BY <1>1, <1>2, <1>4
<1>7. ~(p.k = "Z" /\ tb.files # <<>> /\ LastFile(tb).len < LastFile(tb).decl)
  <2> SUFFICES ASSUME p.k = "Z", tb.files # <<>> PROVE ~(LastFile(t).len < LastFile(t).decl)
    BY <1>3
  <2>1. LastFile(t).len = g.chunks /\ LastFile(t).decl <= g.chunks
    BY <1>1, <1>2 DEF FileShape
  <2>2. LastFile(t).decl \in Int /\ g.chunks \in Int
    <3>1. LastFile(t) \in FileRecords
      BY <1>1 DEF LastFile
    <3>2. LastFile(t).decl \in Nat \cup {None}
      BY <3>1 DEF FileRecords
    <3>3. g.chunks \in Nat
      BY <1>1, PlanFacts
    <3> QED
      BY <3>2, <3>3 DEF None
  <2> QED
    BY <2>1, <2>2
<1> QED
  BY <1>5, <1>6, <1>7 DEF Refused

\* What a taken packet is answered with.
LEMMA TakenAnswer ==
  ASSUME NEW tb \in Receivers, ~tb.sess.stream, NEW p,
         \/ p.k = "F" /\ TakeFile(tb, p)
         \/ p.k = "A" /\ TakeAttributes(tb, p)
         \/ p.k = "D" /\ TakeData(tb, p)
         \/ p.k = "Z" /\ TakeEof(tb, p)
         \/ p.k = "B" /\ TakeBreak(tb, p)
  PROVE  \E y : /\ toS' = WriteToS(<<y>>) /\ y.k = "Y" /\ y.ok /\ y.seq = p.seq
                /\ y.chk = tb.sess.chk
<1>1. ASSUME NEW w, w.sess = tb.sess, toS' = WriteToS(<<Reply("Y", p.seq, w.sess.chk)>>)
      PROVE  \E y : /\ toS' = WriteToS(<<y>>) /\ y.k = "Y" /\ y.ok /\ y.seq = p.seq
                    /\ y.chk = tb.sess.chk
  <2>1. PICK y : y = Reply("Y", p.seq, tb.sess.chk)
    OBVIOUS
  <2>2. y.k = "Y" /\ y.ok /\ y.seq = p.seq /\ y.chk = tb.sess.chk
    BY <2>1 DEF Reply, Packet
  <2> QED
    BY <1>1, <2>1, <2>2
<1>2. CASE TakeFile(tb, p)
  <2> DEFINE w == [tb EXCEPT !.pend = ResumeOffset(tb, p.f),
                     !.files = Append(@, [f |-> p.f, len |-> 0, good |-> 0, decl |-> None, kept |-> FALSE])]
  <2>1. w.sess = tb.sess
    BY DEF Receivers
  <2>2. toS' = WriteToS(<<Reply("Y", p.seq, w.sess.chk)>>)
    BY <1>2 DEF TakeFile, Advanced, Answer
  <2> QED
    BY <1>1, <2>1, <2>2
<1>3. CASE TakeAttributes(tb, p)
  <2>1. PICK y : y = Packet("Y", p.seq, tb.sess.chk, 0, IF tb.pend <= p.pos THEN tb.pend ELSE 0, Classic)
    OBVIOUS
  <2>2. y.k = "Y" /\ y.ok /\ y.seq = p.seq /\ y.chk = tb.sess.chk
    BY <2>1 DEF Packet
  <2>3. toS' = WriteToS(<<y>>)
    BY <1>3, <2>1 DEF TakeAttributes, Answer
  <2> QED
    BY <2>2, <2>3
<1>4. CASE TakeData(tb, p)
  <2>1. PICK w : /\ w = [tb EXCEPT !.files[Len(tb.files)].len = @ + 1,
                     !.files[Len(tb.files)].good =
                       IF LastFile(tb).good = LastFile(tb).len /\ p.f = LastFile(tb).f
                          /\ p.pos = LastFile(tb).len + 1 THEN @ + 1 ELSE @]
    OBVIOUS
  <2>2. w.sess = tb.sess
    BY <2>1 DEF Receivers
  <2>3. Advanced(w, p)
    BY <1>4, <2>1 DEF TakeData
  <2>4. toS' = WriteToS(<<Reply("Y", p.seq, w.sess.chk)>>)
    BY <2>3 DEF Advanced, Answer
  <2> QED
    BY <1>1, <2>2, <2>4
<1>5. CASE TakeEof(tb, p)
  <2>1. PICK w : w = [tb EXCEPT !.files[Len(tb.files)].kept = TRUE]
    OBVIOUS
  <2>2. w.sess = tb.sess
    BY <2>1 DEF Receivers
  <2>3. toS' = WriteToS(<<Reply("Y", p.seq, w.sess.chk)>>)
    BY <1>5, <2>1 DEF TakeEof, Advanced, Answer
  <2> QED
    BY <1>1, <2>2, <2>3
<1>6. CASE TakeBreak(tb, p)
  <2>1. toS' = WriteToS(<<Reply("Y", p.seq, tb.sess.chk)>>)
    BY <1>6 DEF TakeBreak, Answer
  <2> QED
    BY <1>1, <2>1
<1> QED
  BY <1>2, <1>3, <1>4, <1>5, <1>6

\* The receiver takes the packet it expects, and answers it.
LEMMA TakenInStep ==
  ASSUME NEW g, NEW x, PlanFor(g, x), NEW u, NEW t, NEW t2, NEW qR, NEW qS, NEW h, NEW p, NEW y,
         Core(g, x, u, t, qR, qS, h), InStep(g, u, t, qR, qS), u.pc \in Busy, t.pc = "run", qR # <<>>,
         p = Head(qR), p.seq = t.exp, t2.sess = t.sess, p.k \in StopAndWait,
         \/ t2.pc = "run" /\ Exp(g, t2) = Exp(g, t) + 1
         \/ t2.pc = "ok" /\ u.pc = "B" /\ p.k = "B",
         y \in ToS, y.k = "Y", y.ok, y.seq = p.seq, y.chk = t.sess.chk
  PROVE  InStep(g, u, t2, Tail(qR), qS \o <<y>>)
<1>1. /\ qR \in Seq(ToR) /\ qS \in Seq(ToS) /\ u \in Senders(x) /\ Alive(u.pc) /\ Exp(g, t) \in Nat
      /\ SenderShape(g, u) /\ ReceiverShape(g, t, h) /\ <<y>> \in Seq(ToS)
      /\ Window(SendNext(g, u), Unacked(g, u), t.sess.window)
  BY CoreFacts DEF Core, Types, Alive, Done, Busy
<1>2. /\ Tail(qR) \in Seq(ToR) /\ Len(Tail(qR)) = Len(qR) - 1
      /\ \A j \in DOMAIN Tail(qR) : Tail(qR)[j] = qR[j + 1] /\ j + 1 \in DOMAIN qR
  BY <1>1, TailFacts
<1>3. /\ qS \o <<y>> \in Seq(ToS) /\ Len(qS \o <<y>>) = Len(qS) + 1
      /\ \A j \in DOMAIN qS : j \in DOMAIN (qS \o <<y>>) /\ (qS \o <<y>>)[j] = qS[j]
      /\ Len(qS) + 1 \in DOMAIN (qS \o <<y>>) /\ (qS \o <<y>>)[Len(qS) + 1] = y
      /\ \A j \in DOMAIN (qS \o <<y>>) : j \in DOMAIN qS \/ j = Len(qS) + 1
  BY <1>1
<1>4. /\ DOMAIN Tail(qR) = 1..Len(Tail(qR)) /\ Len(qR) \in Nat /\ DOMAIN qR = 1..Len(qR)
  BY <1>1, <1>2, DomainFacts
<1>5. PlainAcks(qS \o <<y>>, t2.sess.chk)
  BY <1>3 DEF InStep, PlainAcks
<1>6. y.seq = Exp(g, t) % Numbers
  BY <1>1 DEF ReceiverShape
<1>7. Acks(qS \o <<y>>, Exp(g, t))
  BY <1>3, <1>6 DEF Acks
<1>8. ASSUME NEW m \in Unacked(g, u), m < Exp(g, t) PROVE Acks(qS \o <<y>>, m)
  <2>1. PICK j \in DOMAIN qS : qS[j].seq = m % Numbers
    BY <1>8 DEF InStep, Acks
  <2> QED
    BY <1>3, <2>1 DEF Acks
<1>9. CASE t2.pc = "run" /\ Exp(g, t2) = Exp(g, t) + 1
  <2>1. InLine(g, u, t, qR)
    BY DEF InStep
  <2>2. InLine(g, u, t2, Tail(qR))
    <3>1. SendNext(g, u) = Exp(g, t2) + Len(Tail(qR))
      BY <1>1, <1>2, <1>4, <1>9, <2>1 DEF InLine
    <3>2. ASSUME NEW j \in DOMAIN Tail(qR)
          PROVE  /\ Carries(Tail(qR)[j]) /\ Tail(qR)[j].ok /\ Tail(qR)[j].chk = t2.sess.chk
                 /\ At(g, Tail(qR)[j]) = Exp(g, t2) + j - 1
                 /\ Tail(qR)[j].k = "B" => u.pc = "B"
      <4>1. PICK i \in DOMAIN qR : i = j + 1 /\ Tail(qR)[j] = qR[i]
        BY <1>2
      <4>2. /\ Carries(qR[i]) /\ qR[i].ok /\ qR[i].chk = t.sess.chk
            /\ At(g, qR[i]) = Exp(g, t) + i - 1
            /\ qR[i].k = "B" => u.pc = "B"
        BY <2>1 DEF InLine
      <4>3. Exp(g, t) + i - 1 = Exp(g, t2) + j - 1
        BY <1>1, <1>4, <1>9, <4>1
      <4> QED
        BY <4>1, <4>2, <4>3
    <3> QED
      BY <3>1, <3>2 DEF InLine
  <2>3. ASSUME NEW m \in Unacked(g, u), m < Exp(g, t2)
        PROVE  Acks(qS \o <<y>>, m)
    <3>1. m \in Nat
      BY <1>1 DEF Window
    <3>2. m < Exp(g, t) \/ m = Exp(g, t)
      BY <1>1, <1>9, <2>3, <3>1
    <3> QED
      BY <1>7, <1>8, <3>2
  <2> QED
    BY <1>5, <1>9, <2>2, <2>3 DEF InStep
<1>10. CASE t2.pc = "ok" /\ u.pc = "B" /\ p.k = "B"
  <2>1. Unacked(g, u) = {BreakAt(g)}
    BY <1>10 DEF Unacked, Waits, Place
  <2>2. y.seq = BreakAt(g) % Numbers
    <3>1. p.seq = At(g, p) % Numbers
      BY HeadPlace
    <3>2. At(g, p) = BreakAt(g)
      BY <1>10 DEF At, Place
    <3> QED
      BY <3>1, <3>2
  <2>3. Acks(qS \o <<y>>, BreakAt(g))
    BY <1>3, <2>2 DEF Acks
  <2> QED
    BY <1>5, <1>10, <2>1, <2>3 DEF InStep
<1> QED
  BY <1>9, <1>10

LEMMA ReceiverPacketSmooth ==
  ASSUME xfer \in Transfers, xfer.files <= MaxBatchFiles, NEW g, g = PlanNow(xfer, s, r), NEW h,
         Core(g, xfer, s, r, toR, toS, h), up, Smooth(g, xfer, s, r, toR, toS), ReceiverPacket
  PROVE  Smooth(g, xfer, s, r', Tail(toR), toS')
<1>1. /\ s \in Senders(xfer) /\ r \in Receivers /\ toR \in Seq(ToR) /\ r.pc = "run" /\ toS \in Seq(ToS)
      /\ (s.sess.attrs => r.sess.attrs) /\ ~r.sess.stream /\ Alive(r.pc)
  BY DEF Core, Types, Sessions, ReceiverPacket, Alive, Done
<1>2. PICK p \in Range(toR) : ReceiverReads(p) /\ Readable(p, r.sess.chk) /\ Handle(Refreshed(r), p)
  BY DEF ReceiverPacket
<1>3. toR # <<>> /\ p = Head(toR)
  BY <1>2 DEF ReceiverReads
<1>4. PlanFor(g, xfer) /\ Resumes(g, xfer, r.sess)
  BY <1>1, PlanNowFits, PlanResumes
<1>5. /\ s.pc \in Busy /\ InStep(g, s, r, toR, toS) /\ p.k \in StopAndWait
      /\ p.seq = r.exp /\ (p.k = "B" => s.pc = "B")
  BY <1>1, <1>3, <1>4, NextPacket
<1>6. PICK t : t = Refreshed(r)
  OBVIOUS
<1>7. /\ Core(g, xfer, s, t, toR, toS, h) /\ t \in Receivers /\ Alike(r, t) /\ t.idle = r.idle
      /\ t.replay.seq # None /\ t.replay.pos # 0 => Exp(g, r) <= 2 + r.sess.window
  BY <1>1, <1>4, <1>6, RefreshedKeeps
<1>8. /\ t.pc = "run" /\ t.exp = r.exp /\ t.sess = r.sess /\ t.buf = {} /\ Exp(g, t) = Exp(g, r)
  <2>1. Exp(g, t) = Exp(g, r)
    BY <1>7, AlikeFacts
  <2>2. r.buf = {}
    BY DEF Smooth
  <2> QED
    BY <1>1, <1>7, <2>1, <2>2 DEF Alike
<1>9. Taking(g, xfer, s, t, t, toR, Tail(toR), toS, h, p)
  BY <1>3, <1>4, <1>5, <1>7, <1>8 DEF Taking, SameButBuf, Takes
<1>10. ~Refused(t, p)
  BY <1>9, NotRefused
<1>11. \/ p.k = "F" /\ TakeFile(t, p)
       \/ p.k = "A" /\ TakeAttributes(t, p)
       \/ p.k = "D" /\ TakeData(t, p)
       \/ p.k = "Z" /\ TakeEof(t, p)
       \/ p.k = "B" /\ TakeBreak(t, p)
  <2>1. Handle(t, p) /\ p.k # "E" /\ p.seq = t.exp
    BY <1>2, <1>5, <1>6, <1>8 DEF StopAndWait
  <2> QED
    BY <1>10, <2>1 DEF Handle
<1>12. PICK y : /\ toS' = WriteToS(<<y>>) /\ y.k = "Y" /\ y.ok /\ y.seq = p.seq /\ y.chk = r.sess.chk
  <2>1. ~t.sess.stream
    BY <1>1, <1>8
  <2>2. \E y : /\ toS' = WriteToS(<<y>>) /\ y.k = "Y" /\ y.ok /\ y.seq = p.seq
               /\ y.chk = t.sess.chk
    BY <1>7, <1>11, <2>1, TakenAnswer
  <2> QED
    BY <1>8, <2>2
<1>13. toS' = toS \o <<y>>
  BY <1>5, <1>12 DEF WriteToS, Busy, Done
<1>14. Holds(g, xfer, s, r', Tail(toR), toS')
  <2>1. Resumes(g, xfer, t.sess)
    BY <1>4, <1>8
  <2> QED
    BY <1>9, <1>10, <1>11, <2>1, ExpectedKeeps
<1>15. y \in ToS
  <2>1. toS \o <<y>> \in Seq(ToS)
    BY <1>13, <1>14 DEF Holds, Core, Types
  <2>2. Len(toS) + 1 \in DOMAIN (toS \o <<y>>) /\ (toS \o <<y>>)[Len(toS) + 1] = y
    BY <1>1
  <2> QED
    BY <2>1, <2>2
<1>16. CASE p.k # "B"
  <2>1. OneMore(g, t, t, r')
    <3>1. Resumes(g, xfer, t.sess)
      BY <1>4, <1>8
    <3>2. CASE p.k = "F" /\ TakeFile(t, p)
      BY <1>9, <1>10, <3>1, <3>2, TakeFileKeeps
    <3>3. CASE p.k = "A" /\ TakeAttributes(t, p)
      BY <1>9, <3>3, TakeAttributesKeeps
    <3>4. CASE p.k = "D" /\ TakeData(t, p)
      BY <1>9, <3>4, TakeDataKeeps
    <3>5. CASE p.k = "Z" /\ TakeEof(t, p)
      BY <1>9, <3>5, TakeEofKeeps
    <3> QED
      BY <1>11, <1>16, <3>2, <3>3, <3>4, <3>5
  <2>2. PICK v : Moved(g, t, t, v) /\ r' = Advance(v)
    BY <2>1 DEF OneMore
  <2>3. v \in Receivers /\ v.pc = "run" /\ v.sess = r.sess /\ v.buf = {} /\ Exp(g, v) = Exp(g, r) + 1
    BY <1>8, <2>2 DEF Moved
  <2>4. r'.pc = "run" /\ r'.sess = r.sess /\ r'.buf = {} /\ r'.files = v.files
    BY <2>2, <2>3, AdvanceIs
  <2>5. Exp(g, r') = Exp(g, r) + 1
    BY <2>3, <2>4 DEF Exp, LastFile
  <2>6. InStep(g, s, r', Tail(toR), toS \o <<y>>)
    BY <1>1, <1>3, <1>4, <1>5, <1>12, <1>15, <2>4, <2>5, TakenInStep
  <2> QED
    BY <1>5, <1>13, <2>4, <2>6 DEF Smooth, Busy
<1>17. CASE p.k = "B"
  <2>1. TakeBreak(t, p)
    BY <1>11, <1>17
  <2>2. r' = [t EXCEPT !.pc = "ok"]
    BY <2>1 DEF TakeBreak, Answer
  <2>3. r'.pc = "ok" /\ r'.sess = r.sess /\ r'.buf = {}
    BY <1>7, <1>8, <2>2 DEF Receivers
  <2>4. InStep(g, s, r', Tail(toR), toS \o <<y>>)
    BY <1>1, <1>3, <1>4, <1>5, <1>12, <1>15, <1>17, <2>3, TakenInStep
  <2> QED
    BY <1>5, <1>13, <2>3, <2>4 DEF Smooth, Busy
<1> QED
  BY <1>16, <1>17

LEMMA SendInitSmooth ==
  ASSUME xfer \in Transfers, NEW g, g = PlanNow(xfer, s, r), NEW h,
         Core(g, xfer, s, r, toR, toS, h), up, Smooth(g, xfer, s, r, toR, toS), ReceiverSendInit,
         NEW g2
  PROVE  Smooth(g2, xfer, s, r', Tail(toR), toS')
<1>1. s \in Senders(xfer) /\ r \in Receivers /\ r.pc = "init" /\ (s.pc = "ok" => r.pc = "ok")
  BY DEF Core, Types, ReceiverSendInit
<1>2. s.pc \in {"poke", "S"}
  <2>1. s.pc \notin Busy
    BY <1>1 DEF Smooth, InStep
  <2>2. s.pc \notin Done
    BY <1>1 DEF Smooth, Done
  <2> QED
    BY <1>1, <2>1, <2>2, SenderFields DEF Busy, StopAndWait
<1>3. PICK p \in Range(toR) :
       /\ ReceiverReads(p)
       /\ IF Readable(p, 1) /\ p.k = "S"
          THEN LET sess == intersect_capabilities(xfer.theirs, p.caps)
                   ack == Packet("Y", p.seq, 1, 0, 0, sess)
               IN Answer([r EXCEPT !.pc = "run", !.exp = Succ(p.seq), !.sess = sess, !.replay = ack],
                         <<ack>>)
          ELSE ReceiverFails(<<>>)
  BY DEF ReceiverSendInit
<1>4. toR # <<>> /\ p = Head(toR)
  BY <1>3 DEF ReceiverReads
<1>5. /\ s.pc = "S" /\ s.ours = xfer.ours /\ toR = <<Packet("S", 0, 1, 0, 0, xfer.ours)>> /\ toS = <<>>
  BY <1>1, <1>2, <1>4 DEF Smooth, Starting
<1>6. p = Packet("S", 0, 1, 0, 0, xfer.ours) /\ Tail(toR) = <<>>
  BY <1>4, <1>5
<1>7. Readable(p, 1) /\ p.k = "S" /\ p.caps = xfer.ours /\ p.seq = 0
  BY <1>6 DEF Readable, Packet
<1> DEFINE e == intersect_capabilities(xfer.theirs, xfer.ours)
           y == Packet("Y", 0, 1, 0, 0, e)
<1>8. Answer([r EXCEPT !.pc = "run", !.exp = Succ(p.seq), !.sess = e, !.replay = y], <<y>>)
  BY <1>3, <1>7
<1> HIDE DEF e, y
<1>9. r' = [r EXCEPT !.pc = "run", !.exp = Succ(p.seq), !.sess = e, !.replay = y] /\ toS' = WriteToS(<<y>>)
  BY <1>8 DEF Answer
<1>10. r'.pc = "run" /\ r'.sess = e /\ r'.buf = {}
  BY <1>1, <1>9 DEF Receivers, Smooth
<1>11. toS' = <<y>>
  <2>1. toS' = toS \o <<y>>
    BY <1>5, <1>9 DEF WriteToS, Done
  <2> QED
    BY <1>5, <2>1
<1>12. toS' = <<Packet("Y", 0, 1, 0, 0, r'.sess)>>
  BY <1>10, <1>11 DEF y
<1>13. Starting(xfer, s, r', Tail(toR), toS')
  BY <1>5, <1>6, <1>10, <1>12 DEF Starting, e
<1> QED
  BY <1>5, <1>10, <1>13 DEF Smooth, Busy

LEMMA ReceiverReadSmooth ==
  ASSUME xfer \in Transfers, xfer.files <= MaxBatchFiles, NEW g, g = PlanNow(xfer, s, r), NEW h,
         Core(g, xfer, s, r, toR, toS, h), up, Smooth(g, xfer, s, r, toR, toS), ReceiverRead
  PROVE  /\ Smooth(PlanNow(xfer, s, r'), xfer, s, r', toR', toS')
         /\ xfer' = xfer /\ s' = s /\ up' = up /\ faults' = faults
<1>1. s \in Senders(xfer) /\ r \in Receivers
  BY DEF Core, Types
<1>2. PlanFor(g, xfer)
  BY <1>1, PlanNowFits
<1>3. ~ReceiverDrain
  BY DEF ReceiverDrain, Smooth
<1>4. ~ReceiverCancelled /\ ~ReceiverUnreadable
  <2> SUFFICES ASSUME r.pc = "run", NEW p, ReceiverReads(p)
               PROVE  ~Cancels(p) /\ Readable(p, r.sess.chk)
    BY DEF ReceiverCancelled, ReceiverUnreadable
  <2>1. toR # <<>> /\ p = Head(toR)
    BY DEF ReceiverReads
  <2> QED
    BY <1>2, <2>1, NextPacket
<1>5. CASE ReceiverSendInit
  <2>1. toR' = Tail(toR) /\ xfer' = xfer /\ s' = s /\ up' = up /\ faults' = faults
    BY <1>5 DEF ReceiverSendInit, ReceiverTook
  <2>2. Smooth(PlanNow(xfer, s, r'), xfer, s, r', Tail(toR), toS')
    BY <1>5, SendInitSmooth
  <2> QED
    BY <2>1, <2>2
<1>6. CASE ReceiverPacket
  <2>1. toR' = Tail(toR) /\ xfer' = xfer /\ s' = s /\ up' = up /\ faults' = faults
    BY <1>6 DEF ReceiverPacket, ReceiverTook
  <2>2. Smooth(g, xfer, s, r', Tail(toR), toS')
    BY <1>6, ReceiverPacketSmooth
  <2>3. PlanNow(xfer, s, r') = g
    <3>1. ReceiverKept(g)
      BY <1>6, PacketKeeps
    <3> QED
      BY <3>1 DEF ReceiverKept
  <2> QED
    BY <2>1, <2>2, <2>3
<1> QED
  BY <1>3, <1>4, <1>5, <1>6 DEF ReceiverRead

\* On a clean line no wait runs out but the sender's for the first NAK.
LEMMA TimeoutSmooth ==
  ASSUME xfer \in Transfers, NEW g, g = PlanNow(xfer, s, r), NEW h,
         Core(g, xfer, s, r, toR, toS, h), up, Smooth(g, xfer, s, r, toR, toS), Timeout
  PROVE  SenderTimeout /\ s.pc = "poke" /\ Enter([s EXCEPT !.pc = "S"], 0) /\ toS = <<>>
<1>1. s \in Senders(xfer) /\ r \in Receivers /\ (s.pc = "ok" => r.pc = "ok")
  BY DEF Core, Types
<1>2. PlanFor(g, xfer)
  BY <1>1, PlanNowFits
<1>3. CASE s.pc \in Busy
  <2>1. toS # <<>> \/ (r.pc = "run" /\ toR # <<>>)
    BY <1>2, <1>3, UnderWay DEF Smooth
  <2>2. ~SenderQuiet
    BY <2>1 DEF SenderQuiet, RIdle, Done
  <2>3. ~ReceiverQuiet \/ r.pc = "ok"
    <3>1. r.pc \in {"run", "ok"} /\ s.pc \notin Done
      BY <1>3 DEF Smooth, InStep, Busy, Done
    <3> QED
      BY <2>1, <3>1 DEF ReceiverQuiet, SIdle
  <2>4. r.pc = "ok" => ~ReceiverSilence
    BY DEF ReceiverSilence
  <2> QED
    BY <2>2, <2>3, <2>4 DEF Timeout, SenderTimeout, ReceiverTimeout, BothTimeout
<1>4. CASE s.pc = "S"
  <2>1. Starting(xfer, s, r, toR, toS)
    BY <1>4 DEF Smooth
  <2>2. toS # <<>> \/ (r.pc = "init" /\ toR # <<>>)
    <3>1. <<Packet("S", 0, 1, 0, 0, xfer.ours)>> # <<>> /\ <<Packet("Y", 0, 1, 0, 0, r.sess)>> # <<>>
      OBVIOUS
    <3> QED
      BY <1>4, <2>1, <3>1 DEF Starting
  <2>3. ~SenderQuiet /\ ~ReceiverQuiet
    BY <1>4, <2>2 DEF SenderQuiet, ReceiverQuiet, RIdle, SIdle, Done
  <2> QED
    BY <2>3 DEF Timeout, SenderTimeout, ReceiverTimeout, BothTimeout
<1>5. CASE s.pc = "poke"
  <2>1. r.pc = "init"
    BY <1>5 DEF Smooth, Starting
  <2>2. ~ReceiverSilence
    BY <1>5, <2>1 DEF ReceiverSilence
  <2>3. SenderTimeout
    BY <2>2 DEF Timeout, ReceiverTimeout, BothTimeout
  <2>4. SenderSilence /\ toS = <<>>
    BY <2>3 DEF SenderTimeout, SenderQuiet
  <2>5. Enter([s EXCEPT !.pc = "S"], 0)
    BY <1>5, <2>4 DEF SenderSilence, StopAndWait
  <2> QED
    BY <1>5, <2>3, <2>4, <2>5
<1>6. CASE s.pc = "ok"
  <2>1. ~SenderSilence /\ ~ReceiverSilence
    BY <1>1, <1>6 DEF SenderSilence, ReceiverSilence, StopAndWait
  <2> QED
    BY <2>1 DEF Timeout, SenderTimeout, ReceiverTimeout, BothTimeout
<1>7. s.pc # "err"
  BY DEF Smooth
<1> QED
  BY <1>1, <1>3, <1>4, <1>5, <1>6, <1>7, SenderFields DEF Busy, StopAndWait, Done

LEMMA TransferFixed ==
  ASSUME [Next]_vars
  PROVE  xfer' = xfer
<1>1. SenderRead => SenderTook
  BY DEF SenderRead, SenderCancelled, SenderPeerError, SenderPoked, SenderReply, SenderUnreadable,
         SenderWindow, SenderStream
<1>2. ReceiverRead => ReceiverTook \/ xfer' = xfer
  BY DEF ReceiverRead, ReceiverSendInit, ReceiverCancelled, ReceiverUnreadable, ReceiverPacket,
         ReceiverDrain
<1>3. CASE Progress
  BY <1>1, <1>2, <1>3 DEF Progress, SenderTook, ReceiverTook, Timeout, SenderTimeout,
                          ReceiverTimeout, BothTimeout, SenderLineDown, ReceiverLineDown
<1>4. CASE ~Progress
  BY <1>4 DEF Next, SenderTimeoutLate, ReceiverTimeoutLate, Terminated, vars
<1> QED
  BY <1>3, <1>4

LEMMA FaultCounted ==
  ASSUME faults \in Nat, LineFault \/ SenderTimeoutLate \/ ReceiverTimeoutLate
  PROVE  faults' \in Nat /\ faults' # 0
<1>1. faults' = faults + 1
  BY DEF LineFault, LoseToR, LoseToS, DamageToR, DamageToS, CancelS, CancelR, HangUp,
         SenderTimeoutLate, ReceiverTimeoutLate, Fault
<1> QED
  BY <1>1

LEMMA CleanKeeps ==
  ASSUME KInv, KInv', CInv, [Next]_vars
  PROVE  CInv'
<1>1. PICK h \in Nat : Core(PlanNow(xfer, s, r), xfer, s, r, toR, toS, h)
  BY DEF KInv
<1>2. PICK g : g = PlanNow(xfer, s, r)
  OBVIOUS
<1>3. Core(g, xfer, s, r, toR, toS, h) /\ xfer \in Transfers
  BY <1>1, <1>2 DEF Core, Sessions
<1>4. PICK h2 \in Nat : Core(PlanNow(xfer', s', r'), xfer', s', r', toR', toS', h2)
  BY DEF KInv, PlanNow
<1>5. xfer' = xfer
  BY TransferFixed
<1>6. PlanFor(g, xfer)
  BY <1>2, <1>3, PlanNowFits DEF Core, Types
<1>7. CASE LineFault \/ SenderTimeoutLate \/ ReceiverTimeoutLate
  <2>1. faults' \in Nat /\ faults' # 0
    BY <1>7, FaultCounted DEF CInv
  <2> QED
    BY <2>1 DEF CInv
<1>8. CASE UNCHANGED vars
  BY <1>8 DEF vars, CInv, PlanNow
<1>9. CASE Progress
  <2>1. faults' = faults
    BY <1>9 DEF Progress, SenderRead, SenderCancelled, SenderPeerError, SenderPoked, SenderReply,
                SenderUnreadable, SenderWindow, SenderStream, SenderTook,
                ReceiverRead, ReceiverSendInit, ReceiverCancelled, ReceiverUnreadable, ReceiverPacket,
                ReceiverDrain, ReceiverTook, Timeout, SenderTimeout, ReceiverTimeout, BothTimeout,
                SenderLineDown, ReceiverLineDown
  <2>2. SUFFICES ASSUME faults = 0, xfer.files <= MaxBatchFiles
                 PROVE  up' /\ Smooth(PlanNow(xfer', s', r'), xfer', s', r', toR', toS')
    BY <1>5, <2>1 DEF CInv, PlanNow
  <2>3. up /\ Smooth(g, xfer, s, r, toR, toS)
    BY <1>2, <2>2 DEF CInv
  <2>4. CASE SenderRead
    <3>1. SenderTook
      BY <2>4 DEF SenderRead, SenderCancelled, SenderPeerError, SenderPoked, SenderReply,
                  SenderUnreadable, SenderWindow, SenderStream
    <3>2. r' = r /\ toS' = Tail(toS) /\ up' = up
      BY <3>1 DEF SenderTook
    <3>3. PICK g2 : g2 = PlanNow(xfer, s', r)
      OBVIOUS
    <3>4. Core(g2, xfer, s', r, toR', Tail(toS), h2)
      BY <1>4, <1>5, <3>2, <3>3
    <3>5. Smooth(g2, xfer, s', r, toR', Tail(toS))
      BY <1>2, <1>3, <2>3, <2>4, <3>3, <3>4, SenderReadSmooth
    <3> QED
      BY <1>5, <2>3, <3>2, <3>3, <3>5
  <2>5. CASE ReceiverRead
    <3>1. /\ Smooth(PlanNow(xfer, s, r'), xfer, s, r', toR', toS')
          /\ xfer' = xfer /\ s' = s /\ up' = up
      BY <1>2, <1>3, <2>2, <2>3, <2>5, ReceiverReadSmooth
    <3> QED
      BY <2>3, <3>1
  <2>6. CASE Timeout
    <3>1. SenderTimeout /\ s.pc = "poke" /\ Enter([s EXCEPT !.pc = "S"], 0) /\ toS = <<>>
      BY <1>2, <1>3, <2>3, <2>6, TimeoutSmooth
    <3>2. r' = r /\ toS' = <<>> /\ up' = up
      BY <3>1 DEF SenderTimeout
    <3>3. Starting(xfer, s, r, toR, toS)
      BY <2>3, <3>1 DEF Smooth
    <3>4. Starting(xfer, s', r, toR', <<>>) /\ s'.pc = "S"
      BY <1>3, <1>6, <2>3, <3>1, <3>3, PokeSmooth
    <3> QED
      BY <1>5, <2>3, <3>2, <3>4 DEF Smooth, Busy
  <2>7. CASE SenderLineDown \/ ReceiverLineDown
    BY <2>3, <2>7 DEF SenderLineDown, ReceiverLineDown
  <2> QED
    BY <1>9, <2>4, <2>5, <2>6, <2>7 DEF Progress
<1> QED
  BY <1>7, <1>8, <1>9 DEF Next, Terminated

LEMMA CleanInit ==
  ASSUME Init, ~Streams
  PROVE  CInv
<1>1. /\ xfer \in Transfers /\ SenderInit /\ ReceiverInit /\ toR = Entering(s, 0)
      /\ toS \in (IF xfer.poke THEN {<<>>, <<Reply("N", 0, 1)>>} ELSE {<<>>}) /\ up = TRUE /\ faults = 0
  BY DEF Init
<1>2. r.pc = "init" /\ r.buf = {}
  BY <1>1, StartReceiver
<1>3. /\ s \in Senders(xfer) /\ s.pc \in {"poke", "S"} /\ (s.pc = "poke" <=> xfer.poke) /\ s.seq = 0
      /\ s.ours = xfer.ours /\ s.out = <<>>
  BY <1>1, StartSender
<1>4. Starting(xfer, s, r, toR, toS)
  <2>1. CASE s.pc = "poke"
    <3>1. toR = <<>>
      <4>1. Entering(s, 0) = [i \in 1..0 |-> Outgoing(s, s.out[0 + i])]
        BY <1>3, <2>1 DEF Entering, StopAndWait
      <4> QED
        BY <1>1, <4>1
    <3> QED
      BY <1>1, <1>2, <1>3, <2>1, <3>1 DEF Starting
  <2>2. CASE s.pc = "S"
    <3>1. toR = <<Packet("S", 0, 1, 0, 0, xfer.ours)>>
      BY <1>1, <1>3, <2>2 DEF Entering, Current, StopAndWait
    <3> QED
      BY <1>1, <1>2, <1>3, <2>2, <3>1 DEF Starting
  <2> QED
    BY <1>3, <2>1, <2>2
<1> QED
  BY <1>1, <1>2, <1>3, <1>4 DEF CInv, Smooth, Busy

LEMMA CleanImplies ==
  ASSUME CInv
  PROVE  CleanLineSucceeds
  BY DEF CInv, CleanLineSucceeds, Smooth

-----------------------------------------------------------------------------
(* The theorems.  Where both ends may stream, nothing is claimed.            *)

\* The inductive invariant: the two halves, what is between them and the plan of the
\* batch agree, whatever the line has done so far.
THEOREM Invariance == Spec => [](Streams \/ KInv)
<1>1. Init => Streams \/ KInv
  BY InitHolds
<1>2. (Streams \/ KInv) /\ [Next]_vars => (Streams \/ KInv)'
  <2>1. CASE KInv /\ [Next]_vars
    BY <2>1, NextKeeps
  <2>2. CASE Streams /\ [Next]_vars
    <3>1. xfer' = xfer
      BY <2>2, TransferFixed
    <3> QED
      BY <2>2, <3>1 DEF Streams
  <2> QED
    BY <2>1, <2>2
<1> QED
  BY <1>1, <1>2, PTL DEF Spec

\* The locals of the two halves keep their types, and every retry counter stays within
\* the limit its loop is cut at (send_and_await_ack_opts, send_d_packets_windowed, the
\* receive loop).
THEOREM TypeOKHolds == Spec => [](Streams \/ TypeOK)
<1>1. KInv => TypeOK
  BY InvariantImplies
<1> QED
  BY <1>1, Invariance, PTL

\* No chunk is taken twice, out of order, after a gap or from another file, however often
\* the packet numbers of the window wrap and whatever is lost, damaged, repeated or
\* delayed (the receive loop of kermit_receive_committing).
THEOREM PrefixReceivedHolds == Spec => [](Streams \/ PrefixReceived)
<1>1. KInv => PrefixReceived
  BY InvariantImplies
<1> QED
  BY <1>1, Invariance, PTL

\* A file is handed to on_complete only when it is whole, a file resumed from an earlier
\* part included.
THEOREM KeptIsWholeHolds == Spec => [](Streams \/ KeptIsWhole)
<1>1. KInv => KeptIsWhole
  BY InvariantImplies
<1> QED
  BY <1>1, Invariance, PTL

\* kermit_send reports success only when every file of the batch was handed over.
THEOREM SenderSuccessIsWholeHolds == Spec => [](Streams \/ SenderSuccessIsWhole)
<1>1. KInv => SenderSuccessIsWhole
  BY InvariantImplies
<1> QED
  BY <1>1, Invariance, PTL

\* On a line that adds no fault neither half gives up, whatever the two ends agreed on:
\* every packet and every answer is the one the other half waits for, so no wait runs out
\* and no packet is refused (send_and_await_ack_opts, send_d_packets_windowed, the receive
\* loop of kermit_receive_committing).
THEOREM CleanLineSucceedsHolds == Spec => [](Streams \/ CleanLineSucceeds)
<1>1. Init => Streams \/ CInv
  BY CleanInit
<1>2. (Streams \/ KInv) /\ (Streams \/ KInv)' /\ (Streams \/ CInv) /\ [Next]_vars => (Streams \/ CInv)'
  <2>1. CASE Streams /\ [Next]_vars
    <3>1. xfer' = xfer
      BY <2>1, TransferFixed
    <3> QED
      BY <2>1, <3>1 DEF Streams
  <2>2. CASE ~Streams /\ KInv /\ CInv /\ (Streams \/ KInv)' /\ [Next]_vars
    <3>1. xfer' = xfer
      BY <2>2, TransferFixed
    <3>2. KInv'
      BY <2>2, <3>1 DEF Streams
    <3> QED
      BY <2>2, <3>2, CleanKeeps
  <2> QED
    BY <2>1, <2>2
<1>3. CInv => CleanLineSucceeds
  BY CleanImplies
<1> QED
  BY <1>1, <1>2, <1>3, Invariance, PTL DEF Spec

\* Together: nothing lands out of place, what is handed over is whole, a successful send is
\* a complete one, and a clean line lets both halves succeed (kermit_send,
\* kermit_receive_committing).
THEOREM TransferSoundHolds == Spec => [](Streams \/ TransferSound)
<1>1. KInv /\ CleanLineSucceeds => TransferSound
  BY InvariantImplies DEF TransferSound
<1> QED
  BY <1>1, Invariance, CleanLineSucceedsHolds, PTL

\* A Kermit batch that is not streamed does what FileTransfer promises, whatever the line
\* does: each file grows in order, is handed over only when it is whole, and the sender
\* reports success only when every file was (kermit_send, kermit_receive_committing).
THEOREM KeepsPromiseHolds == Spec /\ ~Streams => KeepsPromise
<1>1. Init => Promise!Init
  BY PromiseInit
<1>2. KInv /\ KInv' /\ [Next]_vars => [Promise!Next]_(Promise!ftvars)
  BY PromiseNext
<1>3. Init /\ ~Streams => KInv
  BY InitHolds
<1>4. KInv /\ [Next]_vars => KInv'
  BY NextKeeps
<1> QED
  BY <1>1, <1>2, <1>3, <1>4, PTL DEF Spec, KeepsPromise, Promise!Spec
=============================================================================
