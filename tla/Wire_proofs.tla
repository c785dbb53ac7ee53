---------------------------- MODULE Wire_proofs -----------------------------
(***************************************************************************)
(* Proofs about Wire, for every number of bytes of an integer, every       *)
(* number of values of a byte and every set of messages: what the readers  *)
(* of the two kinds of frames return, and that decoding inverts encoding.  *)
(*                                                                         *)
(* Wire's integers are recursive functions.  What they compute is proved   *)
(* by induction along 0..Width; SetInduction derives that induction from   *)
(* the well-foundedness of the naturals.  The frames are proved by an      *)
(* inductive invariant, Framing: there are positions, the sums of the      *)
(* lengths of the frames written, at which the bytes still in the stream   *)
(* are those of the frames.                                                *)
(***************************************************************************)
EXTENDS Wire, SequenceTheorems, WellFoundedInduction, TLAPS

-----------------------------------------------------------------------------
(* Recursive functions along 0..n.                                         *)

\* A set with 0 that has the successor of each of its numbers has them all.
LEMMA SetInduction ==
  ASSUME NEW S, 0 \in S, \A n \in Nat : n \in S => n + 1 \in S
  PROVE  Nat \subseteq S
<1> DEFINE T == Nat \ S
           R == OpToRel(<, Nat)
<1> SUFFICES ASSUME T # {} PROVE FALSE
  OBVIOUS
<1>1. \A x, y \in Nat : x < y => <<x, y>> \in R
  BY DEF OpToRel
<1>2. IsWellFoundedOn(R, Nat) /\ T \subseteq Nat
  BY NatLessThanWellFounded
<1>3. PICK x \in T : \A y \in T : ~(<<y, x>> \in R)
  <2> HIDE DEF R, T
  <2> QED
    BY <1>2, WFMin
<1>4. x - 1 \in Nat /\ x - 1 < x /\ (x - 1) + 1 = x
  OBVIOUS
<1>5. x - 1 \notin T
  BY <1>1, <1>3, <1>4
<1> QED
  BY <1>4, <1>5

\* The same up to N.
LEMMA BoundedInduction ==
  ASSUME NEW N \in Nat, NEW S, 0 \in S, \A k \in 1..N : k - 1 \in S => k \in S
  PROVE  0..N \subseteq S
<1> DEFINE T == {n \in Nat : n <= N => n \in S}
<1>1. 0 \in T
  OBVIOUS
<1>2. ASSUME NEW n \in Nat, n \in T PROVE n + 1 \in T
  <2> SUFFICES ASSUME n + 1 <= N PROVE n + 1 \in S
    OBVIOUS
  <2>1. n + 1 \in 1..N /\ (n + 1) - 1 = n /\ n \in S
    BY <1>2
  <2> QED
    BY <2>1
<1>3. Nat \subseteq T
  <2> HIDE DEF T
  <2> QED
    BY <1>1, <1>2, SetInduction
<1> QED
  BY <1>3

\* f begins with a and goes on by G.
Recursive(f, N, D, a, G) ==
  /\ f \in [0..N -> D]
  /\ f[0] = a
  /\ \A k \in 1..N : f[k] = G[k][f[k - 1]]

\* Steps that are functions define a recursive function.
LEMMA RecursionExists ==
  ASSUME NEW N \in Nat, NEW D, NEW a \in D, NEW G \in [1..N -> [D -> D]]
  PROVE  \E f : Recursive(f, N, D, a, G)
<1> DEFINE Defined(f, n) == /\ f \in [0..n -> D] /\ f[0] = a
                            /\ \A k \in 1..n : f[k] = G[k][f[k - 1]]
           S == {n \in Nat : n <= N => \E f : Defined(f, n)}
<1>1. 0 \in S
  <2> DEFINE g == [k \in 0..0 |-> a]
  <2>1. Defined(g, 0)
    OBVIOUS
  <2> QED
    BY <2>1
<1>2. ASSUME NEW n \in Nat, n \in S PROVE n + 1 \in S
  <2> SUFFICES ASSUME n + 1 <= N PROVE \E f : Defined(f, n + 1)
    OBVIOUS
  <2>1. PICK f : Defined(f, n)
    BY <1>2
  <2> DEFINE last == G[n + 1][f[n]]
             g == [k \in 0..(n + 1) |-> IF k = n + 1 THEN last ELSE f[k]]
  <2>2. last \in D
    BY <2>1
  <2>3. g \in [0..(n + 1) -> D] /\ g[0] = a
    BY <2>1, <2>2
  <2>4. ASSUME NEW k \in 1..(n + 1) PROVE g[k] = G[k][g[k - 1]]
    <3>1. g[k - 1] = f[k - 1]
      OBVIOUS
    <3>2. CASE k = n + 1
      <4>1. g[k] = G[k][f[n]] /\ k - 1 = n
        BY <3>2
      <4> QED
        BY <3>1, <4>1
    <3>3. CASE k # n + 1
      <4>1. k \in 1..n /\ g[k] = f[k]
        BY <3>3
      <4> QED
        BY <2>1, <3>1, <4>1
    <3> QED
      BY <3>2, <3>3
  <2>5. Defined(g, n + 1)
    BY <2>3, <2>4
  <2> QED
    BY <2>5
<1>3. N \in S
  <2> HIDE DEF S
  <2> QED
    BY <1>1, <1>2, SetInduction
<1> QED
  BY <1>3 DEF Recursive

-----------------------------------------------------------------------------
(* Arithmetic of digits.                                                   *)

LEMMA DivMod ==
  ASSUME NEW n \in Nat, NEW b \in Nat, b > 0
  PROVE  /\ n = b * (n \div b) + (n % b)
         /\ n % b \in 0..(b - 1)
         /\ n \div b \in Nat
  OBVIOUS

LEMMA DivLess ==
  ASSUME NEW n \in Nat, NEW p \in Nat, NEW b \in Nat, b > 0, n < b * p
  PROVE  n \div b < p
  OBVIOUS

LEMMA Small ==
  ASSUME NEW n \in Nat, NEW b \in Nat, n < b
  PROVE  n % b = n /\ n \div b = 0
  OBVIOUS

-----------------------------------------------------------------------------
(* Integers of Width digits.                                               *)

LEMMA Constants ==
  /\ Base \in Nat /\ Base > 1 /\ Width \in Nat /\ Width > 0
  /\ Byte \subseteq Nat /\ 0 \in Byte
  BY WireAssumption DEF Byte

\* The powers of Base are those of arithmetic.
LEMMA PowerDef ==
  /\ Power \in [0..Width -> Nat \ {0}]
  /\ Power[0] = 1
  /\ \A k \in 1..Width : Power[k] = Base * Power[k - 1]
<1> DEFINE D == Nat \ {0}
           G == [k \in 1..Width |-> [x \in D |-> Base * x]]
<1>1. \A x \in D : Base * x \in D
  BY Constants
<1>2. G \in [1..Width -> [D -> D]]
  <2> HIDE DEF D
  <2> QED
    BY <1>1
<1>3. PICK f : Recursive(f, Width, D, 1, G)
  <2>1. 1 \in D /\ Width \in Nat
    BY Constants
  <2> HIDE DEF D, G
  <2> QED
    BY <1>2, <2>1, RecursionExists
<1>4. \A k \in 1..Width : f[k] = Base * f[k - 1]
  <2> SUFFICES ASSUME NEW k \in 1..Width PROVE f[k] = Base * f[k - 1]
    OBVIOUS
  <2>1. f[k - 1] \in D
    BY <1>3, Constants DEF Recursive
  <2> HIDE DEF D
  <2> QED
    BY <1>3, <2>1 DEF Recursive
<1>5. \E g : g = [k \in 0..Width |-> IF k = 0 THEN 1 ELSE Base * g[k - 1]]
  <2>1. f = [k \in 0..Width |-> IF k = 0 THEN 1 ELSE Base * f[k - 1]]
    BY <1>3, <1>4, Constants DEF Recursive
  <2> QED
    BY <2>1
<1>6. Power = [k \in 0..Width |-> IF k = 0 THEN 1 ELSE Base * Power[k - 1]]
  BY <1>5, Zenon DEF Power
<1>7. Power[0] = 1 /\ \A k \in 1..Width : Power[k] = Base * Power[k - 1]
  BY <1>6, Constants
<1> DEFINE S == {k \in 0..Width : Power[k] \in D}
<1>8. 0..Width \subseteq S
  <2>1. 0 \in S
    BY <1>7, Constants
  <2>2. ASSUME NEW k \in 1..Width, k - 1 \in S PROVE k \in S
    <3>1. Power[k] = Base * Power[k - 1] /\ Power[k - 1] \in D
      BY <1>7, <2>2
    <3> QED
      BY <1>1, <3>1
  <2> HIDE DEF S
  <2> QED
    BY <2>1, <2>2, BoundedInduction, Constants
<1>9. \A k \in 0..Width : Power[k] \in D
  BY <1>8
<1> QED
  BY <1>6, <1>7, <1>9

LEMMA LimitType == Limit \in Nat /\ Limit >= Base
<1>1. Width \in 1..Width /\ Width - 1 \in 0..Width
  BY Constants
<1>2. Limit = Base * Power[Width - 1] /\ Power[Width - 1] \in Nat \ {0}
  BY <1>1, PowerDef DEF Limit
<1>3. \A b, x \in Nat : x > 0 => b * x \in Nat /\ b * x >= b
  OBVIOUS
<1> QED
  BY <1>2, <1>3, Constants

\* PutUint32 and writeInt32 shift.
LEMMA ShiftedDef ==
  ASSUME NEW n \in Int
  PROVE  /\ n % Limit \in 0..(Limit - 1)
         /\ Shifted(n) \in [0..Width -> Nat]
         /\ Shifted(n)[0] = n % Limit
         /\ \A k \in 1..Width : Shifted(n)[k] = Shifted(n)[k - 1] \div Base
<1> DEFINE u == n % Limit
           G == [k \in 1..Width |-> [x \in Nat |-> x \div Base]]
<1>1. u \in 0..(Limit - 1)
  BY LimitType, Constants
<1>2. G \in [1..Width -> [Nat -> Nat]]
  BY DivMod, Constants
<1> HIDE DEF u
<1>3. PICK f : Recursive(f, Width, Nat, u, G)
  <2>1. u \in Nat /\ Width \in Nat
    BY <1>1, LimitType, Constants
  <2> HIDE DEF G
  <2> QED
    BY <1>2, <2>1, RecursionExists
<1>4. \A k \in 1..Width : f[k] = f[k - 1] \div Base
  <2> SUFFICES ASSUME NEW k \in 1..Width PROVE f[k] = f[k - 1] \div Base
    OBVIOUS
  <2>1. f[k - 1] \in Nat
    BY <1>3, Constants DEF Recursive
  <2> QED
    BY <1>3, <2>1 DEF Recursive
<1> DEFINE Def(g) == g = [k \in 0..Width |->
                            IF k = 0 THEN u ELSE g[k - 1] \div Base]
<1>5. Def(f)
  BY <1>3, <1>4, Constants DEF Recursive
<1>6. Shifted(n) = CHOOSE g : Def(g)
  BY DEF Shifted, u
<1>7. Def(Shifted(n))
  <2> HIDE DEF Def
  <2> QED
    BY <1>5, <1>6
<1>8. Shifted(n)[0] = u
      /\ \A k \in 1..Width : Shifted(n)[k] = Shifted(n)[k - 1] \div Base
  BY <1>7, Constants
<1>9. 0..Width \subseteq {k \in 0..Width : Shifted(n)[k] \in Nat}
  <2> DEFINE S == {k \in 0..Width : Shifted(n)[k] \in Nat}
  <2>1. 0 \in S
    BY <1>1, <1>8, LimitType, Constants
  <2>2. ASSUME NEW k \in 1..Width, k - 1 \in S PROVE k \in S
    <3>1. /\ Shifted(n)[k] = Shifted(n)[k - 1] \div Base
          /\ Shifted(n)[k - 1] \in Nat
      BY <1>8, <2>2
    <3> QED
      BY <3>1, DivMod, Constants
  <2> HIDE DEF S
  <2>3. 0..Width \subseteq S
    BY <2>1, <2>2, BoundedInduction, Constants
  <2> QED
    BY <2>3 DEF S
<1> QED
  BY <1>1, <1>7, <1>8, <1>9 DEF u

\* BigEndian.Uint32 adds up digits.
LEMMA ValueDef ==
  ASSUME NEW digits, \A i \in 1..Width : digits[i] \in Nat
  PROVE  /\ Value(digits) \in [0..Width -> Nat]
         /\ Value(digits)[0] = 0
         /\ \A k \in 1..Width :
              Value(digits)[k] = Value(digits)[k - 1] * Base + digits[k]
<1> DEFINE G == [k \in 1..Width |-> [x \in Nat |-> x * Base + digits[k]]]
<1>1. \A x, d \in Nat : x * Base + d \in Nat
  BY Constants
<1>2. G \in [1..Width -> [Nat -> Nat]]
  BY <1>1
<1>3. PICK f : Recursive(f, Width, Nat, 0, G)
  <2>1. 0 \in Nat /\ Width \in Nat
    BY Constants
  <2> HIDE DEF G
  <2> QED
    BY <1>2, <2>1, RecursionExists
<1>4. \A k \in 1..Width : f[k] = f[k - 1] * Base + digits[k]
  <2> SUFFICES ASSUME NEW k \in 1..Width
               PROVE  f[k] = f[k - 1] * Base + digits[k]
    OBVIOUS
  <2>1. f[k - 1] \in Nat
    BY <1>3, Constants DEF Recursive
  <2> QED
    BY <1>3, <2>1 DEF Recursive
<1> DEFINE Def(g) == g = [i \in 0..Width |->
                            IF i = 0 THEN 0 ELSE g[i - 1] * Base + digits[i]]
<1>5. Def(f)
  BY <1>3, <1>4, Constants DEF Recursive
<1>6. Value(digits) = CHOOSE g : Def(g)
  BY DEF Value
<1>7. Def(Value(digits))
  <2> HIDE DEF Def
  <2> QED
    BY <1>5, <1>6
<1>8. /\ Value(digits)[0] = 0
      /\ \A k \in 1..Width :
           Value(digits)[k] = Value(digits)[k - 1] * Base + digits[k]
  BY <1>7, Constants
<1>9. 0..Width \subseteq {k \in 0..Width : Value(digits)[k] \in Nat}
  <2> DEFINE S == {k \in 0..Width : Value(digits)[k] \in Nat}
  <2>1. 0 \in S
    BY <1>8, Constants
  <2>2. ASSUME NEW k \in 1..Width, k - 1 \in S PROVE k \in S
    <3>1. /\ Value(digits)[k] = Value(digits)[k - 1] * Base + digits[k]
          /\ Value(digits)[k - 1] \in Nat /\ digits[k] \in Nat
      BY <1>8, <2>2
    <3>2. Value(digits)[k] \in Nat
      BY <1>1, <3>1, Zenon
    <3> QED
      BY <3>2
  <2> HIDE DEF S
  <2>3. 0..Width \subseteq S
    BY <2>1, <2>2, BoundedInduction, Constants
  <2> QED
    BY <2>3 DEF S
<1> QED
  BY <1>7, <1>8, <1>9

-----------------------------------------------------------------------------
(* Reading back what was written.                                          *)

LEMMA Int32Type ==
  ASSUME NEW n \in Int
  PROVE  /\ Int32(n) \in Seq(Byte) /\ Len(Int32(n)) = Width
         /\ \A i \in 1..Width : /\ Int32(n)[i] = Shifted(n)[Width - i] % Base
                               /\ Int32(n)[i] \in Byte
<1>1. ASSUME NEW i \in 1..Width PROVE Shifted(n)[Width - i] % Base \in Byte
  <2>1. Shifted(n)[Width - i] \in Nat
    BY ShiftedDef, Constants
  <2> QED
    BY <2>1, DivMod, Constants DEF Byte
<1>2. Int32(n) \in [1..Width -> Byte]
  BY <1>1 DEF Int32
<1>3. Int32(n) \in Seq(Byte) /\ Len(Int32(n)) = Width
  BY <1>2, Constants
<1> QED
  BY <1>1, <1>3 DEF Int32

\* k shifts leave less than Width - k digits can say.
LEMMA ShiftedBound ==
  ASSUME NEW n \in Nat, n < Limit
  PROVE  /\ Shifted(n)[0] = n
         /\ \A k \in 0..Width : Shifted(n)[k] < Power[Width - k]
<1>1. Shifted(n)[0] = n
  <2>1. n \in Int /\ n % Limit = n
    BY LimitType, Small
  <2> QED
    BY <2>1, ShiftedDef
<1> DEFINE S == {k \in 0..Width : Shifted(n)[k] < Power[Width - k]}
<1>2. 0 \in S
  BY <1>1, Constants DEF Limit
<1>3. ASSUME NEW k \in 1..Width, k - 1 \in S PROVE k \in S
  <2> DEFINE i == Width - (k - 1)
  <2>1. i \in 1..Width /\ i - 1 = Width - k
    BY Constants
  <2>2. Power[i] = Base * Power[i - 1] /\ Power[i - 1] \in Nat
    <3>1. i - 1 \in 0..Width
      BY <2>1, Constants
    <3> QED
      BY <2>1, <3>1, PowerDef
  <2>3. Shifted(n)[k - 1] < Power[i] /\ Shifted(n)[k - 1] \in Nat
    <3>1. k - 1 \in 0..Width /\ n \in Int
      BY Constants
    <3> QED
      BY <1>3, <3>1, ShiftedDef
  <2>4. Shifted(n)[k] = Shifted(n)[k - 1] \div Base
    BY ShiftedDef
  <2> HIDE DEF i
  <2>5. Shifted(n)[k] < Power[i - 1]
    BY <2>2, <2>3, <2>4, DivLess, Constants
  <2> QED
    BY <2>1, <2>5
<1>4. 0..Width \subseteq S
  <2> HIDE DEF S
  <2> QED
    BY <1>2, <1>3, BoundedInduction, Constants
<1> QED
  BY <1>1, <1>4

\* An unsigned integer is read as it was written.
LEMMA RoundTrip ==
  ASSUME NEW n \in Nat, n < Limit
  PROVE  Unsigned(Int32(n)) = n
<1> DEFINE v == Value(Int32(n))
           r == Shifted(n)
           S == {k \in 0..Width : v[k] = r[Width - k]}
<1>1. /\ v[0] = 0
      /\ \A k \in 1..Width : v[k] = v[k - 1] * Base + Int32(n)[k]
  <2>1. n \in Int
    OBVIOUS
  <2>2. ASSUME NEW i \in 1..Width PROVE Int32(n)[i] \in Nat
    <3>1. Int32(n)[i] \in Byte
      BY <2>1, Int32Type
    <3> QED
      BY <3>1, Constants
  <2> QED
    BY <2>1, <2>2, ValueDef
<1>2. /\ r \in [0..Width -> Nat] /\ r[0] = n
      /\ \A k \in 1..Width : r[k] = r[k - 1] \div Base
      /\ r[Width] < Power[0]
  <2>1. n \in Int /\ Width \in 0..Width /\ Width - Width = 0
    BY Constants
  <2>2. r[Width] < Power[Width - Width] /\ r[0] = n
    BY <2>1, ShiftedBound
  <2> QED
    BY <2>1, <2>2, ShiftedDef
<1>3. 0 \in S
  <2>1. r[Width] \in Nat /\ Power[0] = 1
    BY <1>2, PowerDef, Constants
  <2> QED
    BY <1>1, <1>2, <2>1, Constants
<1>4. ASSUME NEW k \in 1..Width, k - 1 \in S PROVE k \in S
  <2> DEFINE x == r[Width - k]
  <2>1. x \in Nat
    BY <1>2, Constants
  <2>2. r[Width - (k - 1)] = x \div Base
    <3>1. Width - (k - 1) \in 1..Width /\ (Width - (k - 1)) - 1 = Width - k
      BY Constants
    <3> QED
      BY <1>2, <3>1
  <2>3. v[k] = (x \div Base) * Base + (x % Base)
    BY <1>1, <1>4, <2>2, Int32Type
  <2> HIDE DEF x
  <2>4. (x \div Base) * Base + (x % Base) = x
    BY <2>1, DivMod, Constants
  <2> QED
    BY <2>3, <2>4 DEF x
<1>5. 0..Width \subseteq S
  <2> HIDE DEF S
  <2> QED
    BY <1>3, <1>4, BoundedInduction, Constants
<1>6. v[Width] = r[0]
  BY <1>5, Constants
<1> QED
  BY <1>2, <1>6 DEF Unsigned

\* A number below Base is written with zeroes in front of the last byte.
LEMMA LeadingZeros ==
  ASSUME NEW n \in Nat, n < Base
  PROVE  \A i \in 1..(Width - 1) : Int32(n)[i] = 0
<1> DEFINE r == Shifted(n)
           S == {k \in 0..Width : k > 0 => r[k] = 0}
<1>1. n < Limit /\ n \in Int
  BY LimitType, Constants
<1>2. r[0] = n
  BY <1>1, ShiftedBound
<1>3. \A k \in 1..Width : r[k] = r[k - 1] \div Base
  BY <1>1, ShiftedDef
<1>4. 0 \div Base = 0 /\ 0 % Base = 0 /\ n \div Base = 0
  BY Small, Constants
<1>5. ASSUME NEW k \in 1..Width, k - 1 \in S PROVE k \in S
  <2>1. r[k - 1] = n \/ r[k - 1] = 0
    BY <1>2, <1>5
  <2> HIDE DEF r
  <2>2. r[k] = 0
    BY <1>3, <1>4, <2>1
  <2> QED
    BY <2>2
<1>6. 0..Width \subseteq S
  <2>1. 0 \in S
    BY Constants
  <2> HIDE DEF S
  <2> QED
    BY <1>5, <2>1, BoundedInduction, Constants
<1>7. ASSUME NEW i \in 1..(Width - 1) PROVE Int32(n)[i] = 0
  <2>1. i \in 1..Width /\ Width - i \in 0..Width /\ Width - i > 0
    BY Constants
  <2>2. r[Width - i] = 0
    BY <1>6, <2>1
  <2> QED
    BY <1>1, <1>4, <2>1, <2>2, Int32Type
<1> QED
  BY <1>7

LEMMA ZeroValue ==
  ASSUME NEW digits, \A i \in 1..Width : digits[i] = 0
  PROVE  Unsigned(digits) = 0
<1> DEFINE v == Value(digits)
           S == {k \in 0..Width : v[k] = 0}
<1>1. /\ v[0] = 0
      /\ \A k \in 1..Width : v[k] = v[k - 1] * Base + digits[k]
  BY ValueDef
<1>2. 0 * Base + 0 = 0
  BY Constants
<1>3. ASSUME NEW k \in 1..Width, k - 1 \in S PROVE k \in S
  <2>1. v[k] = v[k - 1] * Base + digits[k] /\ v[k - 1] = 0 /\ digits[k] = 0
    BY <1>1, <1>3
  <2> HIDE DEF v
  <2> QED
    BY <1>2, <2>1
<1>4. 0..Width \subseteq S
  <2>1. 0 \in S
    BY <1>1, Constants
  <2> HIDE DEF S
  <2> QED
    BY <1>3, <2>1, BoundedInduction, Constants
<1> QED
  BY <1>4, Constants DEF Unsigned

\* The half of the integers below 2 * n < Limit is read as signed.
LEMMA SignedRoundTrip ==
  ASSUME NEW n \in Nat, 2 * n < Limit
  PROVE  Signed(Int32(n)) = n
<1>1. n < Limit /\ Limit \in Nat
  BY LimitType
<1>2. Unsigned(Int32(n)) = n
  BY <1>1, RoundTrip
<1> QED
  BY <1>1, <1>2 DEF Signed

\* The length of nil.
LEMMA SignedMinusOne == Signed(Int32(-1)) = -1
<1> DEFINE u == Limit - 1
<1>1. Limit \in Nat /\ Limit >= 2
  BY LimitType, Constants
<1>2. u \in Nat /\ u < Limit /\ 2 * u >= Limit /\ u - Limit = -1
  BY <1>1
<1>3. (-1) % Limit = u % Limit
  <2>1. u % Limit = u
    BY <1>1, <1>2, Small
  <2>2. (-1) % Limit = Limit - 1
    BY <1>1, SMT
  <2> QED
    BY <2>1, <2>2
<1>4. Shifted(-1) = Shifted(u)
  BY <1>3 DEF Shifted
<1>5. Int32(-1) = Int32(u)
  BY <1>4 DEF Int32
<1>6. Unsigned(Int32(-1)) = u
  BY <1>2, <1>5, RoundTrip
<1> QED
  BY <1>2, <1>6 DEF Signed

-----------------------------------------------------------------------------
(* Strings and frames.                                                     *)

LEMMA String32Type ==
  ASSUME NEW s \in Seq(Byte)
  PROVE  /\ String32(s) \in Seq(Byte)
         /\ Len(String32(s)) = Width + Len(s)
         /\ \A i \in 1..Width : String32(s)[i] = Int32(Len(s))[i]
         /\ \A i \in 1..Len(s) : String32(s)[Width + i] = s[i]
<1>1. Int32(Len(s)) \in Seq(Byte) /\ Len(Int32(Len(s))) = Width
  BY Int32Type
<1> DEFINE h == Int32(Len(s))
<1> HIDE DEF h
<1>2. /\ h \o s \in Seq(Byte)
      /\ Len(h \o s) = Width + Len(s)
      /\ \A i \in 1..Width : (h \o s)[i] = h[i]
      /\ \A i \in 1..Len(s) : (h \o s)[Width + i] = s[i]
  <2>1. h \in Seq(Byte) /\ Len(h) = Width
    BY <1>1 DEF h
  <2> QED
    BY <2>1, Constants
<1> QED
  BY <1>2 DEF String32, h

LEMMA EncodePayloadType ==
  ASSUME NEW m \in Messages
  PROVE  /\ EncodePayload(m) \in Seq(Byte)
         /\ 2 * (Len(EncodePayload(m)) + Width) < Limit
<1>1. /\ m \in [from : Seq(Byte), to : Seq(Byte), type : SUBSET Nat,
                data : SUBSET Seq(Byte)]
      /\ 2 * Len(EncodePayload(m)) < Limit - 2 * Width
  BY PayloadAssumption
<1>2. String32(m.from) \in Seq(Byte) /\ String32(m.to) \in Seq(Byte)
  BY <1>1, String32Type
<1> DEFINE t == IF m.type = {} THEN -1 ELSE CHOOSE t \in m.type : TRUE
<1>3. Int32(t) \in Seq(Byte)
  <2>1. t \in Int
    BY <1>1
  <2> HIDE DEF t
  <2> QED
    BY <2>1, Int32Type
<1>4. DataField(m.data) \in Seq(Byte)
  <2>1. CASE m.data = {}
    <3>1. -1 \in Int
      OBVIOUS
    <3> QED
      BY <2>1, <3>1, Int32Type DEF DataField
  <2>2. CASE m.data # {}
    <3>1. (CHOOSE s \in m.data : TRUE) \in Seq(Byte)
      BY <1>1, <2>2
    <3> QED
      BY <2>2, <3>1, String32Type DEF DataField
  <2> QED
    BY <2>1, <2>2
<1>5. EncodePayload(m) \in Seq(Byte)
  <2> HIDE DEF t
  <2>1. String32(m.from) \o String32(m.to) \o Int32(t) \o DataField(m.data)
          \in Seq(Byte)
    BY <1>2, <1>3, <1>4
  <2> QED
    BY <2>1 DEF EncodePayload, t
<1>6. 2 * (Len(EncodePayload(m)) + Width) < Limit
  BY <1>1, <1>5, LimitType, Constants
<1> QED
  BY <1>5, <1>6

-----------------------------------------------------------------------------
(* The inductive invariant.                                                *)

\* What is written for x to reader r: Payload and its frame.
Items(r) == IF r = "core" THEN Item ELSE RpcPayload

Body(r, x) ==
  IF r = "rpc" THEN x
  ELSE IF x.extra THEN String32(EncodePayload(x.message))
                  ELSE EncodePayload(x.message)

Frame(r, x) == String32(Body(r, x))

Types ==
  /\ reader \in {"core", "rpc"} /\ pc \in {"length", "body", "closed"}
  /\ eof \in BOOLEAN /\ short \in BOOLEAN
  /\ sent \in Seq(Items(reader)) /\ Len(sent) <= MaxSent
  /\ stream \in Seq(Byte) /\ got \in Seq(Seq(Byte))
  /\ arrived \in 0..Len(stream)
  /\ need \in 0..(IF reader = "core" THEN MaxFrameSize ELSE MaxRpcFrame)

\* Only the reader of direct RPC can lose the frames, by a payload of Base
\* bytes or more.
Sane == reader = "core" \/ \A i \in 1..Len(sent) : Len(sent[i]) < Base

\* Frame i is written from pos[i] on.
Positions(pos) ==
  /\ pos \in [1..(Len(sent) + 1) -> Nat]
  /\ \A i \in 1..Len(sent) : pos[i + 1] = pos[i] + Len(Frame(reader, sent[i]))
  /\ \A i \in 1..(Len(sent) + 1) : pos[i] <= pos[Len(sent) + 1]

\* How much has been read.
Taken(pos) == pos[Len(got) + 1] + (IF pc = "body" THEN Width ELSE 0)

\* The stream is what was written less what was read, up to where it ended.
Remaining(pos) ==
  /\ Taken(pos) + Len(stream) <= pos[Len(sent) + 1]
  /\ ~eof => Taken(pos) + Len(stream) = pos[Len(sent) + 1]
  /\ \A i \in 1..Len(sent) : \A j \in 1..Len(Frame(reader, sent[i])) :
       pos[i] + j - Taken(pos) \in 1..Len(stream) =>
         stream[pos[i] + j - Taken(pos)] = Frame(reader, sent[i])[j]

Received ==
  /\ Len(got) <= Len(sent)
  /\ \A i \in 1..Len(got) : got[i] = Body(reader, sent[i])
  /\ short => pc = "closed"
  /\ pc = "body" => /\ Len(got) < Len(sent)
                    /\ need = Len(Body(reader, sent[Len(got) + 1]))

InStep == pc # "closed" => \E pos : Positions(pos) /\ Remaining(pos)

Framing == Sane => Received /\ InStep

-----------------------------------------------------------------------------
(* Type correctness.                                                       *)

LEMMA BodyType ==
  ASSUME NEW r \in {"core", "rpc"}, NEW x \in Items(r)
  PROVE  Body(r, x) \in Seq(Byte) /\ Len(Body(r, x)) < Limit
<1>1. CASE r = "rpc"
  BY <1>1, PayloadAssumption DEF Items, Body
<1>2. CASE r = "core"
  <2>1. x.message \in Messages /\ x.extra \in BOOLEAN
    BY <1>2 DEF Items, Item
  <2> DEFINE p == EncodePayload(x.message)
  <2>2. p \in Seq(Byte) /\ 2 * (Len(p) + Width) < Limit
    BY <2>1, EncodePayloadType
  <2>3. String32(p) \in Seq(Byte) /\ Len(String32(p)) = Width + Len(p)
    BY <2>2, String32Type
  <2>4. Body(r, x) \in {p, String32(p)}
    BY <1>2 DEF Body
  <2> HIDE DEF p
  <2>5. Len(p) < Limit /\ Width + Len(p) < Limit
    BY <2>2, LimitType, Constants
  <2> QED
    BY <2>2, <2>3, <2>4, <2>5
<1> QED
  BY <1>1, <1>2

LEMMA FrameType ==
  ASSUME NEW r \in {"core", "rpc"}, NEW x \in Items(r)
  PROVE  /\ Frame(r, x) \in Seq(Byte)
         /\ Len(Frame(r, x)) = Width + Len(Body(r, x))
         /\ \A i \in 1..Width : Frame(r, x)[i] = Int32(Len(Body(r, x)))[i]
         /\ \A i \in 1..Len(Body(r, x)) :
              Frame(r, x)[Width + i] = Body(r, x)[i]
BY BodyType, String32Type DEF Frame

\* What a Read takes.
LEMMA ReadOnceType ==
  ASSUME Types
  PROVE  ReadOnce \in 0..Width /\ ReadOnce <= arrived
BY Constants DEF Types, ReadOnce

LEMMA ConsumeType ==
  ASSUME Types, NEW n \in Nat, n <= arrived, Consume(n)
  PROVE  /\ stream' \in Seq(Byte) /\ Len(stream') = Len(stream) - n
         /\ \A i \in 1..Len(stream') : stream'[i] = stream[n + i]
         /\ arrived' \in 0..Len(stream')
<1>1. stream \in Seq(Byte) /\ arrived \in 0..Len(stream)
  BY DEF Types
<1>2. n + 1 \in 1..(Len(stream) + 1)
  BY <1>1
<1>3. stream' = SubSeq(stream, n + 1, Len(stream)) /\ arrived' = arrived - n
  BY DEF Consume
<1> QED
  BY <1>1, <1>2, <1>3

LEMMA LengthType ==
  ASSUME Types, NEW k \in 0..Width, k <= arrived
  PROVE  Length(k) \in Nat
<1> DEFINE d == [i \in 1..Width |-> IF i <= k THEN stream[i] ELSE 0]
<1>1. ASSUME NEW i \in 1..Width PROVE d[i] \in Nat
  <2>1. i <= k => stream[i] \in Byte
    BY Constants DEF Types
  <2> QED
    BY <2>1, Constants
<1> HIDE DEF d
<1>2. Value(d) \in [0..Width -> Nat]
  BY <1>1, ValueDef
<1>3. Unsigned(d) \in Nat
  BY <1>2, Constants DEF Unsigned
<1> QED
  BY <1>3 DEF Length, d

LEMMA TypesInit == Init => Types
<1> SUFFICES ASSUME Init PROVE Types
  OBVIOUS
<1>1. \A S : <<>> \in Seq(S)
  OBVIOUS
<1>2. /\ sent \in Seq(Items(reader)) /\ stream \in Seq(Byte)
      /\ got \in Seq(Seq(Byte))
  BY <1>1, Zenon DEF Init
<1>3. Len(sent) <= MaxSent /\ arrived \in 0..Len(stream)
  BY WireAssumption DEF Init
<1>4. need \in 0..(IF reader = "core" THEN MaxFrameSize ELSE MaxRpcFrame)
  BY WireAssumption DEF Init
<1>5. /\ reader \in {"core", "rpc"} /\ pc \in {"length", "body", "closed"}
      /\ eof \in BOOLEAN /\ short \in BOOLEAN
  BY DEF Init
<1> QED
  BY <1>2, <1>3, <1>4, <1>5, Zenon DEF Types

LEMMA TypesStep == Types /\ [Next]_wireVars => Types'
<1> SUFFICES ASSUME Types, [Next]_wireVars PROVE Types'
  OBVIOUS
<1>1. CASE WriteFrame
  <2>1. PICK x \in Items(reader) :
          sent' = Append(sent, x) /\ stream' = stream \o EncodeFrame(Payload(x))
    BY <1>1 DEF WriteFrame, Items, Types
  <2>2. EncodeFrame(Payload(x)) = Frame(reader, x)
    BY DEF EncodeFrame, Payload, Frame, Body, Types
  <2>3. Frame(reader, x) \in Seq(Byte)
    BY FrameType DEF Types
  <2>4. stream' \in Seq(Byte) /\ Len(stream) <= Len(stream')
    <3> DEFINE f == Frame(reader, x)
    <3>1. stream \in Seq(Byte) /\ f \in Seq(Byte) /\ stream' = stream \o f
      BY <2>1, <2>2, <2>3 DEF Types
    <3> HIDE DEF f
    <3> QED
      BY <3>1
  <2>5. sent' \in Seq(Items(reader)) /\ Len(sent') <= MaxSent
    BY <1>1, <2>1, WireAssumption DEF Types, WriteFrame
  <2>6. arrived \in 0..Len(stream')
    BY <2>4 DEF Types
  <2> QED
    BY <1>1, <2>4, <2>5, <2>6 DEF Types, WriteFrame
<1>2. CASE Arrive
  BY <1>2 DEF Arrive, Types
<1>3. CASE End
  <2>1. stream' = SubSeq(stream, 1, arrived) /\ arrived \in 0..Len(stream)
        /\ stream \in Seq(Byte)
    BY <1>3 DEF End, Types
  <2>2. stream' \in Seq(Byte) /\ Len(stream') = arrived
    BY <2>1
  <2> QED
    BY <1>3, <2>1, <2>2 DEF End, Types
<1>4. CASE CoreReadLength
  <2>1. ReadOnce \in Nat /\ ReadOnce <= arrived /\ Length(ReadOnce) \in Nat
    BY ReadOnceType, LengthType
  <2>2. Consume(ReadOnce)
    BY <1>4 DEF CoreReadLength
  <2>3. stream' \in Seq(Byte) /\ arrived' \in 0..Len(stream')
    BY <2>1, <2>2, ConsumeType
  <2>4. /\ Accept(Length(ReadOnce), CoreLength(Length(ReadOnce)))
        /\ reader = "core" /\ UNCHANGED <<reader, sent, eof, got, short>>
    BY <1>4 DEF CoreReadLength
  <2>5. need' \in 0..MaxFrameSize /\ pc' \in {"body", "closed"}
    <3> DEFINE n == Length(ReadOnce)
    <3> HIDE DEF n
    <3>1. n \in Nat /\ Accept(n, CoreLength(n))
      BY <2>1, <2>4 DEF n
    <3> QED
      BY <3>1, WireAssumption DEF Accept, CoreLength
  <2> QED
    BY <2>3, <2>4, <2>5 DEF Types
<1>5. CASE RpcReadLength
  <2>1. ReadOnce \in Nat /\ ReadOnce <= arrived /\ Length(ReadOnce) \in Nat
    BY ReadOnceType, LengthType
  <2>2. Consume(ReadOnce)
    BY <1>5 DEF RpcReadLength
  <2>3. stream' \in Seq(Byte) /\ arrived' \in 0..Len(stream')
    BY <2>1, <2>2, ConsumeType
  <2>4. /\ Accept(Length(ReadOnce), RpcLength(Length(ReadOnce)))
        /\ reader = "rpc" /\ UNCHANGED <<reader, sent, eof, got>>
        /\ short' = (short \/ ReadOnce < Width)
    BY <1>5 DEF RpcReadLength
  <2>5. need' \in 0..MaxRpcFrame /\ pc' \in {"body", "closed"}
    <3> DEFINE n == Length(ReadOnce)
    <3> HIDE DEF n
    <3>1. n \in Nat /\ Accept(n, RpcLength(n))
      BY <2>1, <2>4 DEF n
    <3> QED
      BY <3>1, WireAssumption DEF Accept, RpcLength
  <2>6. short' \in BOOLEAN
    BY <2>4, Zenon DEF Types
  <2> QED
    BY <2>3, <2>4, <2>5, <2>6 DEF Types
<1>6. CASE ReadBody
  <2>1. need \in Nat /\ need <= arrived /\ Consume(need)
    BY <1>6, WireAssumption DEF ReadBody, Types
  <2>2. stream' \in Seq(Byte) /\ arrived' \in 0..Len(stream')
    BY <2>1, ConsumeType
  <2>3. got' \in Seq(Seq(Byte))
    <3> DEFINE b == SubSeq(stream, 1, need)
    <3>1. b \in Seq(Byte)
      BY <2>1 DEF Types
    <3> HIDE DEF b
    <3>2. got' = Append(got, b) /\ got \in Seq(Seq(Byte))
      BY <1>6 DEF ReadBody, Types, b
    <3> QED
      BY <3>1, <3>2
  <2> QED
    BY <1>6, <2>2, <2>3, WireAssumption DEF ReadBody, Types
<1>7. CASE ReadEof
  BY <1>7, WireAssumption DEF ReadEof, Types
<1>8. CASE UNCHANGED wireVars
  BY <1>8 DEF wireVars, Types
<1> QED
  BY <1>1, <1>2, <1>3, <1>4, <1>5, <1>6, <1>7, <1>8 DEF Next, Read

LEMMA TypesHold == Spec => []Types
<1> QED
  BY TypesInit, TypesStep, PTL DEF Spec

\* The two ends keep their types, and the length that was read is one the
\* reader accepts.
THEOREM TypeCorrect == Spec => []TypeOK
<1>1. Types => TypeOK
  <2> SUFFICES ASSUME Types PROVE \A p \in Range(got) : p \in Seq(Byte)
    BY DEF Types, TypeOK
  <2> QED
    BY DEF Types, Range
<1> QED
  BY <1>1, TypesHold, PTL

-----------------------------------------------------------------------------
(* The stream keeps the frames.                                            *)

\* Between two frames, the bytes that are there are those of the next one.
LEMMA NextFrame ==
  ASSUME Types, Received, pc = "length", Len(stream) > 0,
         NEW pos, Positions(pos), Remaining(pos)
  PROVE  /\ Len(got) < Len(sent)
         /\ sent[Len(got) + 1] \in Items(reader)
         /\ \A j \in 1..Len(stream) :
              j <= Len(Frame(reader, sent[Len(got) + 1])) =>
                stream[j] = Frame(reader, sent[Len(got) + 1])[j]
<1> DEFINE g == Len(got)
           N == Len(sent)
           f == Frame(reader, sent[g + 1])
<1>1. g \in Nat /\ N \in Nat /\ g <= N /\ Len(stream) \in Nat
  BY DEF Types, Received
<1>2. Taken(pos) = pos[g + 1] /\ pos[g + 1] \in Nat /\ pos[N + 1] \in Nat
  <2>1. pos[g + 1] \in Nat /\ pos[N + 1] \in Nat
    BY <1>1 DEF Positions
  <2> QED
    BY <2>1 DEF Taken
<1>3. g < N
  <2>1. Taken(pos) + Len(stream) <= pos[N + 1]
    BY DEF Remaining
  <2> QED
    BY <1>1, <1>2, <2>1
<1>4. g + 1 \in 1..N /\ sent[g + 1] \in Items(reader)
  <2>1. g + 1 \in 1..N
    BY <1>1, <1>3
  <2> QED
    BY <2>1 DEF Types
<1>5. Len(f) \in Nat
  <2>1. f \in Seq(Byte)
    BY <1>4, FrameType DEF Types
  <2> HIDE DEF f
  <2> QED
    BY <2>1
<1>6. ASSUME NEW j \in 1..Len(stream), j <= Len(f) PROVE stream[j] = f[j]
  <2>1. j \in 1..Len(f) /\ pos[g + 1] + j - Taken(pos) = j
    BY <1>1, <1>2, <1>5, <1>6
  <2> QED
    BY <1>4, <2>1 DEF Remaining
<1> QED
  BY <1>3, <1>4, <1>6

\* A length that was read whole is the one that was written.
LEMMA WholeLength ==
  ASSUME Types, Received, pc = "length", arrived >= Width,
         NEW pos, Positions(pos), Remaining(pos)
  PROVE  Length(Width) = Len(Body(reader, sent[Len(got) + 1]))
<1> DEFINE x == sent[Len(got) + 1]
           n == Len(Body(reader, x))
           d == [i \in 1..Width |-> IF i <= Width THEN stream[i] ELSE 0]
<1>1. Len(stream) \in Nat /\ Len(stream) >= Width /\ Len(stream) > 0
  BY Constants DEF Types
<1>2. /\ x \in Items(reader)
      /\ \A j \in 1..Len(stream) : j <= Len(Frame(reader, x)) =>
           stream[j] = Frame(reader, x)[j]
  BY <1>1, NextFrame
<1>3. n \in Nat /\ n < Limit
  <2>1. Body(reader, x) \in Seq(Byte) /\ n < Limit
    BY <1>2, BodyType DEF Types
  <2> QED
    BY <2>1
<1>4. ASSUME NEW i \in 1..Width PROVE d[i] = Int32(n)[i]
  <2>1. Frame(reader, x)[i] = Int32(n)[i]
        /\ Len(Frame(reader, x)) = Width + n
    BY <1>2, FrameType DEF Types
  <2>2. i \in 1..Len(stream) /\ i <= Width + n
    BY <1>1, <1>3, Constants
  <2> QED
    BY <1>2, <2>1, <2>2
<1>5. d = Int32(n)
  BY <1>4 DEF Int32
<1>6. Unsigned(Int32(n)) = n
  BY <1>3, RoundTrip
<1> QED
  BY <1>5, <1>6 DEF Length

\* A part of a length below Base is read as zero.
LEMMA PartLength ==
  ASSUME Types, Received, pc = "length",
         NEW k \in 1..(Width - 1), k <= arrived,
         Len(Body(reader, sent[Len(got) + 1])) < Base,
         NEW pos, Positions(pos), Remaining(pos)
  PROVE  Length(k) = 0
<1> DEFINE x == sent[Len(got) + 1]
           n == Len(Body(reader, x))
           d == [i \in 1..Width |-> IF i <= k THEN stream[i] ELSE 0]
<1>1. Len(stream) \in Nat /\ Len(stream) >= k /\ Len(stream) > 0
  BY Constants DEF Types
<1>2. /\ x \in Items(reader)
      /\ \A j \in 1..Len(stream) : j <= Len(Frame(reader, x)) =>
           stream[j] = Frame(reader, x)[j]
  BY <1>1, NextFrame
<1>3. n \in Nat /\ n < Base
  <2>1. Body(reader, x) \in Seq(Byte)
    BY <1>2, BodyType DEF Types
  <2> QED
    BY <2>1
<1>4. ASSUME NEW i \in 1..Width PROVE d[i] = 0
  <2> SUFFICES ASSUME i <= k PROVE stream[i] = 0
    OBVIOUS
  <2>1. Frame(reader, x)[i] = Int32(n)[i]
        /\ Len(Frame(reader, x)) = Width + n
    BY <1>2, FrameType DEF Types
  <2>2. /\ i \in 1..Len(stream) /\ i <= Width + n
        /\ i \in 1..(Width - 1)
    BY <1>1, <1>3, Constants
  <2>3. Int32(n)[i] = 0
    BY <1>3, <2>2, LeadingZeros
  <2> QED
    BY <1>2, <2>1, <2>2, <2>3
<1>5. Unsigned(d) = 0
  <2> HIDE DEF d
  <2> QED
    BY <1>4, ZeroValue
<1> QED
  BY <1>5 DEF Length

\* A reader that goes on by as many bytes as it takes keeps its place.
LEMMA ConsumeRemaining ==
  ASSUME Types, NEW n \in Nat, n <= arrived, Consume(n),
         UNCHANGED <<reader, sent, eof>>,
         NEW pos, Positions(pos), Remaining(pos),
         Taken(pos) \in Nat, Taken(pos)' = Taken(pos) + n
  PROVE  Positions(pos)' /\ Remaining(pos)'
<1> DEFINE c == Taken(pos)
           L == Len(stream)
           N == Len(sent)
<1>1. /\ Len(stream') = L - n /\ L \in Nat /\ N \in Nat /\ c \in Nat
      /\ \A i \in 1..Len(stream') : stream'[i] = stream[n + i]
  <2>1. Len(stream) \in Nat /\ Len(sent) \in Nat
    BY DEF Types
  <2>2. /\ Len(stream') = Len(stream) - n
        /\ \A i \in 1..Len(stream') : stream'[i] = stream[n + i]
    BY ConsumeType
  <2> QED
    BY <2>1, <2>2
<1>2. reader' = reader /\ sent' = sent /\ eof' = eof
  OBVIOUS
<1>3. pos[N + 1] \in Nat /\ \A i \in 1..N : pos[i] \in Nat
  <2>1. N \in Nat /\ pos \in [1..(N + 1) -> Nat]
    BY <1>1 DEF Positions
  <2> HIDE DEF N
  <2> QED
    BY <2>1
<1>4. Positions(pos)'
  BY <1>2 DEF Positions
<1>5. /\ Taken(pos)' + Len(stream') <= pos[N + 1]
      /\ ~eof => Taken(pos)' + Len(stream') = pos[N + 1]
  <2>1. c + L <= pos[N + 1] /\ (~eof => c + L = pos[N + 1])
    BY DEF Remaining
  <2> QED
    BY <1>1, <1>3, <2>1
<1>6. ASSUME NEW i \in 1..N, NEW j \in 1..Len(Frame(reader, sent[i])),
             pos[i] + j - Taken(pos)' \in 1..Len(stream')
      PROVE  stream'[pos[i] + j - Taken(pos)'] = Frame(reader, sent[i])[j]
  <2> DEFINE q == pos[i] + j - Taken(pos)'
  <2>0. Taken(pos)' = c + n
    OBVIOUS
  <2>1. n + q = pos[i] + j - c /\ n + q \in 1..L
    <3> HIDE DEF c, L
    <3>1. q = pos[i] + j - (c + n) /\ q \in 1..(L - n)
      BY <1>1, <1>6, <2>0
    <3>2. pos[i] \in Nat /\ j \in Int /\ c \in Nat /\ n \in Nat /\ L \in Nat
      BY <1>1, <1>3
    <3>3. \A x, y, q0 \in Int : q0 = x + y - (c + n) /\ q0 \in 1..(L - n)
            => n + q0 = x + y - c /\ n + q0 \in 1..L
      BY <3>2
    <3> HIDE DEF q
    <3>4. q \in Int /\ pos[i] \in Int
      BY <3>1, <3>2
    <3> QED
      BY <3>1, <3>2, <3>3, <3>4
  <2>2. stream[n + q] = Frame(reader, sent[i])[j]
    BY <2>1 DEF Remaining
  <2>3. stream'[q] = stream[n + q]
    BY <1>1, <1>6
  <2> QED
    BY <2>2, <2>3
<1> QED
  BY <1>2, <1>5, <1>6, <1>4 DEF Remaining

-----------------------------------------------------------------------------
(* The invariant is kept.                                                  *)

LEMMA FramingInit == Init => Framing
<1> SUFFICES ASSUME Init PROVE Received /\ InStep
  BY DEF Framing
<1>1. /\ sent = <<>> /\ got = <<>> /\ stream = <<>>
      /\ pc = "length" /\ short = FALSE
  BY DEF Init
<1>2. Len(sent) = 0 /\ Len(got) = 0 /\ Len(stream) = 0
  BY <1>1
<1>3. Received
  BY <1>1, <1>2 DEF Received
<1> DEFINE pos == [i \in 1..1 |-> 0]
<1>4. Positions(pos)
  BY <1>2 DEF Positions
<1>5. Taken(pos) = 0
  BY <1>1, <1>2 DEF Taken
<1>6. Remaining(pos)
  BY <1>2, <1>5 DEF Remaining
<1> QED
  BY <1>3, <1>4, <1>6 DEF InStep

\* A frame is added to what was written and to the stream.
LEMMA WriteKeepsFraming ==
  ASSUME Types, Received, InStep, WriteFrame
  PROVE  Received' /\ InStep'
<1> DEFINE N == Len(sent)
           L == Len(stream)
<1>1. PICK x \in Items(reader) :
        sent' = Append(sent, x) /\ stream' = stream \o EncodeFrame(Payload(x))
  BY DEF WriteFrame, Items, Types
<1> DEFINE f == Frame(reader, x)
<1>2. EncodeFrame(Payload(x)) = f
  BY DEF EncodeFrame, Payload, Frame, Body, Types
<1>3. f \in Seq(Byte) /\ Len(f) \in Nat
  <2>1. f \in Seq(Byte)
    BY FrameType DEF Types
  <2> HIDE DEF f
  <2> QED
    BY <2>1
<1> HIDE DEF f
<1>4. /\ reader' = reader /\ eof' = eof /\ ~eof /\ pc' = pc /\ need' = need
      /\ got' = got /\ short' = short
  BY DEF WriteFrame
<1>5. /\ N \in Nat /\ Len(sent') = N + 1 /\ sent'[N + 1] = x
      /\ \A i \in 1..N : sent'[i] = sent[i]
  BY <1>1 DEF Types
<1>6. /\ L \in Nat /\ Len(stream') = L + Len(f)
      /\ \A k \in 1..L : stream'[k] = stream[k]
      /\ \A j \in 1..Len(f) : stream'[L + j] = f[j]
  <2>1. stream \in Seq(Byte) /\ stream' = stream \o f
    BY <1>1, <1>2 DEF Types
  <2> QED
    BY <1>3, <2>1
<1>7. Len(got) \in Nat /\ Len(got) <= N
  BY DEF Types, Received
<1>8. Received'
  <2>1. Len(got') <= Len(sent')
    BY <1>4, <1>5, <1>7
  <2>2. ASSUME NEW i \in 1..Len(got') PROVE got'[i] = Body(reader', sent'[i])
    <3>1. i \in 1..Len(got) /\ i \in 1..N
      BY <1>4, <1>7, <2>2
    <3>2. got[i] = Body(reader, sent[i]) /\ sent'[i] = sent[i]
      BY <1>5, <3>1 DEF Received
    <3> QED
      BY <1>4, <3>2
  <2>3. short' => pc' = "closed"
    BY <1>4 DEF Received
  <2>4. ASSUME pc' = "body"
        PROVE  /\ Len(got') < Len(sent')
               /\ need' = Len(Body(reader', sent'[Len(got') + 1]))
    <3>1. /\ Len(got) < N /\ need = Len(Body(reader, sent[Len(got) + 1]))
      BY <1>4, <2>4 DEF Received
    <3>2. Len(got) + 1 \in 1..N
      BY <1>5, <1>7, <3>1
    <3>3. sent'[Len(got) + 1] = sent[Len(got) + 1]
      BY <1>5, <3>2
    <3> QED
      BY <1>4, <1>5, <1>7, <3>1, <3>3
  <2> QED
    BY <2>1, <2>2, <2>3, <2>4 DEF Received
<1>9. ASSUME pc # "closed" PROVE \E pos : (Positions(pos) /\ Remaining(pos))'
  <2>1. PICK pos : Positions(pos) /\ Remaining(pos)
    BY <1>9 DEF InStep
  <2> DEFINE last == pos[N + 1]
             c == Taken(pos)
  <2>2. \A i \in 1..(N + 1) : pos[i] \in Nat /\ pos[i] <= last
    BY <2>1 DEF Positions
  <2>3. last \in Nat
    BY <1>5, <2>2
  <2>4. PICK new : /\ new \in [1..(N + 2) -> Nat] /\ new[N + 2] = last + Len(f)
                   /\ \A i \in 1..(N + 1) : new[i] = pos[i]
    <3> DEFINE q == [i \in 1..(N + 2) |->
                       IF i = N + 2 THEN last + Len(f) ELSE pos[i]]
    <3>1. /\ q \in [1..(N + 2) -> Nat] /\ q[N + 2] = last + Len(f)
          /\ \A i \in 1..(N + 1) : q[i] = pos[i]
      BY <1>3, <1>5, <2>2, <2>3
    <3> QED
      BY <3>1
  <2>5. c \in Nat /\ c + L = last /\ Taken(new)' = c
    <3>1. Len(got) + 1 \in 1..(N + 1)
      BY <1>5, <1>7
    <3>2. c \in Nat
      BY <2>2, <3>1, Constants DEF Taken
    <3>3. c + L = last
      BY <1>4, <2>1 DEF Remaining
    <3>4. Taken(new)' = c
      BY <1>4, <2>4, <3>1 DEF Taken
    <3> QED
      BY <3>2, <3>3, <3>4
  <2> HIDE DEF last, c
  <2>6. Positions(new)'
    <3>1. new \in [1..(Len(sent') + 1) -> Nat]
      BY <1>5, <2>4
    <3>2. ASSUME NEW i \in 1..Len(sent')
          PROVE  new[i + 1] = new[i] + Len(Frame(reader', sent'[i]))
      <4>1. CASE i = N + 1
        <5>1. new[i] = last /\ new[i + 1] = last + Len(f)
          BY <1>5, <2>4, <4>1 DEF last
        <5> QED
          BY <1>4, <1>5, <4>1, <5>1 DEF f
      <4>2. CASE i # N + 1
        <5>1. i \in 1..N /\ i \in 1..(N + 1) /\ i + 1 \in 1..(N + 1)
          BY <1>5, <4>2
        <5>2. pos[i + 1] = pos[i] + Len(Frame(reader, sent[i]))
          BY <2>1, <5>1 DEF Positions
        <5> QED
          BY <1>4, <1>5, <2>4, <5>1, <5>2
      <4> QED
        BY <4>1, <4>2
    <3>3. ASSUME NEW i \in 1..(Len(sent') + 1)
          PROVE  new[i] <= new[Len(sent') + 1]
      BY <1>3, <1>5, <2>2, <2>3, <2>4
    <3> QED
      BY <3>1, <3>2, <3>3 DEF Positions
  <2>7. ASSUME NEW i \in 1..Len(sent'),
               NEW j \in 1..Len(Frame(reader', sent'[i])),
               new[i] + j - c \in 1..Len(stream')
        PROVE  stream'[new[i] + j - c] = Frame(reader', sent'[i])[j]
    <3>1. CASE i = N + 1
      <4>1. new[i] = last /\ Frame(reader', sent'[i]) = f
        BY <1>4, <1>5, <2>4, <3>1 DEF last, f
      <4>2. new[i] + j - c = L + j /\ j \in 1..Len(f)
        <5>1. L \in Nat /\ j \in 1..Len(f)
          BY <1>6, <4>1
        <5> HIDE DEF L, N
        <5> QED
          BY <2>3, <2>5, <4>1, <5>1
      <4> QED
        BY <1>6, <4>1, <4>2
    <3>2. CASE i # N + 1
      <4>1. i \in 1..N /\ i \in 1..(N + 1) /\ i + 1 \in 1..(N + 1)
        BY <1>5, <3>2
      <4>2. Frame(reader', sent'[i]) = Frame(reader, sent[i]) /\ new[i] = pos[i]
        BY <1>4, <1>5, <2>4, <4>1
      <4> DEFINE l == Len(Frame(reader, sent[i]))
      <4>3. pos[i] + l = pos[i + 1] /\ l \in Nat
        <5>1. sent[i] \in Items(reader)
          BY <4>1 DEF Types
        <5>2. Frame(reader, sent[i]) \in Seq(Byte)
          BY <5>1, FrameType DEF Types
        <5>3. l \in Nat
          BY <5>2
        <5> QED
          BY <2>1, <4>1, <5>3 DEF Positions
      <4>4. j \in 1..l
        BY <4>2
      <4> HIDE DEF l
      <4>5. pos[i] + j - c <= L /\ pos[i] + j - c >= 1
        <5>1. pos[i] + l <= last
          BY <2>2, <4>1, <4>3
        <5>2. pos[i] + j <= c + L
          BY <2>2, <2>3, <2>5, <4>1, <4>3, <4>4, <5>1
        <5> QED
          BY <1>6, <2>2, <2>5, <2>7, <4>1, <4>2, <4>4, <5>2
      <4>6. pos[i] + j - c \in 1..L
        BY <1>6, <2>2, <2>5, <4>1, <4>4, <4>5
      <4>7. stream[pos[i] + j - c] = Frame(reader, sent[i])[j]
        BY <2>1, <4>1, <4>4, <4>6 DEF Remaining, c, l
      <4> QED
        BY <1>6, <4>2, <4>6, <4>7
    <3> QED
      BY <3>1, <3>2
  <2>8. c + Len(stream') = new[Len(sent') + 1]
    <3>1. Len(sent') + 1 = N + 2
      BY <1>5
    <3>2. Len(stream') = L + Len(f) /\ L \in Nat
      BY <1>6
    <3> HIDE DEF L, N
    <3> QED
      BY <1>3, <2>3, <2>4, <2>5, <3>1, <3>2
  <2>9. Remaining(new)'
    <3>1. c + Len(stream') \in Nat
      BY <1>3, <1>6, <2>5
    <3> QED
      BY <2>5, <2>7, <2>8, <3>1 DEF Remaining
  <2> QED
    BY <2>6, <2>9
<1>10. InStep'
  BY <1>4, <1>9 DEF InStep
<1> QED
  BY <1>8, <1>10

\* The end cuts the stream.
LEMMA EndKeepsFraming ==
  ASSUME Types, Received, InStep, End
  PROVE  Received' /\ InStep'
<1>1. /\ eof' = TRUE /\ reader' = reader /\ sent' = sent /\ pc' = pc
      /\ need' = need /\ got' = got /\ short' = short
  BY DEF End
<1>2. Received'
  BY <1>1 DEF Received
<1>3. /\ stream \in Seq(Byte) /\ arrived \in 0..Len(stream)
      /\ stream' = SubSeq(stream, 1, arrived)
  BY DEF End, Types
<1>4. /\ Len(stream') = arrived
      /\ \A k \in 1..Len(stream') : k \in 1..Len(stream)
                                    /\ stream'[k] = stream[k]
  BY <1>3
<1>5. ASSUME NEW pos, Positions(pos), Remaining(pos)
      PROVE  Positions(pos)' /\ Remaining(pos)'
  <2>1. Positions(pos)'
    BY <1>1, <1>5 DEF Positions
  <2>2. Taken(pos)' = Taken(pos)
    BY <1>1 DEF Taken
  <2>3. Taken(pos) + Len(stream') <= pos[Len(sent) + 1]
    <3>1. Taken(pos) \in Nat
      <4>1. Len(got) + 1 \in 1..(Len(sent) + 1)
        BY DEF Types, Received
      <4> QED
        BY <1>5, <4>1, Constants DEF Positions, Taken
    <3>2. pos[Len(sent) + 1] \in Nat
      BY <1>5 DEF Positions, Types
    <3>3. Taken(pos) + Len(stream) <= pos[Len(sent) + 1]
      BY <1>5 DEF Remaining
    <3>4. /\ Len(stream') <= Len(stream)
          /\ Len(stream) \in Nat /\ Len(stream') \in Nat
      BY <1>3, <1>4
    <3> QED
      BY <3>1, <3>2, <3>3, <3>4
  <2>4. ASSUME NEW i \in 1..Len(sent),
               NEW j \in 1..Len(Frame(reader, sent[i])),
               pos[i] + j - Taken(pos) \in 1..Len(stream')
        PROVE  stream'[pos[i] + j - Taken(pos)] = Frame(reader, sent[i])[j]
    BY <1>4, <1>5, <2>4 DEF Remaining
  <2> QED
    BY <1>1, <2>1, <2>2, <2>3, <2>4 DEF Remaining
<1> QED
  BY <1>1, <1>2, <1>5 DEF InStep

\* A length that was read whole is that of the next payload.
LEMMA LengthKeepsFraming ==
  ASSUME Types, Received, InStep, pc = "length", arrived >= Width,
         NEW ok \in BOOLEAN, Accept(Length(Width), ok), Consume(Width),
         UNCHANGED <<reader, sent, eof, got>>, short' => short
  PROVE  Received' /\ InStep'
<1> DEFINE g == Len(got)
           N == Len(sent)
<1>1. PICK pos : Positions(pos) /\ Remaining(pos)
  BY DEF InStep
<1>2. g < N /\ g \in Nat /\ N \in Nat
  <2>1. Len(stream) > 0 /\ g \in Nat /\ N \in Nat
    BY Constants DEF Types
  <2> QED
    BY <1>1, <2>1, NextFrame
<1>3. Length(Width) = Len(Body(reader, sent[g + 1]))
  BY <1>1, WholeLength
<1>4. ~short'
  <2>1. pc # "closed"
    OBVIOUS
  <2>2. ~short
    BY <2>1, Zenon DEF Received
  <2> QED
    BY <2>2, Zenon
<1>5. pc' = "closed" \/ (pc' = "body" /\ need' = Length(Width))
  BY DEF Accept
<1>6. Received'
  BY <1>2, <1>3, <1>4, <1>5 DEF Received
<1>7. ASSUME pc' # "closed" PROVE Positions(pos)' /\ Remaining(pos)'
  <2>1. pos[g + 1] \in Nat
    BY <1>1, <1>2 DEF Positions
  <2>2. Taken(pos) = pos[g + 1] /\ Taken(pos)' = pos[g + 1] + Width
    BY <1>5, <1>7, <2>1 DEF Taken
  <2>3. Taken(pos) \in Nat /\ Taken(pos)' = Taken(pos) + Width
        /\ Width \in Nat /\ Width <= arrived
    BY <2>1, <2>2, Constants DEF Types
  <2> QED
    BY <1>1, <2>3, ConsumeRemaining
<1> QED
  BY <1>6, <1>7 DEF InStep

\* A payload is taken whole.
LEMMA BodyKeepsFraming ==
  ASSUME Types, Received, InStep, ReadBody
  PROVE  Received' /\ InStep'
<1> DEFINE g == Len(got)
           N == Len(sent)
           b == Body(reader, sent[g + 1])
<1>1. /\ pc = "body" /\ pc' = "length" /\ arrived >= need
      /\ got' = Append(got, SubSeq(stream, 1, need)) /\ Consume(need)
      /\ UNCHANGED <<reader, sent, eof, short>>
  BY DEF ReadBody
<1>2. PICK pos : Positions(pos) /\ Remaining(pos)
  BY <1>1 DEF InStep
<1>3. g < N /\ g \in Nat /\ N \in Nat /\ need = Len(b)
  BY <1>1 DEF Received, Types
<1>4. g + 1 \in 1..N /\ sent[g + 1] \in Items(reader)
  <2>1. g + 1 \in 1..N
    BY <1>3
  <2> QED
    BY <2>1 DEF Types
<1>5. b \in Seq(Byte)
  BY <1>4, BodyType DEF Types
<1>6. /\ Len(Frame(reader, sent[g + 1])) = Width + Len(b)
      /\ \A i \in 1..Len(b) : Frame(reader, sent[g + 1])[Width + i] = b[i]
  BY <1>4, FrameType DEF Types
<1> HIDE DEF b
<1>7. /\ pos[g + 1] \in Nat /\ pos[g + 2] = pos[g + 1] + Width + Len(b)
      /\ Taken(pos) = pos[g + 1] + Width
  <2>1. (g + 1) + 1 = g + 2 /\ g + 1 \in 1..(N + 1)
    BY <1>3
  <2>2. pos[g + 1] \in Nat /\ pos[(g + 1) + 1] = pos[g + 1] + (Width + Len(b))
    BY <1>2, <1>4, <1>6, <2>1 DEF Positions
  <2>3. Len(b) \in Nat
    BY <1>5
  <2> QED
    BY <1>1, <2>1, <2>2, <2>3, Constants DEF Taken
<1>8. stream \in Seq(Byte) /\ Len(b) \in Nat /\ Len(b) <= Len(stream)
      /\ Len(b) <= arrived
  BY <1>1, <1>3, <1>5 DEF Types
<1>9. SubSeq(stream, 1, need) = b
  <2> DEFINE q == SubSeq(stream, 1, need)
  <2>1. /\ q \in Seq(Byte) /\ Len(q) = Len(b)
        /\ \A j \in 1..Len(b) : q[j] = stream[j]
    BY <1>3, <1>8
  <2>2. ASSUME NEW j \in 1..Len(b) PROVE stream[j] = b[j]
    <3> DEFINE p == pos[g + 1]
    <3>1. Width + j \in 1..(Width + Len(b)) /\ p + (Width + j) - Taken(pos) = j
      <4>1. p \in Nat /\ Taken(pos) = p + Width /\ j \in Nat
        BY <1>7
      <4> HIDE DEF p
      <4> QED
        BY <1>8, <4>1, Constants
    <3>2. j \in 1..Len(stream)
      BY <1>8
    <3>3. stream[p + (Width + j) - Taken(pos)]
            = Frame(reader, sent[g + 1])[Width + j]
      BY <1>2, <1>4, <1>6, <3>1, <3>2 DEF Remaining
    <3> QED
      BY <1>6, <3>1, <3>3
  <2> HIDE DEF q
  <2>3. q = b
    BY <1>5, <2>1, <2>2, SeqEqual
  <2> QED
    BY <2>3 DEF q
<1>10. /\ Len(got') = g + 1 /\ got'[g + 1] = b
       /\ \A i \in 1..g : got'[i] = got[i]
  <2>1. got \in Seq(Seq(Byte)) /\ got' = Append(got, b)
    BY <1>1, <1>9 DEF Types
  <2> QED
    BY <2>1
<1>11. Received'
  <2>1. ASSUME NEW i \in 1..Len(got') PROVE got'[i] = Body(reader, sent[i])
    <3>1. CASE i = g + 1
      BY <1>10, <3>1 DEF b
    <3>2. CASE i # g + 1
      <4>1. i \in 1..g
        BY <1>3, <1>10, <3>2
      <4> QED
        BY <1>10, <4>1 DEF Received
    <3> QED
      BY <3>1, <3>2
  <2>2. short' => pc' = "closed"
    BY <1>1 DEF Received
  <2> QED
    BY <1>1, <1>3, <1>10, <2>1, <2>2 DEF Received
<1>12. Positions(pos)' /\ Remaining(pos)'
  <2>1. Taken(pos)' = pos[g + 2]
    <3>1. Len(got') + 1 = g + 2
      BY <1>3, <1>10
    <3>2. pos[g + 2] \in Nat
      BY <1>7, <1>8, Constants
    <3> QED
      BY <1>1, <3>1, <3>2 DEF Taken
  <2>2. Taken(pos) \in Nat /\ Taken(pos)' = Taken(pos) + need /\ need \in Nat
        /\ need <= arrived
    BY <1>3, <1>7, <1>8, <2>1, Constants
  <2> QED
    BY <1>1, <1>2, <2>2, ConsumeRemaining
<1> QED
  BY <1>11, <1>12 DEF InStep

LEMMA FramingStep == Types /\ Framing /\ [Next]_wireVars => Framing'
<1> SUFFICES ASSUME Types, Framing, [Next]_wireVars, Sane'
             PROVE  Received' /\ InStep'
  BY DEF Framing
<1>1. Sane
  <2>1. CASE WriteFrame
    <3>1. PICK x : sent' = Append(sent, x)
      BY <2>1 DEF WriteFrame
    <3>2. /\ Len(sent) \in Nat /\ Len(sent') = Len(sent) + 1
          /\ \A i \in 1..Len(sent) : sent'[i] = sent[i]
      BY <3>1 DEF Types
    <3> QED
      BY <2>1, <3>2 DEF Sane, WriteFrame
  <2>2. CASE ~WriteFrame
    <3>1. sent' = sent /\ reader' = reader
      BY <2>2 DEF Next, Read, Arrive, End, CoreReadLength, RpcReadLength,
                  ReadBody, ReadEof, wireVars
    <3> QED
      BY <3>1 DEF Sane
  <2> QED
    BY <2>1, <2>2
<1>2. Received /\ InStep
  BY <1>1 DEF Framing
<1>3. CASE WriteFrame
  BY <1>2, <1>3, WriteKeepsFraming
<1>4. CASE Arrive
  <2>1. UNCHANGED <<reader, sent, stream, eof, pc, need, got, short>>
    BY <1>4 DEF Arrive
  <2>2. Received'
    BY <1>2, <2>1 DEF Received
  <2>3. \A pos : /\ Positions(pos) => Positions(pos)'
                 /\ Remaining(pos) => Remaining(pos)'
    BY <2>1 DEF Positions, Remaining, Taken
  <2> QED
    BY <1>2, <2>1, <2>2, <2>3 DEF InStep
<1>5. CASE End
  BY <1>2, <1>5, EndKeepsFraming
<1>6. CASE CoreReadLength
  <2>1. ReadOnce = Width /\ arrived >= Width
    BY <1>6, Constants DEF CoreReadLength, ReadFull, ReadOnce, Types
  <2> DEFINE ok == CoreLength(Length(Width))
  <2>2. /\ pc = "length" /\ Accept(Length(Width), ok) /\ Consume(Width)
        /\ UNCHANGED <<reader, sent, eof, got>> /\ short' = short
        /\ ok \in BOOLEAN
    BY <1>6, <2>1 DEF CoreReadLength, CoreLength
  <2> HIDE DEF ok
  <2> QED
    BY <1>2, <2>1, <2>2, LengthKeepsFraming
<1>7. CASE RpcReadLength
  <2>1. CASE arrived >= Width
    <3>1. ReadOnce = Width
      BY <2>1, Constants DEF ReadOnce, Types
    <3> DEFINE ok == RpcLength(Length(Width))
    <3>2. /\ pc = "length" /\ Accept(Length(Width), ok) /\ Consume(Width)
          /\ UNCHANGED <<reader, sent, eof, got>>
          /\ short' = (short \/ Width < Width)
          /\ ok \in BOOLEAN
      BY <1>7, <3>1 DEF RpcReadLength, RpcLength
    <3>3. short' => short
      <4>1. ~(Width < Width)
        BY Constants
      <4> QED
        BY <3>2, <4>1, Zenon
    <3> HIDE DEF ok
    <3> QED
      BY <1>2, <2>1, <3>2, <3>3, LengthKeepsFraming
  <2>2. CASE arrived < Width
    <3> DEFINE k == arrived
    <3>1. ReadOnce = k /\ k \in 1..(Width - 1) /\ k <= arrived
      BY <1>7, <2>2, Constants DEF RpcReadLength, ReadOnce, Types
    <3>2. /\ pc = "length" /\ reader = "rpc"
          /\ Accept(Length(k), RpcLength(Length(k)))
          /\ UNCHANGED <<reader, sent, eof, got>>
      BY <1>7, <3>1 DEF RpcReadLength
    <3>3. PICK pos : Positions(pos) /\ Remaining(pos)
      BY <1>2, <3>2 DEF InStep
    <3>4. Len(Body(reader, sent[Len(got) + 1])) < Base
      <4>1. Len(stream) > 0
        BY <3>1 DEF Types
      <4>2. Len(got) < Len(sent)
        BY <1>2, <3>2, <3>3, <4>1, NextFrame
      <4>3. Len(got) + 1 \in 1..Len(sent)
        BY <4>2 DEF Types
      <4> QED
        BY <1>1, <3>2, <4>3 DEF Sane, Body
    <3>5. Length(k) = 0
      BY <1>2, <3>1, <3>2, <3>3, <3>4, PartLength
    <3>6. pc' = "closed"
      BY <3>2, <3>5 DEF Accept, RpcLength
    <3> QED
      BY <1>2, <3>2, <3>6 DEF Received, InStep
  <2> QED
    BY <2>1, <2>2, Constants DEF Types
<1>8. CASE ReadBody
  BY <1>2, <1>8, BodyKeepsFraming
<1>9. CASE ReadEof
  BY <1>2, <1>9 DEF ReadEof, Received, InStep
<1>10. CASE UNCHANGED wireVars
  <2>1. UNCHANGED <<reader, sent, stream, eof, pc, need, got, short>>
    BY <1>10 DEF wireVars
  <2>2. Received'
    BY <1>2, <2>1 DEF Received
  <2>3. \A pos : /\ Positions(pos) => Positions(pos)'
                 /\ Remaining(pos) => Remaining(pos)'
    BY <2>1 DEF Positions, Remaining, Taken
  <2> QED
    BY <1>2, <2>1, <2>2, <2>3 DEF InStep
<1> QED
  BY <1>3, <1>4, <1>5, <1>6, <1>7, <1>8, <1>9, <1>10 DEF Next, Read

LEMMA FramingHolds == Spec => [](Types /\ Framing)
<1>1. Init => Types /\ Framing
  BY TypesInit, FramingInit
<1>2. Types /\ Framing /\ [Next]_wireVars => (Types /\ Framing)'
  BY TypesStep, FramingStep
<1> QED
  BY <1>1, <1>2, PTL DEF Spec

LEMMA BodyIsPayload ==
  ASSUME Types, NEW x PROVE Body(reader, x) = Payload(x)
BY DEF Types, Body, Payload

-----------------------------------------------------------------------------
(* What the readers return.                                                *)

\* ReadFrame returns the payloads that were written, in order, whole and
\* none twice, for every way the bytes are cut into chunks.
THEOREM FramesAreWhole == Spec => []FramesArriveWhole
<1>1. Types /\ Framing => FramesArriveWhole
  <2> SUFFICES ASSUME Types, Framing, reader = "core"
               PROVE  /\ Len(got) <= Len(sent)
                      /\ \A i \in DOMAIN got : got[i] = Payload(sent[i])
    BY DEF FramesArriveWhole
  <2>1. Received
    BY DEF Framing, Sane
  <2>2. DOMAIN got = 1..Len(got)
    BY DEF Types
  <2> QED
    BY <2>1, <2>2, BodyIsPayload DEF Received
<1> QED
  BY <1>1, FramingHolds, PTL

\* A part of a length that readRpcFrame takes for the whole ends the
\* connection, unless a payload of Base bytes or more was written.
THEOREM ShortLengthsAreRefused == Spec => []OnlyLongFramesAreMisread
<1>1. Types /\ Framing => OnlyLongFramesAreMisread
  <2> SUFFICES ASSUME Types, Framing, reader = "rpc",
                      \A p \in Range(sent) : Len(p) < Base
               PROVE  /\ Len(got) <= Len(sent)
                      /\ \A i \in DOMAIN got : got[i] = sent[i]
                      /\ short => pc = "closed"
    BY DEF OnlyLongFramesAreMisread
  <2>1. Sane
    <3>1. DOMAIN sent = 1..Len(sent)
      BY DEF Types
    <3> QED
      BY <3>1 DEF Sane, Range
  <2>2. Received
    BY <2>1 DEF Framing
  <2>3. DOMAIN got = 1..Len(got)
    BY DEF Types
  <2> QED
    BY <2>2, <2>3 DEF Received, Body
<1> QED
  BY <1>1, FramingHolds, PTL

-----------------------------------------------------------------------------
(* Messages.                                                               *)

LEMMA CutConcat ==
  ASSUME NEW s \in Seq(Byte), NEW t \in Seq(Byte)
  PROVE  /\ Len(s \o t) = Len(s) + Len(t) /\ Len(s) \in Nat /\ Len(t) \in Nat
         /\ s \o t \in Seq(Byte)
         /\ SubSeq(s \o t, 1, Len(s)) = s
         /\ SubSeq(s \o t, Len(s) + 1, Len(s \o t)) = t
<1> DEFINE u == s \o t
<1>1. /\ Len(u) = Len(s) + Len(t) /\ Len(s) \in Nat /\ Len(t) \in Nat
      /\ u \in Seq(Byte)
      /\ \A i \in 1..Len(s) : u[i] = s[i]
      /\ \A i \in 1..Len(t) : u[Len(s) + i] = t[i]
  OBVIOUS
<1> HIDE DEF u
<1>2. SubSeq(u, 1, Len(s)) = s
  <2> DEFINE q == SubSeq(u, 1, Len(s))
  <2>1. q \in Seq(Byte) /\ Len(q) = Len(s) /\ \A i \in 1..Len(q) : q[i] = s[i]
    BY <1>1
  <2> HIDE DEF q
  <2>2. q = s
    BY <2>1, SeqEqual
  <2> QED
    BY <2>2 DEF q
<1>3. SubSeq(u, Len(s) + 1, Len(u)) = t
  <2> DEFINE q == SubSeq(u, Len(s) + 1, Len(u))
  <2>1. q \in Seq(Byte) /\ Len(q) = Len(t) /\ \A i \in 1..Len(q) : q[i] = t[i]
    BY <1>1
  <2> HIDE DEF q
  <2>2. q = t
    BY <2>1, SeqEqual
  <2> QED
    BY <2>2 DEF q
<1> QED
  BY <1>1, <1>2, <1>3 DEF u

LEMMA ReadInt ==
  ASSUME NEW n \in Int, NEW t \in Seq(Byte), NEW x
  PROVE  readInt32(At(x, Int32(n) \o t)) = At(Signed(Int32(n)), t)
<1> DEFINE h == Int32(n)
<1>1. h \in Seq(Byte) /\ Len(h) = Width
  BY Int32Type
<1> HIDE DEF h
<1>2. /\ Len(h \o t) >= Width
      /\ SubSeq(h \o t, 1, Width) = h
      /\ SubSeq(h \o t, Width + 1, Len(h \o t)) = t
  BY <1>1, CutConcat
<1> QED
  BY <1>2 DEF readInt32, At, h

LEMMA ReadString ==
  ASSUME NEW s \in Seq(Byte), NEW t \in Seq(Byte)
  PROVE  readString(At(Len(s), s \o t)) = At(s, t)
<1>1. /\ Len(s) \in 0..Len(s \o t)
      /\ SubSeq(s \o t, 1, Len(s)) = s
      /\ SubSeq(s \o t, Len(s) + 1, Len(s \o t)) = t
  BY CutConcat
<1> QED
  BY <1>1 DEF readString, At

\* A string that was written with its length.
LEMMA ReadString32 ==
  ASSUME NEW s \in Seq(Byte), 2 * Len(s) < Limit, NEW t \in Seq(Byte), NEW x
  PROVE  /\ readInt32(At(x, String32(s) \o t)) = At(Len(s), s \o t)
         /\ readString(readInt32(At(x, String32(s) \o t))) = At(s, t)
<1>1. Len(s) \in Nat /\ s \o t \in Seq(Byte)
  BY CutConcat
<1>2. String32(s) \o t = Int32(Len(s)) \o (s \o t)
  <2>1. Int32(Len(s)) \in Seq(Byte)
    BY <1>1, Int32Type
  <2> QED
    BY <2>1, ConcatAssociative DEF String32
<1>3. Signed(Int32(Len(s))) = Len(s)
  BY <1>1, SignedRoundTrip
<1>4. readInt32(At(x, String32(s) \o t)) = At(Len(s), s \o t)
  <2> DEFINE n == Len(s)
             w == s \o t
  <2>1. n \in Int /\ w \in Seq(Byte)
    BY <1>1
  <2> HIDE DEF n, w
  <2>2. readInt32(At(x, Int32(n) \o w)) = At(Signed(Int32(n)), w)
    BY <2>1, ReadInt
  <2> QED
    BY <1>2, <1>3, <2>2 DEF n, w
<1> QED
  BY <1>4, ReadString

\* The type of a message, nil being -1.
TypeCode(m) == IF m.type = {} THEN -1 ELSE CHOOSE t \in m.type : TRUE

\* What follows the ids of the two ends.
Tail4(m) == Int32(TypeCode(m)) \o DataField(m.data)

LEMMA TypeCodeKnown ==
  ASSUME NEW m \in Messages
  PROVE  /\ TypeCode(m) \in Int
         /\ Signed(Int32(TypeCode(m))) = TypeCode(m)
         /\ RouteMessageTypeFromOrdinal(TypeCode(m))
              = m.type \cap 0..LastType
<1>1. m.type \subseteq Nat /\ \A t, u \in m.type : t = u /\ 2 * t < Limit
  BY PayloadAssumption
<1>2. CASE m.type = {}
  <2>1. TypeCode(m) = -1
    BY <1>2 DEF TypeCode
  <2> QED
    BY <1>2, <2>1, SignedMinusOne DEF RouteMessageTypeFromOrdinal
<1>3. CASE m.type # {}
  <2>1. PICK t \in m.type : TypeCode(m) = t
    BY <1>3 DEF TypeCode
  <2>2. t \in Nat /\ 2 * t < Limit /\ m.type = {t}
    BY <1>1, <2>1
  <2> QED
    BY <2>1, <2>2, SignedRoundTrip DEF RouteMessageTypeFromOrdinal
<1> QED
  BY <1>2, <1>3

LEMMA Associative ==
  ASSUME NEW s \in Seq(Byte), NEW t \in Seq(Byte), NEW u \in Seq(Byte)
  PROVE  (s \o t) \o u = s \o (t \o u)
BY ConcatAssociative

LEMMA MessageStrings ==
  ASSUME NEW m \in Messages
  PROVE  /\ m.from \in Seq(Byte) /\ m.to \in Seq(Byte)
         /\ 2 * Len(m.from) < Limit /\ 2 * Len(m.to) < Limit
         /\ Tail4(m) \in Seq(Byte) /\ Len(Tail4(m)) >= Width
         /\ DataField(m.data) \in Seq(Byte)
         /\ \A s \in m.data : s \in Seq(Byte) /\ 2 * Len(s) < Limit
         /\ EncodePayload(m) = String32(m.from) \o (String32(m.to) \o Tail4(m))
<1> DEFINE a == String32(m.from)
           b == String32(m.to)
           t == Int32(TypeCode(m))
           d == DataField(m.data)
<1>1. /\ m.from \in Seq(Byte) /\ m.to \in Seq(Byte)
      /\ m.data \subseteq Seq(Byte) /\ \A s, u \in m.data : s = u
  BY PayloadAssumption
<1>2. /\ a \in Seq(Byte) /\ Len(a) = Width + Len(m.from)
      /\ b \in Seq(Byte) /\ Len(b) = Width + Len(m.to)
  BY <1>1, String32Type
<1>3. t \in Seq(Byte) /\ Len(t) = Width
  BY TypeCodeKnown, Int32Type
<1>4. d \in Seq(Byte) /\ \A s \in m.data : d = String32(s)
  <2>1. CASE m.data = {}
    <3>1. d = Int32(-1) /\ -1 \in Int
      BY <2>1 DEF DataField
    <3> QED
      BY <2>1, <3>1, Int32Type
  <2>2. CASE m.data # {}
    <3>1. PICK s \in m.data : d = String32(s)
      BY <2>2 DEF DataField
    <3>2. m.data = {s} /\ s \in Seq(Byte)
      BY <1>1
    <3> QED
      BY <3>1, <3>2, String32Type
  <2> QED
    BY <2>1, <2>2
<1> HIDE DEF a, b, t, d
<1>5. EncodePayload(m) = ((a \o b) \o t) \o d
  BY DEF EncodePayload, TypeCode, a, b, t, d
<1>6. /\ a \in Seq(Byte) /\ b \in Seq(Byte)
      /\ t \in Seq(Byte) /\ d \in Seq(Byte) /\ Len(d) \in Nat
  BY <1>2, <1>3, <1>4
<1>7. t \o d \in Seq(Byte) /\ Len(t \o d) = Width + Len(d)
  BY <1>3, <1>6, CutConcat
<1>8. EncodePayload(m) = a \o (b \o (t \o d))
  <2>1. a \o b \in Seq(Byte)
    BY <1>6, CutConcat
  <2>2. ASSUME NEW ab \in Seq(Byte) PROVE (ab \o t) \o d = ab \o (t \o d)
    BY <1>6, Associative
  <2>3. ASSUME NEW td \in Seq(Byte) PROVE (a \o b) \o td = a \o (b \o td)
    <3>1. a \in Seq(Byte) /\ b \in Seq(Byte)
      BY <1>6
    <3> QED
      BY <3>1, Associative, Zenon
  <2> QED
    BY <1>5, <1>7, <2>1, <2>2, <2>3, Zenon
<1>9. Len(EncodePayload(m)) = Len(a) + (Len(b) + (Width + Len(d)))
  <2>1. \A td \in Seq(Byte) : /\ b \o td \in Seq(Byte)
                              /\ Len(b \o td) = Len(b) + Len(td)
    BY <1>6, CutConcat
  <2>2. \A btd \in Seq(Byte) : Len(a \o btd) = Len(a) + Len(btd)
    BY <1>6, CutConcat
  <2>3. /\ b \o (t \o d) \in Seq(Byte)
        /\ Len(b \o (t \o d)) = Len(b) + Len(t \o d)
    BY <1>7, <2>1, Zenon
  <2>4. Len(a \o (b \o (t \o d))) = Len(a) + Len(b \o (t \o d))
    BY <2>2, <2>3, Zenon
  <2> QED
    BY <1>7, <1>8, <2>3, <2>4, Zenon
<1>10. 2 * (Len(EncodePayload(m)) + Width) < Limit
  BY EncodePayloadType
<1>11. Len(m.from) \in Nat /\ Len(m.to) \in Nat
  BY <1>1
<1>12. 2 * Len(m.from) < Limit /\ 2 * Len(m.to) < Limit
       /\ 2 * Len(d) < Limit
  <2> DEFINE e == Len(EncodePayload(m))
  <2>1. /\ e = (Width + Len(m.from)) + ((Width + Len(m.to)) + (Width + Len(d)))
        /\ 2 * (e + Width) < Limit
    BY <1>2, <1>10, <1>9, Zenon
  <2> DEFINE x == Len(m.from)
             y == Len(m.to)
             z == Len(d)
  <2>2. x \in Nat /\ y \in Nat /\ z \in Nat
    BY <1>6, <1>11
  <2>3. e = (Width + x) + ((Width + y) + (Width + z)) /\ 2 * (e + Width) < Limit
    BY <2>1
  <2> HIDE DEF e, x, y, z
  <2>4. 2 * x < Limit /\ 2 * y < Limit /\ 2 * z < Limit
    <3>1. Width \in Nat /\ Limit \in Nat
      BY LimitType, Constants
    <3> QED
      BY <2>2, <2>3, <3>1
  <2> QED
    BY <2>4 DEF x, y, z
<1>13. \A s \in m.data : s \in Seq(Byte) /\ 2 * Len(s) < Limit
  <2> SUFFICES ASSUME NEW s \in m.data
               PROVE  s \in Seq(Byte) /\ 2 * Len(s) < Limit
    OBVIOUS
  <2>1. s \in Seq(Byte) /\ Len(s) \in Nat
    BY <1>1
  <2>2. Len(d) = Width + Len(s)
    BY <1>4, <2>1, String32Type
  <2> QED
    BY <1>12, <2>1, <2>2, LimitType, Constants
<1>14. Len(t \o d) >= Width
  BY <1>6, <1>7, Constants
<1>15. Tail4(m) = t \o d
  BY DEF Tail4, t, d
<1>16. EncodePayload(m) = String32(m.from) \o (String32(m.to) \o Tail4(m))
  BY <1>15, <1>8, Zenon DEF a, b
<1> QED
  BY <1>1, <1>4, <1>7, <1>12, <1>13, <1>14, <1>15, <1>16 DEF d

\* The check for an extra length never takes that of the sender's id.
LEMMA PrefixIsKept ==
  ASSUME NEW s \in Seq(Byte), 2 * Len(s) < Limit,
         NEW t \in Seq(Byte), Len(t) > Width
  PROVE  SkipPrefix(String32(s) \o t) = At(0, String32(s) \o t)
<1>1. readInt32(At(0, String32(s) \o t)) = At(Len(s), s \o t)
  BY ReadString32
<1>2. Len(s \o t) - Width # Len(s)
  <2>1. Len(s \o t) = Len(s) + Len(t) /\ Len(s) \in Nat /\ Len(t) \in Nat
    BY CutConcat
  <2> QED
    BY <2>1, Constants
<1> DEFINE r == readInt32(At(0, String32(s) \o t))
<1>3. r.val = Len(s) /\ r.rest = s \o t
  <2> DEFINE w == s \o t
  <2>1. r = At(Len(s), w)
    BY <1>1
  <2> HIDE DEF r, w
  <2>2. r.val = Len(s) /\ r.rest = w
    BY <2>1 DEF At
  <2> QED
    BY <2>2 DEF w
<1> HIDE DEF r
<1>4. ~(r.val = Len(r.rest) - Width)
  BY <1>2, <1>3
<1> QED
  BY <1>4 DEF SkipPrefix, r

\* Decoding gives back what was encoded.
LEMMA DecodeMessage ==
  ASSUME NEW m \in Messages
  PROVE  Decode(EncodePayload(m)) = {Known(m)}
<1> DEFINE p    == EncodePayload(m)
           d    == DataField(m.data)
           from == readString(readInt32(SkipPrefix(p)))
           to   == readString(readInt32(from))
           type == readInt32(to)
           len  == readInt32(type)
           data == IF len.val < 0 THEN len ELSE readString(len)
<1>1. /\ m.from \in Seq(Byte) /\ m.to \in Seq(Byte)
      /\ 2 * Len(m.from) < Limit /\ 2 * Len(m.to) < Limit
      /\ Tail4(m) \in Seq(Byte) /\ Len(Tail4(m)) >= Width
      /\ d \in Seq(Byte)
      /\ \A s \in m.data : s \in Seq(Byte) /\ 2 * Len(s) < Limit
      /\ p = String32(m.from) \o (String32(m.to) \o Tail4(m))
  BY MessageStrings
<1> DEFINE t == String32(m.to) \o Tail4(m)
<1>2. t \in Seq(Byte) /\ Len(t) > Width
  <2> DEFINE b == String32(m.to)
             u == Tail4(m)
  <2>1. b \in Seq(Byte) /\ Len(b) = Width + Len(m.to)
    BY <1>1, String32Type
  <2>2. /\ u \in Seq(Byte) /\ Len(u) \in Nat /\ Len(u) >= Width
        /\ Len(m.to) \in Nat
    BY <1>1
  <2> HIDE DEF b, u
  <2>3. b \o u \in Seq(Byte) /\ Len(b \o u) = Len(b) + Len(u)
    BY <2>1, <2>2, CutConcat
  <2>4. Len(b \o u) > Width
    BY <2>1, <2>2, <2>3, Constants
  <2> QED
    BY <2>3, <2>4 DEF b, u
<1> HIDE DEF t
<1>3. from = At(m.from, t)
  <2>1. p = String32(m.from) \o t
    BY <1>1 DEF t
  <2> HIDE DEF p
  <2>2. SkipPrefix(p) = At(0, p)
    BY <1>1, <1>2, <2>1, PrefixIsKept
  <2>3. readString(readInt32(At(0, String32(m.from) \o t))) = At(m.from, t)
    BY <1>1, <1>2, ReadString32
  <2> QED
    BY <2>1, <2>2, <2>3
<1> HIDE DEF from
<1>4. to = At(m.to, Tail4(m))
  BY <1>1, <1>3, ReadString32 DEF t
<1> HIDE DEF to
<1>5. type = At(TypeCode(m), d)
  <2>1. readInt32(At(m.to, Int32(TypeCode(m)) \o d))
          = At(Signed(Int32(TypeCode(m))), d)
    <3>1. TypeCode(m) \in Int
      BY TypeCodeKnown
    <3> HIDE DEF d
    <3> QED
      BY <1>1, <3>1, ReadInt
  <2> QED
    BY <1>4, <2>1, TypeCodeKnown DEF Tail4
<1> HIDE DEF type
<1>6. /\ data.ok /\ (len.val < 0 <=> m.data = {})
      /\ m.data # {} => m.data = {data.val}
  <2>1. CASE m.data = {}
    <3>1. d = Int32(-1) \o <<>>
      <4>1. Int32(-1) \in Seq(Byte)
        <5>1. -1 \in Int
          OBVIOUS
        <5> QED
          BY <5>1, Int32Type
      <4> QED
        BY <2>1, <4>1, ConcatEmptySeq DEF DataField
    <3>2. len = At(-1, <<>>)
      <4>1. -1 \in Int /\ <<>> \in Seq(Byte)
        OBVIOUS
      <4>2. readInt32(At(TypeCode(m), Int32(-1) \o <<>>))
              = At(Signed(Int32(-1)), <<>>)
        BY <4>1, ReadInt
      <4> QED
        BY <1>5, <3>1, <4>2, SignedMinusOne
    <3> HIDE DEF len
    <3> QED
      BY <2>1, <3>2 DEF At
  <2>2. CASE m.data # {}
    <3>1. PICK s \in m.data : d = String32(s)
      BY <2>2 DEF DataField
    <3>2. m.data = {s} /\ s \in Seq(Byte) /\ 2 * Len(s) < Limit
      BY <1>1, PayloadAssumption
    <3>3. d = String32(s) \o <<>> /\ s \o <<>> = s /\ <<>> \in Seq(Byte)
      <4>1. String32(s) \in Seq(Byte)
        BY <3>2, String32Type
      <4> QED
        BY <3>1, <3>2, <4>1, ConcatEmptySeq
    <3>4. len = At(Len(s), s)
      <4>1. readInt32(At(TypeCode(m), String32(s) \o <<>>))
              = At(Len(s), s \o <<>>)
        BY <3>2, <3>3, ReadString32
      <4> QED
        BY <1>5, <3>3, <4>1
    <3>5. readString(len) = At(s, <<>>)
      BY <3>2, <3>3, <3>4, ReadString
    <3>6. Len(s) \in Nat
      BY <3>2
    <3>7. len.val = Len(s)
      BY <3>4 DEF At
    <3> HIDE DEF len
    <3>8. ~(len.val < 0)
      BY <3>6, <3>7
    <3>9. data = At(s, <<>>)
      BY <3>5, <3>8
    <3> HIDE DEF data
    <3> QED
      BY <2>2, <3>2, <3>8, <3>9 DEF At
  <2> QED
    BY <2>1, <2>2
<1>7. p # <<>>
  <2> DEFINE a == String32(m.from)
  <2>1. a \in Seq(Byte) /\ Len(a) = Width + Len(m.from) /\ p = a \o t
    BY <1>1, String32Type DEF t
  <2>2. Len(m.from) \in Nat /\ Len(t) \in Nat
    BY <1>1, <1>2
  <2> HIDE DEF a, p
  <2>3. Len(p) = Len(a) + Len(t)
    BY <1>2, <2>1, CutConcat
  <2>4. Len(p) # 0
    BY <2>1, <2>2, <2>3, Constants
  <2> QED
    BY <2>4
<1> DEFINE r == [from |-> from.val, to |-> to.val,
                 type |-> RouteMessageTypeFromOrdinal(type.val),
                 data |-> IF len.val < 0 THEN {} ELSE {data.val}]
<1>8. Decode(p) = {r}
  <2> HIDE DEF p
  <2>1. Decode(p) = IF p # <<>> /\ data.ok THEN {r} ELSE {}
    BY DEF Decode, from, to, type
  <2> QED
    BY <1>6, <1>7, <2>1
<1>9. r = Known(m)
  <2>1. /\ from.val = m.from /\ to.val = m.to
        /\ RouteMessageTypeFromOrdinal(type.val) = m.type \cap 0..LastType
    BY <1>3, <1>4, <1>5, TypeCodeKnown DEF At
  <2>2. (IF len.val < 0 THEN {} ELSE {data.val}) = m.data
    BY <1>6
  <2>3. m \in [from : Seq(Byte), to : Seq(Byte), type : SUBSET Nat,
               data : SUBSET Seq(Byte)]
    BY PayloadAssumption
  <2> HIDE DEF len, data
  <2>4. m = [from |-> m.from, to |-> m.to, type |-> m.type, data |-> m.data]
    BY <2>3
  <2>5. Known(m) = [from |-> m.from, to |-> m.to,
                    type |-> m.type \cap 0..LastType, data |-> m.data]
    BY <2>4 DEF Known
  <2> QED
    BY <2>1, <2>2, <2>5
<1> QED
  BY <1>8, <1>9

\* A payload with a second length in front is refused: the whole payload is
\* taken for the sender's id and nothing is left.
LEMMA DecodePrefixed ==
  ASSUME NEW m \in Messages
  PROVE  Decode(String32(EncodePayload(m))) = {}
<1> DEFINE p    == EncodePayload(m)
           q    == String32(p)
           from == readString(readInt32(SkipPrefix(q)))
           to   == readString(readInt32(from))
           type == readInt32(to)
           len  == readInt32(type)
           data == IF len.val < 0 THEN len ELSE readString(len)
           r    == [from |-> from.val, to |-> to.val,
                    type |-> RouteMessageTypeFromOrdinal(type.val),
                    data |-> IF len.val < 0 THEN {} ELSE {data.val}]
<1>1. Decode(q) = IF q # <<>> /\ data.ok THEN {r} ELSE {}
  <2> HIDE DEF q
  <2> QED
    BY DEF Decode
<1> HIDE DEF r
<1>2. p \in Seq(Byte) /\ 2 * Len(p) < Limit /\ Len(p) \in Nat
  <2>1. p \in Seq(Byte) /\ 2 * (Len(p) + Width) < Limit
    BY EncodePayloadType
  <2> HIDE DEF p
  <2>2. Len(p) \in Nat
    BY <2>1
  <2> QED
    BY <2>1, <2>2, LimitType, Constants
<1> HIDE DEF p
<1>3. q \in Seq(Byte) /\ q = q \o <<>> /\ p \o <<>> = p /\ <<>> \in Seq(Byte)
  <2>1. q \in Seq(Byte)
    BY <1>2, String32Type
  <2> HIDE DEF q
  <2> QED
    BY <1>2, <2>1, ConcatEmptySeq
<1>4. readInt32(At(0, q)) = At(Len(p), p)
      /\ readString(readInt32(At(0, q))) = At(p, <<>>)
  <2>1. /\ readInt32(At(0, String32(p) \o <<>>)) = At(Len(p), p \o <<>>)
        /\ readString(readInt32(At(0, String32(p) \o <<>>))) = At(p, <<>>)
    BY <1>2, <1>3, ReadString32
  <2> QED
    BY <1>3, <2>1
<1> HIDE DEF q
<1>5. SkipPrefix(q) = At(0, q)
  <2> DEFINE h == readInt32(At(0, q))
  <2>1. h.val = Len(p) /\ h.rest = p
    BY <1>4 DEF At
  <2> HIDE DEF h
  <2>2. ~(h.val = Len(h.rest) - Width)
    BY <1>2, <2>1, Constants
  <2> QED
    BY <2>2 DEF SkipPrefix, h
<1>6. from = At(p, <<>>)
  BY <1>4, <1>5
<1> HIDE DEF from
<1>7. readInt32(from) = Fail
  <2>1. from.rest = <<>> /\ Len(<<>>) = 0
    BY <1>6 DEF At
  <2> QED
    BY <2>1, Constants DEF readInt32
<1>8. readString(Fail) = Fail /\ readInt32(Fail) = Fail
  <2>1. ~Fail.ok
    BY DEF Fail
  <2> QED
    <3> DEFINE x == Fail.ok
    <3>1. readString(Fail)
            = IF x /\ Fail.val \in 0..Len(Fail.rest)
              THEN At(SubSeq(Fail.rest, 1, Fail.val),
                      SubSeq(Fail.rest, Fail.val + 1, Len(Fail.rest)))
              ELSE Fail
      BY DEF readString
    <3>2. readInt32(Fail)
            = IF x /\ Len(Fail.rest) >= Width
              THEN At(Signed(SubSeq(Fail.rest, 1, Width)),
                      SubSeq(Fail.rest, Width + 1, Len(Fail.rest)))
              ELSE Fail
      BY DEF readInt32
    <3> HIDE DEF x
    <3>3. ~x
      BY <2>1 DEF x
    <3> QED
      BY <3>1, <3>2, <3>3, Zenon
<1>9. len = Fail
  BY <1>7, <1>8
<1> HIDE DEF len
<1>10. data = Fail
  BY <1>8, <1>9 DEF Fail
<1> HIDE DEF data
<1>11. ~data.ok
  BY <1>10 DEF Fail
<1> QED
  BY <1>11, <1>1, Zenon DEF p, q

\* DecodeRouteMessagePayload gives a receiver the message its peer encoded,
\* or refuses one with a second length in front.
THEOREM DecodeInvertsEncode == Spec => []MessagesAreUnderstood
<1>1. Types /\ Framing => MessagesAreUnderstood
  <2> SUFFICES ASSUME Types, Framing, reader = "core", NEW i \in DOMAIN got
               PROVE  Decode(got[i]) \in IF sent[i].extra
                                         THEN {{}, {Known(sent[i].message)}}
                                         ELSE {{Known(sent[i].message)}}
    BY DEF MessagesAreUnderstood
  <2>1. /\ Len(got) <= Len(sent)
        /\ \A j \in 1..Len(got) : got[j] = Body(reader, sent[j])
    BY DEF Framing, Sane, Received
  <2>2. i \in 1..Len(got) /\ i \in 1..Len(sent)
    BY <2>1 DEF Types
  <2> DEFINE x == sent[i]
  <2>3. x \in Item
    BY <2>2 DEF Types, Items
  <2>4. x.message \in Messages
    BY <2>3 DEF Item
  <2>5. got[i] = IF x.extra THEN String32(EncodePayload(x.message))
                            ELSE EncodePayload(x.message)
    BY <2>1, <2>2 DEF Body
  <2> HIDE DEF x
  <2>6. /\ Decode(EncodePayload(x.message)) = {Known(x.message)}
        /\ Decode(String32(EncodePayload(x.message))) = {}
    BY <2>4, DecodeMessage, DecodePrefixed
  <2> QED
    BY <2>5, <2>6 DEF x
<1> QED
  BY <1>1, FramingHolds, PTL

=============================================================================
