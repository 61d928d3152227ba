------------------------- MODULE SerialNumberProofs -------------------------
(***************************************************************************)
(* The words of IUINT32 are positions modulo 2 * Half.  As long as two     *)
(* positions are less than Half apart, _itimediff of their words is their  *)
(* distance, however often the counter has wrapped around; so the          *)
(* unbounded numbers of module Ikcp stand for the 32-bit ones of ikcp.c.   *)
(***************************************************************************)
EXTENDS SerialNumber, TLAPS

LEMMA ModulusType == Modulus \in Nat \ {0} /\ Half <= Modulus - Half
  BY HalfAssumption DEF Modulus

LEMMA Division ==
    ASSUME NEW M \in Nat \ {0}, NEW x \in Int
    PROVE  /\ x \div M \in Int
           /\ x % M \in 0..(M - 1)
           /\ x = M * (x \div M) + (x % M)
  OBVIOUS

LEMMA DivisionIsUnique ==
    ASSUME NEW M \in Nat \ {0}, NEW a \in Int, NEW b \in Int,
           NEW x \in 0..(M - 1), NEW y \in 0..(M - 1),
           M * a + x = M * b + y
    PROVE  x = y
<1>1. a - b >= 1 => M * (a - b) >= M
  OBVIOUS
<1>2. a - b <= -1 => M * (a - b) <= -M
  OBVIOUS
<1>3. M * (a - b) = y - x
  OBVIOUS
<1> QED
  BY <1>1, <1>2, <1>3

\* Adding to a word is adding to the position (snd_nxt++, current + rto).
THEOREM PlusFollows ==
    ASSUME NEW x \in Int, NEW k \in Int
    PROVE  Plus(x % Modulus, k) = (x + k) % Modulus
<1> DEFINE M == Modulus
<1>1. M \in Nat \ {0}
  BY ModulusType
<1> HIDE DEF M
<1>2. /\ x \div M \in Int /\ x % M \in 0..(M - 1) /\ x = M * (x \div M) + (x % M)
  BY <1>1, Division
<1>3. (x % M) + k \in Int /\ x + k \in Int
  BY <1>1, <1>2
<1>4. /\ ((x % M) + k) \div M \in Int /\ ((x % M) + k) % M \in 0..(M - 1)
      /\ (x % M) + k = M * (((x % M) + k) \div M) + (((x % M) + k) % M)
  BY <1>1, <1>3, Division
<1>5. /\ (x + k) \div M \in Int /\ (x + k) % M \in 0..(M - 1)
      /\ x + k = M * ((x + k) \div M) + ((x + k) % M)
  BY <1>1, <1>3, Division
<1>6. \A q, r, p, s \in Int : x = M * q + r /\ r + k = M * p + s => x + k = M * (q + p) + s
  BY <1>1
<1>7. x + k = M * ((x \div M) + (((x % M) + k) \div M)) + (((x % M) + k) % M)
  BY <1>1, <1>2, <1>4, <1>6
<1>8. (x \div M) + (((x % M) + k) \div M) \in Int
  BY <1>2, <1>4
<1>9. ((x % M) + k) % M = (x + k) % M
  BY <1>1, <1>4, <1>5, <1>7, <1>8, DivisionIsUnique
<1> QED
  BY <1>9 DEF Plus, M

\* Within half the range _itimediff tells the distance, and so the order.
THEOREM WithinHalf ==
    ASSUME NEW x \in Int, NEW y \in Int, -Half <= x - y, x - y < Half
    PROVE  TimeDiff(x % Modulus, y % Modulus) = x - y
<1> DEFINE M == Modulus
           r == x % M
           s == y % M
           d == (r - s) % M
<1>1. M \in Nat \ {0} /\ M = 2 * Half /\ Half \in Nat
  BY ModulusType, HalfAssumption DEF Modulus
<1> HIDE DEF M
<1>2. x \div M \in Int /\ r \in 0..(M - 1) /\ x = M * (x \div M) + r
  BY <1>1, Division
<1>3. y \div M \in Int /\ s \in 0..(M - 1) /\ y = M * (y \div M) + s
  BY <1>1, Division
<1>4. r - s \in Int
  BY <1>1, <1>2, <1>3
<1>5. (r - s) \div M \in Int /\ d \in 0..(M - 1) /\ r - s = M * ((r - s) \div M) + d
  BY <1>1, <1>4, Division
<1> DEFINE q == (x \div M) - (y \div M) + ((r - s) \div M)
<1>6. q \in Int
  BY <1>2, <1>3, <1>5
<1> HIDE DEF r, s, d
<1>7. x - y = M * q + d
  <2>1. \A a, b, c, e, f, g \in Int :
           x = M * a + e /\ y = M * b + f /\ e - f = M * c + g
              => x - y = M * (a - b + c) + g
    BY <1>1
  <2>2. r \in Int /\ s \in Int /\ d \in Int /\ r - s = M * ((r - s) \div M) + d
    BY <1>2, <1>3, <1>5
  <2> QED
    BY <1>2, <1>3, <1>5, <2>1, <2>2
<1> HIDE DEF q
<1>8. CASE x - y >= 0
  <2>1. x - y \in 0..(M - 1) /\ M * q + d = M * 0 + (x - y)
    BY <1>1, <1>7, <1>8
  <2>2. d = x - y
    BY <1>1, <1>5, <1>6, <2>1, DivisionIsUnique
  <2> QED
    BY <2>2 DEF TimeDiff, r, s, d, M
<1>9. CASE x - y < 0
  <2>1. x - y + M \in 0..(M - 1) /\ M * q + d = M * (-1) + (x - y + M)
    BY <1>1, <1>7, <1>9
  <2>2. d = x - y + M
    BY <1>1, <1>5, <1>6, <2>1, DivisionIsUnique
  <2>3. ~(d < Half)
    BY <1>1, <2>2
  <2>4. d - M = x - y
    BY <1>1, <2>2
  <2> QED
    BY <2>3, <2>4 DEF TimeDiff, r, s, d, M
<1> QED
  BY <1>8, <1>9

\* A timer set k ahead is seen k ahead (resendts, ts_flush, ts_probe).
THEOREM TimerAhead ==
    ASSUME NEW w \in Word, NEW k \in Nat, k < Half
    PROVE  TimeDiff(Plus(w, k), w) = k
<1>1. Modulus \in Nat \ {0} /\ w \in Int /\ w \in 0..(Modulus - 1) /\ Half \in Nat
  BY ModulusType, HalfAssumption DEF Word
<1>2. w \div Modulus \in Int /\ w % Modulus \in 0..(Modulus - 1)
      /\ w = Modulus * (w \div Modulus) + (w % Modulus)
  BY <1>1, Division
<1>3. w % Modulus = w
  <2>1. Modulus * (w \div Modulus) + (w % Modulus) = Modulus * 0 + w
    BY <1>1, <1>2
  <2> QED
    BY <1>1, <1>2, <2>1, DivisionIsUnique
<1>4. Plus(w, k) = (w + k) % Modulus
  BY DEF Plus
<1>5. w + k \in Int /\ -Half <= (w + k) - w /\ (w + k) - w < Half /\ (w + k) - w = k
  BY <1>1
<1>6. TimeDiff((w + k) % Modulus, w % Modulus) = (w + k) - w
  BY <1>1, <1>5, WithinHalf
<1> QED
  BY <1>3, <1>4, <1>5, <1>6

-----------------------------------------------------------------------------
(* Time stamps: a word, and one that is so much later or earlier. *)

LEMMA WordOfItself == \A w \in Word : w \in Int /\ w % Modulus = w
<1> SUFFICES ASSUME NEW w \in Word PROVE w \in Int /\ w % Modulus = w
  OBVIOUS
<1>1. Modulus \in Nat \ {0} /\ w \in Int /\ w \in 0..(Modulus - 1)
  BY ModulusType DEF Word
<1>2. w \div Modulus \in Int /\ w % Modulus \in 0..(Modulus - 1)
      /\ w = Modulus * (w \div Modulus) + (w % Modulus)
  BY <1>1, Division
<1>3. Modulus * (w \div Modulus) + (w % Modulus) = Modulus * 0 + w
  BY <1>1, <1>2
<1> QED
  BY <1>1, <1>2, <1>3, DivisionIsUnique

\* a is TimeDiff(a, x) after x.
LEMMA WordAfter ==
    ASSUME NEW a \in Word, NEW x \in Word
    PROVE  /\ TimeDiff(a, x) \in Int /\ -Half <= TimeDiff(a, x) /\ TimeDiff(a, x) < Half
           /\ a = (x + TimeDiff(a, x)) % Modulus
<1> DEFINE M == Modulus
           r == (a - x) % M
           q == (a - x) \div M
           d == TimeDiff(a, x)
<1>1. M \in Nat \ {0} /\ M = 2 * Half /\ Half \in Nat /\ a \in Int /\ x \in Int /\ a \in 0..(M - 1)
  BY ModulusType, HalfAssumption, WordOfItself DEF Modulus, Word
<1>2. a - x \in Int
  BY <1>1
<1>3. q \in Int /\ r \in 0..(M - 1) /\ a - x = M * q + r
  BY <1>1, <1>2, Division
<1>4. d = IF r < Half THEN r ELSE r - M
  BY DEF TimeDiff
<1> HIDE DEF M, r, q, d
<1>5. d \in Int /\ -Half <= d /\ d < Half
  BY <1>1, <1>3, <1>4
<1> DEFINE y == x + d
           c == y \div M
           z == y % M
<1>6. c \in Int /\ z \in 0..(M - 1) /\ y = M * c + z
  <2>1. y \in Int
    BY <1>1, <1>5
  <2> HIDE DEF y
  <2> QED
    BY <1>1, <2>1, Division
<1>7. y = x + d
  OBVIOUS
<1> HIDE DEF y, c, z
<1>8. \E e \in Int : M * e + z = M * 0 + a
  <2>1. CASE r < Half
    <3>1. M * (q + c) = M * q + M * c /\ M * q \in Int /\ M * c \in Int
      BY <1>1, <1>3, <1>6
    <3>2. a = M * q + y
      BY <1>1, <1>3, <1>4, <1>7, <2>1, <3>1
    <3>3. M * (q + c) + z = a
      BY <1>1, <1>6, <3>1, <3>2
    <3>4. q + c \in Int /\ M * 0 + a = a
      BY <1>1, <1>3, <1>6
    <3> QED
      BY <3>3, <3>4
  <2>2. CASE ~(r < Half)
    <3>1. M * (q + c + 1) = M * q + M * c + M /\ M * q \in Int /\ M * c \in Int
      BY <1>1, <1>3, <1>6
    <3>2. a = M * q + y + M
      BY <1>1, <1>3, <1>4, <1>7, <2>2, <3>1
    <3>3. M * (q + c + 1) + z = a
      BY <1>1, <1>6, <3>1, <3>2
    <3>4. q + c + 1 \in Int /\ M * 0 + a = a
      BY <1>1, <1>3, <1>6
    <3> QED
      BY <3>3, <3>4
  <2> QED
    BY <2>1, <2>2
<1>9. z = a
  BY <1>1, <1>6, <1>8, DivisionIsUnique
<1> QED
  BY <1>5, <1>7, <1>9 DEF d, y, z, M

\* Time passes.
LEMMA ClockAdvances ==
    ASSUME NEW a \in Word, NEW x \in Word, NEW k \in Nat, TimeDiff(a, x) + k < Half
    PROVE  TimeDiff(Plus(a, k), x) = TimeDiff(a, x) + k
<1> DEFINE d == TimeDiff(a, x)
           y == x + d
<1>1. d \in Int /\ -Half <= d /\ a = (x + d) % Modulus /\ d + k < Half
  BY WordAfter
<1>2. x \in Int /\ x % Modulus = x /\ Half \in Nat
  BY WordOfItself, HalfAssumption
<1> HIDE DEF d
<1>3. y \in Int /\ y + k \in Int /\ (y + k) - x = d + k
      /\ -Half <= (y + k) - x /\ (y + k) - x < Half
  BY <1>1, <1>2
<1>4. Plus(a, k) = (y + k) % Modulus
  BY <1>1, <1>3, PlusFollows
<1>5. TimeDiff((y + k) % Modulus, x % Modulus) = (y + k) - x
  BY <1>2, <1>3, WithinHalf
<1> QED
  BY <1>2, <1>3, <1>4, <1>5 DEF d

\* A stamp is set k later.
LEMMA StampAdvances ==
    ASSUME NEW a \in Word, NEW x \in Word, NEW k \in Nat, -Half <= TimeDiff(a, x) - k
    PROVE  TimeDiff(a, Plus(x, k)) = TimeDiff(a, x) - k
<1> DEFINE d == TimeDiff(a, x)
<1>1. d \in Int /\ d < Half /\ a = (x + d) % Modulus /\ -Half <= d - k
  BY WordAfter
<1>2. x \in Int /\ x % Modulus = x /\ Half \in Nat
  BY WordOfItself, HalfAssumption
<1> HIDE DEF d
<1>3. x + d \in Int /\ x + k \in Int /\ (x + d) - (x + k) = d - k
      /\ -Half <= (x + d) - (x + k) /\ (x + d) - (x + k) < Half
  BY <1>1, <1>2
<1>4. Plus(x, k) = (x + k) % Modulus
  BY DEF Plus
<1>5. TimeDiff((x + d) % Modulus, (x + k) % Modulus) = (x + d) - (x + k)
  BY <1>3, WithinHalf
<1> QED
  BY <1>1, <1>3, <1>4, <1>5 DEF d

LEMMA DiffTurned ==
    ASSUME NEW a \in Word, NEW x \in Word, -Half < TimeDiff(a, x)
    PROVE  TimeDiff(x, a) = -TimeDiff(a, x)
<1> DEFINE d == TimeDiff(a, x)
<1>1. d \in Int /\ -Half < d /\ d < Half /\ a = (x + d) % Modulus
  BY WordAfter
<1>2. x \in Int /\ x % Modulus = x /\ Half \in Nat
  BY WordOfItself, HalfAssumption
<1> HIDE DEF d
<1>3. x + d \in Int /\ x - (x + d) = -d
      /\ -Half <= x - (x + d) /\ x - (x + d) < Half
  BY <1>1, <1>2
<1>4. TimeDiff(x % Modulus, (x + d) % Modulus) = x - (x + d)
  BY <1>2, <1>3, WithinHalf
<1> QED
  BY <1>1, <1>2, <1>3, <1>4 DEF d

LEMMA DiffSelf == \A w \in Word : TimeDiff(w, w) = 0
<1> SUFFICES ASSUME NEW w \in Word PROVE TimeDiff(w, w) = 0
  OBVIOUS
<1>1. w \in Int /\ w % Modulus = w /\ w - w = 0 /\ Half \in Nat \ {0}
  BY WordOfItself, HalfAssumption
<1>2. TimeDiff(w % Modulus, w % Modulus) = w - w
  BY <1>1, WithinHalf
<1> QED
  BY <1>1, <1>2

=============================================================================
