------------------------ MODULE ReplayWindow_proofs ------------------------
(***************************************************************************)
(* Proofs about the anti-replay window, for any peers, word size, sequence *)
(* space and number of frames, across the wraps of the sequence.  The      *)
(* types hold on every channel.  That the window never takes a frame twice *)
(* and never refuses a fresh one needs SoundChannel: shiftWindow goes      *)
(* wrong on a gap strictly between a word and the window, which the run    *)
(* replay_shift shows, and half of the sequence space is what the code     *)
(* itself takes for the wrap.                                              *)
(*                                                                         *)
(* The invariant is that each entry describes the history of its peer: the *)
(* stored number stands for the newest frame accepted, up to one sequence  *)
(* space that the code adds at a wrap and keeps, and the set bits are the  *)
(* distances of the accepted frames behind it.                             *)
(***************************************************************************)
EXTENDS ReplayWindow, TLAPS

\* Division with remainder.
LEMMA Remainder ==
    ASSUME NEW n \in Int
    PROVE  /\ n % SeqSpace \in 0..SeqSpace - 1
           /\ n \div SeqSpace \in Int
           /\ n = (SeqSpace * (n \div SeqSpace)) + (n % SeqSpace)
  BY ReplayAssumption

\* A multiple of the sequence space below it is zero.
LEMMA Multiple ==
    ASSUME NEW k \in Int, -2 * SeqSpace < SeqSpace * k, SeqSpace * k < 2 * SeqSpace
    PROVE  k \in {-1, 0, 1}
<1> SUFFICES k > -2 /\ k < 2
  OBVIOUS
<1>1. SeqSpace \in Nat /\ SeqSpace > 0
  BY ReplayAssumption
<1>2. CASE k >= 2
  BY <1>1, <1>2
<1>3. CASE k <= -2
  BY <1>1, <1>3
<1> QED
  BY <1>2, <1>3

\* Numbers less than the sequence space apart have remainders as far apart, or
\* one sequence space off.
LEMMA Neighbours ==
    ASSUME NEW m \in Int, NEW n \in Int, -SeqSpace < n - m, n - m < SeqSpace
    PROVE  (n % SeqSpace) - (m % SeqSpace) \in {n - m, n - m + SeqSpace, n - m - SeqSpace}
<1> DEFINE a == n \div SeqSpace
           b == m \div SeqSpace
           x == n % SeqSpace
           y == m % SeqSpace
<1>0. SeqSpace \in Nat
  BY ReplayAssumption
<1>1. /\ a \in Int /\ b \in Int /\ x \in 0..SeqSpace - 1 /\ y \in 0..SeqSpace - 1
      /\ n = (SeqSpace * a) + x /\ m = (SeqSpace * b) + y
  BY Remainder
<1> HIDE DEF a, b, x, y
<1>2. SeqSpace * (a - b) = (SeqSpace * a) - (SeqSpace * b)
  BY <1>0, <1>1
<1>3. SeqSpace * a \in Int /\ SeqSpace * b \in Int
  BY <1>0, <1>1
<1>4. SeqSpace * (a - b) = (n - m) - (x - y)
  BY <1>1, <1>2, <1>3
<1>5. a - b \in {-1, 0, 1}
  BY <1>0, <1>1, <1>4, Multiple
<1>6. SeqSpace * (a - b) \in {-SeqSpace, 0, SeqSpace}
  BY <1>0, <1>5
<1>7. x - y \in {n - m, n - m + SeqSpace, n - m - SeqSpace}
  BY <1>0, <1>1, <1>4, <1>6
<1> QED
  BY <1>7 DEF x, y

\* A number is not below its remainder, and one above the sequence space is at
\* least the sequence space above it.
LEMMA Quotient ==
    ASSUME NEW n \in Nat
    PROVE  /\ n % SeqSpace <= n
           /\ n >= SeqSpace => n - (n % SeqSpace) >= SeqSpace
<1> DEFINE a == n \div SeqSpace
           x == n % SeqSpace
<1>1. /\ a \in Int /\ x \in 0..SeqSpace - 1 /\ SeqSpace \in Nat /\ SeqSpace > 0
      /\ n = (SeqSpace * a) + x
  BY Remainder, ReplayAssumption
<1> HIDE DEF a, x
<1>2. CASE a <= -1
  <2>1. SeqSpace * a <= -SeqSpace
    BY <1>1, <1>2
  <2> QED
    BY <1>1, <2>1
<1>3. CASE a = 0
  BY <1>1, <1>3 DEF x
<1>4. CASE a >= 1
  <2>1. SeqSpace * a >= SeqSpace
    BY <1>1, <1>4
  <2> QED
    BY <1>1, <2>1 DEF x
<1> QED
  BY <1>1, <1>2, <1>3, <1>4

-----------------------------------------------------------------------------
(* Sequence numbers *)

\* What the channel may do: no frame arrives further from the newest one than
\* half the sequence space, and none after a gap of the lengths that shiftWindow
\* gets wrong.
SoundChannel ==
    /\ WindowSize <= Half
    /\ \A d \in Arrivals :
           /\ Half - SeqSpace < d /\ d < SeqSpace - Half
           /\ d <= Word \/ d >= WindowSize

\* lastSeq stands for frame n: its number, or, from the first wrap on, that and
\* a sequence space.
StandsFor(seq, n) == seq = n % SeqSpace \/ (seq = (n % SeqSpace) + SeqSpace /\ n >= SeqSpace)

\* The normalised numbers are as far apart as the frames they stand for; but for
\* a frame after the second wrap, which is too old for the window by them.
LEMMA Normalised ==
    ASSUME SoundChannel,
           NEW top \in Nat, NEW n \in Nat, NEW lst \in Nat,
           n - top \in Arrivals, StandsFor(lst, top)
    PROVE  LET seq == NormalizeSeq(n % SeqSpace, lst)
               last == NormalizeLast(n % SeqSpace, lst)
           IN  /\ seq \in Nat /\ last \in Nat
               /\ StandsFor(last, top)
               /\ \/ seq - last = n - top /\ (n > top => StandsFor(seq, n))
                  \/ n > top /\ last - seq >= WindowSize /\ n >= 2 * SeqSpace
<1> DEFINE x == n % SeqSpace
           y == top % SeqSpace
           d == n - top
           seq == NormalizeSeq(x, lst)
           last == NormalizeLast(x, lst)
<1>1. /\ x \in 0..SeqSpace - 1 /\ y \in 0..SeqSpace - 1
      /\ x <= n /\ y <= top
      /\ top >= SeqSpace => top - y >= SeqSpace
  BY Remainder, Quotient
<1>2. /\ SeqSpace \in Nat /\ SeqSpace > 0 /\ Half \in Nat /\ Word \in Nat /\ Word > 0
      /\ 2 * Half <= SeqSpace
  BY ReplayAssumption DEF Half
<1>3. /\ d \in Int /\ Half - SeqSpace < d /\ d < SeqSpace - Half
      /\ WindowSize <= Half /\ WindowSize \in Nat
  BY <1>2 DEF SoundChannel, WindowSize
<1>4. x - y \in {d, d + SeqSpace, d - SeqSpace}
  BY <1>2, <1>3, Neighbours
<1>5. lst = y \/ (lst = y + SeqSpace /\ top >= SeqSpace)
  BY DEF StandsFor
<1>6. SeqSpace - Half <= Half + 1
  BY <1>2, ReplayAssumption DEF Half
<1>7. /\ seq = IF x < lst /\ lst - x > Half THEN x + SeqSpace ELSE x
      /\ last = IF x > lst /\ x - lst > Half THEN lst + SeqSpace ELSE lst
  BY DEF NormalizeSeq, NormalizeLast
<1> SUFFICES /\ seq \in Nat /\ last \in Nat
             /\ last = y \/ (last = y + SeqSpace /\ top >= SeqSpace)
             /\ \/ seq - last = d /\ (d > 0 => seq = x \/ (seq = x + SeqSpace /\ n >= SeqSpace))
                \/ d > 0 /\ last - seq >= WindowSize /\ n >= 2 * SeqSpace
  BY DEF StandsFor
<1>8. d = n - top
  OBVIOUS
<1> HIDE DEF x, y, d, seq, last
<1>9. CASE lst = y
  <2>1. CASE x - y = d
    BY <1>1, <1>2, <1>3, <1>6, <1>7, <1>8, <1>9, <2>1
  <2>2. CASE x - y = d + SeqSpace
    BY <1>1, <1>2, <1>3, <1>6, <1>7, <1>8, <1>9, <2>2
  <2>3. CASE x - y = d - SeqSpace
    BY <1>1, <1>2, <1>3, <1>6, <1>7, <1>8, <1>9, <2>3
  <2> QED
    BY <1>4, <2>1, <2>2, <2>3
<1>10. CASE lst = y + SeqSpace /\ top >= SeqSpace
  <2>1. CASE x - y = d
    BY <1>1, <1>2, <1>3, <1>6, <1>7, <1>8, <1>10, <2>1
  <2>2. CASE x - y = d + SeqSpace
    BY <1>1, <1>2, <1>3, <1>6, <1>7, <1>8, <1>10, <2>2
  <2>3. CASE x - y = d - SeqSpace
    BY <1>1, <1>2, <1>3, <1>6, <1>7, <1>8, <1>10, <2>3
  <2> QED
    BY <1>4, <2>1, <2>2, <2>3
<1> QED
  BY <1>5, <1>9, <1>10

-----------------------------------------------------------------------------
(* The bitmap *)

Bitmaps == [{0, 1} -> SUBSET Bits]

\* The distances a bitmap marks.
Marks(bm) == bm[0] \cup {b + Word : b \in bm[1]}

LEMMA BitmapFacts ==
    ASSUME NEW bm \in Bitmaps
    PROVE  /\ bm[0] \subseteq Bits /\ bm[1] \subseteq Bits
           /\ \A k \in Int : k \in Marks(bm) <=> k \in bm[0] \/ k - Word \in bm[1]
           /\ Marks(bm) \subseteq 0..WindowSize - 1
<1>1. Word \in Nat /\ Word > 0
  BY ReplayAssumption
<1>2. bm[0] \subseteq Bits /\ bm[1] \subseteq Bits
  BY DEF Bitmaps
<1>3. \A k \in Int : k \in Marks(bm) <=> k \in bm[0] \/ k - Word \in bm[1]
  <2> SUFFICES ASSUME NEW k \in Int
               PROVE  (\E b \in bm[1] : k = b + Word) <=> k - Word \in bm[1]
    BY DEF Marks
  <2>1. \A b \in bm[1] : b \in Int /\ (k = b + Word <=> b = k - Word)
    BY <1>1, <1>2 DEF Bits
  <2> QED
    BY <2>1
<1>4. Marks(bm) \subseteq 0..WindowSize - 1
  BY <1>1, <1>2 DEF Marks, Bits, WindowSize
<1> QED
  BY <1>2, <1>3, <1>4

\* A fresh bitmap marks the newest frame alone.
LEMMA FreshMarks == FreshBitmap \in Bitmaps /\ Marks(FreshBitmap) = {0}
  BY ReplayAssumption DEF FreshBitmap, Bitmaps, Marks, Bits

\* shiftWindow moves every mark by the gap and marks the new frame, for a gap
\* of no more than a word.
LEMMA ShiftedMarks ==
    ASSUME NEW bm \in Bitmaps, NEW n \in 1..Word
    PROVE  /\ ShiftWindow(bm, n) \in Bitmaps
           /\ \A k \in 0..WindowSize - 1 :
                  k \in Marks(ShiftWindow(bm, n)) <=> k = 0 \/ k - n \in Marks(bm)
<1> DEFINE low == {0} \cup (IF n < Word THEN ShiftLeft(bm[0], n) ELSE {})
           high == IF n < Word THEN ShiftLeft(bm[1], n) \cup ShiftRight(bm[0], Word - n)
                   ELSE ShiftRight(bm[0], n - Word)
           new == ShiftWindow(bm, n)
<1>1. Word \in Nat /\ Word > 0 /\ n \in Int /\ 0 < n /\ n <= Word
  BY ReplayAssumption
<1>2. bm[0] \subseteq 0..Word - 1 /\ bm[1] \subseteq 0..Word - 1
  BY BitmapFacts DEF Bits
<1>3. new = [w \in {0, 1} |-> IF w = 0 THEN low ELSE high]
  BY DEF ShiftWindow
<1>4. new[0] = low /\ new[1] = high
  BY <1>3
<1>5. ASSUME NEW word \in SUBSET (0..Word - 1), NEW s \in 0..Word
      PROVE  /\ \A k \in Int : k \in ShiftLeft(word, s) <=> k - s \in word /\ k < Word
             /\ \A k \in Int : k \in ShiftRight(word, s) <=> k + s \in word /\ k >= 0
             /\ ShiftLeft(word, s) \subseteq 0..Word - 1
             /\ ShiftRight(word, s) \subseteq 0..Word - 1
  <2>1. s \in Int /\ 0 <= s /\ \A b \in word : b \in Int /\ 0 <= b /\ b < Word
    BY <1>1
  <2>2. \A k \in Int : k \in ShiftLeft(word, s) <=> k - s \in word /\ k < Word
    <3> SUFFICES ASSUME NEW k \in Int
                 PROVE  (\E b \in word : b + s < Word /\ k = b + s) <=> k - s \in word /\ k < Word
      BY DEF ShiftLeft
    <3>1. \A b \in word : k = b + s <=> b = k - s
      BY <2>1
    <3> QED
      BY <1>1, <2>1, <3>1
  <2>3. \A k \in Int : k \in ShiftRight(word, s) <=> k + s \in word /\ k >= 0
    <3> SUFFICES ASSUME NEW k \in Int
                 PROVE  (\E b \in word : b >= s /\ k = b - s) <=> k + s \in word /\ k >= 0
      BY DEF ShiftRight
    <3>1. \A b \in word : k = b - s <=> b = k + s
      BY <2>1
    <3> QED
      BY <1>1, <2>1, <3>1
  <2>4. ShiftLeft(word, s) \subseteq 0..Word - 1
    BY <1>1, <2>1 DEF ShiftLeft
  <2>5. ShiftRight(word, s) \subseteq 0..Word - 1
    BY <1>1, <2>1 DEF ShiftRight
  <2> QED
    BY <2>2, <2>3, <2>4, <2>5
<1>6. low \subseteq Bits /\ high \subseteq Bits
  <2>1. CASE n < Word
    <3>1. n \in 0..Word /\ Word - n \in 0..Word
      BY <1>1, <2>1
    <3>2. /\ ShiftLeft(bm[0], n) \subseteq Bits /\ ShiftLeft(bm[1], n) \subseteq Bits
          /\ ShiftRight(bm[0], Word - n) \subseteq Bits
      BY <1>2, <1>5, <3>1 DEF Bits
    <3>3. 0 \in Bits
      BY <1>1 DEF Bits
    <3> QED
      BY <2>1, <3>2, <3>3
  <2>2. CASE n = Word
    <3>1. n - Word \in 0..Word /\ ~(n < Word)
      BY <1>1, <2>2
    <3>2. ShiftRight(bm[0], n - Word) \subseteq Bits
      BY <1>2, <1>5, <3>1 DEF Bits
    <3>3. 0 \in Bits
      BY <1>1 DEF Bits
    <3> QED
      BY <3>1, <3>2, <3>3
  <2> QED
    BY <1>1, <2>1, <2>2
<1>7. new \in Bitmaps
  BY <1>3, <1>6 DEF Bitmaps
<1>8. ASSUME NEW k \in 0..WindowSize - 1
      PROVE  k \in Marks(new) <=> k = 0 \/ k - n \in Marks(bm)
  <2>1. k \in Int /\ 0 <= k /\ k < 2 * Word
    BY <1>1 DEF WindowSize
  <2>2. k \in Marks(new) <=> k \in low \/ k - Word \in high
    BY <1>4, <1>7, <2>1, BitmapFacts
  <2>3. k - n \in Marks(bm) <=> k - n \in bm[0] \/ k - n - Word \in bm[1]
    BY <1>1, <2>1, BitmapFacts
  <2>4. CASE n < Word
    <3>1. k \in low <=> k = 0 \/ (k - n \in bm[0] /\ k < Word)
      <4>1. n \in 0..Word
        BY <1>1
      <4> QED
        BY <1>2, <1>5, <2>1, <2>4, <4>1
    <3>2. k - Word \in high <=> (k - Word - n \in bm[1]) \/ (k - n \in bm[0] /\ k - Word >= 0)
      <4>1. n \in 0..Word /\ Word - n \in 0..Word /\ k - Word \in Int
        BY <1>1, <2>1, <2>4
      <4>2. k - Word \in ShiftLeft(bm[1], n) <=> k - Word - n \in bm[1] /\ k - Word < Word
        BY <1>2, <1>5, <4>1
      <4>3. k - Word \in ShiftRight(bm[0], Word - n) <=> (k - Word) + (Word - n) \in bm[0] /\ k - Word >= 0
        BY <1>2, <1>5, <4>1
      <4>4. (k - Word) + (Word - n) = k - n /\ k - Word < Word
        BY <1>1, <2>1
      <4> QED
        BY <2>4, <4>2, <4>3, <4>4
    <3>3. k - Word - n = k - n - Word /\ (k < Word \/ k - Word >= 0)
      BY <1>1, <2>1
    <3> QED
      BY <2>2, <2>3, <3>1, <3>2, <3>3
  <2>5. CASE n = Word
    <3>1. k \in low <=> k = 0
      BY <2>5, <1>1
    <3>2. k - Word \in high <=> k - Word \in bm[0]
      <4>1. n - Word \in 0..Word /\ k - Word \in Int /\ n - Word = 0 /\ ~(n < Word)
        BY <1>1, <2>1, <2>5
      <4>2. k - Word \in ShiftRight(bm[0], n - Word) <=> (k - Word) + (n - Word) \in bm[0] /\ k - Word >= 0
        BY <1>2, <1>5, <4>1
      <4>3. (k - Word) + (n - Word) = k - Word
        BY <4>1
      <4>4. k - Word \in bm[0] => k - Word >= 0
        BY <1>1, <1>2
      <4> QED
        BY <4>1, <4>2, <4>3, <4>4
    <3>3. k - n - Word \notin bm[1]
      BY <1>1, <1>2, <2>1, <2>5
    <3> QED
      BY <2>2, <2>3, <2>5, <3>1, <3>2, <3>3
  <2> QED
    BY <1>1, <2>4, <2>5
<1> QED
  BY <1>7, <1>8

\* acceptPastSequence looks at, and sets, the bit of its distance.
Marking(bm, k) == [bm EXCEPT ![WordOf(k)] = @ \cup {BitOf(k)}]

LEMMA MarkedBit ==
    ASSUME NEW bm \in Bitmaps, NEW k \in 0..WindowSize - 1
    PROVE  /\ BitOf(k) \in bm[WordOf(k)] <=> k \in Marks(bm)
           /\ Marking(bm, k) \in Bitmaps
           /\ \A j \in 0..WindowSize - 1 : j \in Marks(Marking(bm, k)) <=> j = k \/ j \in Marks(bm)
<1> DEFINE set == Marking(bm, k)
<1>1. Word \in Nat /\ Word > 0 /\ k \in Int /\ 0 <= k /\ k < 2 * Word
  BY ReplayAssumption DEF WindowSize
<1>2. /\ bm \in [{0, 1} -> SUBSET Bits] /\ bm[0] \subseteq 0..Word - 1 /\ bm[1] \subseteq 0..Word - 1
      /\ \A j \in Int : j \in Marks(bm) <=> j \in bm[0] \/ j - Word \in bm[1]
  BY BitmapFacts DEF Bitmaps, Bits
<1>3. CASE k < Word
  <2>1. WordOf(k) = 0 /\ BitOf(k) = k
    BY <1>1, <1>3 DEF WordOf, BitOf
  <2>2. set[0] = bm[0] \cup {k} /\ set[1] = bm[1] /\ set \in Bitmaps
    BY <1>1, <1>2, <1>3, <2>1 DEF Marking, Bitmaps, Bits
  <2>3. k - Word \notin bm[1]
    BY <1>1, <1>2, <1>3
  <2>4. \A j \in Int : j \in Marks(set) <=> j \in set[0] \/ j - Word \in set[1]
    BY <2>2, BitmapFacts
  <2>5. \A j \in 0..WindowSize - 1 : j \in Marks(set) <=> j = k \/ j \in Marks(bm)
    BY <1>2, <2>2, <2>4
  <2> QED
    BY <1>1, <1>2, <2>1, <2>2, <2>3, <2>5
<1>4. CASE k >= Word
  <2>1. WordOf(k) = 1 /\ BitOf(k) = k - Word
    BY <1>1, <1>4 DEF WordOf, BitOf
  <2>2. set[0] = bm[0] /\ set[1] = bm[1] \cup {k - Word} /\ set \in Bitmaps
    BY <1>1, <1>2, <1>4, <2>1 DEF Marking, Bitmaps, Bits
  <2>3. k \notin bm[0]
    BY <1>1, <1>2, <1>4
  <2>4. \A j \in Int : j \in Marks(set) <=> j \in set[0] \/ j - Word \in set[1]
    BY <2>2, BitmapFacts
  <2>5. \A j \in Int : j - Word = k - Word <=> j = k
    BY <1>1
  <2>6. \A j \in 0..WindowSize - 1 : j \in Marks(set) <=> j = k \/ j \in Marks(bm)
    BY <1>2, <2>2, <2>4, <2>5
  <2> QED
    BY <1>1, <1>2, <2>1, <2>2, <2>3, <2>6
<1> QED
  BY <1>1, <1>3, <1>4

-----------------------------------------------------------------------------
(* One entry *)

\* An entry with this number and this bitmap describes the history: top is the
\* newest frame accepted, the number stands for it, and the bits are the accepted
\* frames of the window.
Describes(top, frames, lst, bm) ==
    /\ top \in frames
    /\ \A m \in frames : m <= top
    /\ StandsFor(lst, top)
    /\ \A k \in 0..WindowSize - 1 : k \in Marks(bm) <=> top - k \in frames

\* A newer frame, next in the window or beyond it.
LEMMA FutureDescribes ==
    ASSUME NEW frames \in SUBSET Nat, NEW top \in Nat, NEW lst \in Nat, NEW bm \in Bitmaps,
           Describes(top, frames, lst, bm),
           NEW n \in Nat, n > top, NEW seq \in Nat, StandsFor(seq, n),
           NEW new \in Bitmaps,
           \/ n - top >= WindowSize /\ new = FreshBitmap
           \/ n - top <= Word /\ new = ShiftWindow(bm, n - top)
    PROVE  Describes(n, frames \cup {n}, seq, new) /\ n \notin frames
<1>1. Word \in Nat /\ Word > 0 /\ WindowSize = 2 * Word
  BY ReplayAssumption DEF WindowSize
<1>2. \A m \in frames : m \in Nat /\ m <= top
  BY DEF Describes
<1>3. n \notin frames /\ \A m \in frames \cup {n} : m <= n
  BY <1>2
<1>4. ASSUME NEW k \in 0..WindowSize - 1
      PROVE  k \in Marks(new) <=> n - k \in frames \cup {n}
  <2>1. k \in Int /\ 0 <= k /\ k < WindowSize /\ (n - k = n <=> k = 0)
    BY <1>1
  <2>2. CASE n - top >= WindowSize /\ new = FreshBitmap
    <3>1. k \in Marks(new) <=> k = 0
      BY <2>2, FreshMarks
    <3>2. n - k \notin frames
      BY <1>2, <2>1, <2>2, <1>1
    <3> QED
      BY <2>1, <3>1, <3>2
  <2>3. CASE n - top <= Word /\ new = ShiftWindow(bm, n - top)
    <3>1. n - top \in 1..Word
      BY <1>1, <2>3
    <3>2. k \in Marks(new) <=> k = 0 \/ k - (n - top) \in Marks(bm)
      BY <2>3, <3>1, ShiftedMarks
    <3>3. CASE k - (n - top) \in 0..WindowSize - 1
      <4>1. k - (n - top) \in Marks(bm) <=> top - (k - (n - top)) \in frames
        BY <3>3 DEF Describes
      <4>2. top - (k - (n - top)) = n - k
        BY <2>1
      <4> QED
        BY <2>1, <3>2, <4>1, <4>2
    <3>4. CASE k - (n - top) \notin 0..WindowSize - 1
      <4>1. k - (n - top) < 0
        BY <1>1, <2>1, <3>1, <3>4
      <4>2. n - k \notin frames
        BY <1>2, <2>1, <4>1
      <4>3. k - (n - top) \notin Marks(bm)
        BY <3>4, BitmapFacts
      <4> QED
        BY <2>1, <3>2, <4>2, <4>3
    <3> QED
      BY <3>3, <3>4
  <2> QED
    BY <2>2, <2>3
<1> QED
  BY <1>3, <1>4 DEF Describes

\* An older frame of the window.
LEMMA PastDescribes ==
    ASSUME NEW frames \in SUBSET Nat, NEW top \in Nat, NEW lst \in Nat, NEW bm \in Bitmaps,
           Describes(top, frames, lst, bm),
           NEW n \in Nat, NEW k \in 0..WindowSize - 1, n = top - k, StandsFor(lst, top)
    PROVE  /\ BitOf(k) \in bm[WordOf(k)] <=> n \in frames
           /\ Describes(top, frames \cup {n}, lst, Marking(bm, k))
<1>1. Word \in Nat /\ WindowSize = 2 * Word /\ k \in Int /\ 0 <= k
  BY ReplayAssumption DEF WindowSize
<1>2. BitOf(k) \in bm[WordOf(k)] <=> n \in frames
  BY MarkedBit DEF Describes
<1>3. top \in frames \cup {n} /\ \A m \in frames \cup {n} : m <= top
  BY <1>1 DEF Describes
<1>4. ASSUME NEW j \in 0..WindowSize - 1
      PROVE  j \in Marks(Marking(bm, k)) <=> top - j \in frames \cup {n}
  <2>1. top - j = n <=> j = k
    BY <1>1
  <2>2. j \in Marks(bm) <=> top - j \in frames
    BY DEF Describes
  <2> QED
    BY <2>1, <2>2, MarkedBit
<1> QED
  BY <1>2, <1>3, <1>4 DEF Describes

\* There is one newest frame.
LEMMA OneTop ==
    ASSUME NEW frames \in SUBSET Nat, NEW n \in frames, \A m \in frames : m <= n
    PROVE  (CHOOSE t \in frames : \A m \in frames : m <= t) = n
<1> DEFINE t == CHOOSE u \in frames : \A m \in frames : m <= u
<1>1. t \in frames /\ \A m \in frames : m <= t
  OBVIOUS
<1>2. t <= n /\ n <= t /\ t \in Nat /\ n \in Nat
  BY <1>1
<1> HIDE DEF t
<1>3. t = n
  BY <1>2
<1> QED
  BY <1>3 DEF t

-----------------------------------------------------------------------------
(* The invariant *)

Entry(p) == Describes(Newest(p), accepted[p], lastSeq[p], bitmap[p])

WindowInv ==
    /\ TypeOK
    /\ \A p \in tracked : Entry(p)
    /\ \A p \in Peers \ tracked : accepted[p] = {}
    /\ NoReplay
    /\ NoFalseRefusal

LEMMA InitWindowInv == Init => WindowInv
<1> SUFFICES ASSUME Init PROVE WindowInv
  OBVIOUS
<1>1. EmptyBitmap \in [{0, 1} -> SUBSET Bits]
  BY DEF EmptyBitmap
<1>2. TypeOK
  BY <1>1, ReplayAssumption DEF Init, TypeOK
<1> QED
  BY <1>2 DEF Init, WindowInv, NoReplay, NoFalseRefusal

\* What a frame delivered to peer p changes, whatever the verdict.
LEMMA AcceptType ==
    ASSUME TypeOK, NEW p \in Peers, NEW n \in FirstFrame..LastFrame, Accept(p, n)
    PROVE  /\ n \in Nat /\ UNCHANGED sent /\ stale' \subseteq Peers
           /\ tracked' = tracked \cup {p}
           /\ \A q \in Peers \ {p} :
                  lastSeq'[q] = lastSeq[q] /\ bitmap'[q] = bitmap[q] /\ accepted'[q] = accepted[q]
           /\ accepted' \in [Peers -> SUBSET Nat]
           /\ lastSeq' \in [Peers -> Nat] <=> lastSeq'[p] \in Nat
           /\ bitmap' \in [Peers -> Bitmaps] <=> bitmap'[p] \in Bitmaps
           /\ replayed' \subseteq Peers \X Nat /\ refused' \subseteq Peers \X Nat
<1>1. n \in Nat
  BY ReplayAssumption
<1>2. /\ lastSeq \in [Peers -> Nat] /\ bitmap \in [Peers -> Bitmaps] /\ accepted \in [Peers -> SUBSET Nat]
      /\ replayed \subseteq Peers \X Nat /\ refused \subseteq Peers \X Nat
      /\ stale \subseteq Peers
  BY DEF TypeOK, Bitmaps
<1>3. Accepts(p, n) \/ Refuses(p, n)
  BY DEF Accept, AcceptFirst, AcceptFuture, AcceptSame, AcceptPast
<1>4. /\ accepted' = accepted \/ accepted' = [accepted EXCEPT ![p] = @ \cup {n}]
      /\ replayed' \subseteq replayed \cup {<<p, n>>}
      /\ refused' \subseteq refused \cup {<<p, n>>}
  BY <1>3 DEF Accepts, Refuses
<1>5. \E l : lastSeq' = [lastSeq EXCEPT ![p] = l]
  BY DEF Accept, AcceptFirst, AcceptFuture, AcceptSame, AcceptPast
<1>6. \E b : bitmap' = [bitmap EXCEPT ![p] = b]
  <2>1. bitmap = [bitmap EXCEPT ![p] = bitmap[p]]
    BY <1>2
  <2> QED
    BY <1>2, <2>1 DEF Accept, AcceptFirst, AcceptFuture, AcceptSame, AcceptPast
<1>7. tracked' = tracked \cup {p} /\ UNCHANGED sent /\ stale' \subseteq Peers
  BY <1>2 DEF Accept, AcceptFirst
<1> QED
  BY <1>1, <1>2, <1>4, <1>5, <1>6, <1>7

\* The entry of the peer describes the history again, and the verdict on the
\* frame was the filter's, but for fresh ones refused after the second wrap.
RightVerdict(p, n) ==
    /\ lastSeq'[p] \in Nat /\ bitmap'[p] \in Bitmaps
    /\ Entry(p)'
    /\ replayed' = replayed
    /\ refused' = refused \/ (refused' = refused \cup {<<p, n>>} /\ n >= 2 * SeqSpace)
    /\ accepted' = accepted \/ Filter!Take(p, n)

LEMMA AcceptRight ==
    ASSUME SoundChannel, WindowInv, NEW p \in Peers, NEW n \in FirstFrame..LastFrame, Accept(p, n)
    PROVE  RightVerdict(p, n)
<1>1. n \in Nat /\ n % SeqSpace \in Nat
  BY ReplayAssumption, Remainder
<1>2. /\ lastSeq \in [Peers -> Nat] /\ bitmap \in [Peers -> Bitmaps] /\ accepted \in [Peers -> SUBSET Nat]
      /\ accepted[p] \in SUBSET Nat /\ lastSeq[p] \in Nat /\ bitmap[p] \in Bitmaps
  BY DEF WindowInv, TypeOK, Bitmaps
<1>3. ASSUME NEW top \in accepted'[p], accepted'[p] \in SUBSET Nat,
             Describes(top, accepted'[p], lastSeq'[p], bitmap'[p])
      PROVE  Entry(p)'
  <2>1. \A m \in accepted'[p] : m <= top
    BY <1>3 DEF Describes
  <2>2. Newest(p)' = top
    BY <1>3, <2>1, OneTop DEF Newest
  <2> QED
    BY <1>3, <2>2 DEF Entry
<1>4. CASE AcceptFirst(p, n)
  <2>1. /\ p \in Peers \ tracked
        /\ lastSeq'[p] = n % SeqSpace /\ bitmap'[p] = FreshBitmap
        /\ Accepts(p, n)
    BY <1>2, <1>4 DEF AcceptFirst
  <2>2. accepted[p] = {} /\ accepted'[p] = {n}
    BY <1>2, <2>1 DEF Accepts, WindowInv
  <2>3. Describes(n, {n}, n % SeqSpace, FreshBitmap)
    <3>1. StandsFor(n % SeqSpace, n)
      BY DEF StandsFor
    <3>2. \A k \in 0..WindowSize - 1 : n - k \in {n} <=> k = 0
      BY <1>1, ReplayAssumption DEF WindowSize
    <3> QED
      BY <1>1, <3>1, <3>2, FreshMarks DEF Describes
  <2>4. Entry(p)'
    BY <1>1, <1>3, <2>1, <2>2, <2>3
  <2>5. replayed' = replayed /\ refused' = refused
    BY <2>1, <2>2 DEF Accepts
  <2>6. Filter!Take(p, n)
    BY <2>1, <2>2 DEF Accepts, Filter!Take
  <2> QED
    BY <1>1, <2>1, <2>4, <2>5, <2>6, FreshMarks DEF RightVerdict
<1>5. ASSUME p \in tracked,
             NEW seq \in Int, seq = NormalizeSeq(n % SeqSpace, lastSeq[p]),
             NEW last \in Int, last = NormalizeLast(n % SeqSpace, lastSeq[p]),
             n - Newest(p) \in Arrivals,
             AcceptFuture(p, n, seq, last) \/ AcceptSame(p, n, seq, last) \/ AcceptPast(p, n, seq, last)
      PROVE  RightVerdict(p, n)
  <2> DEFINE top == Newest(p)
  <2>1. Describes(top, accepted[p], lastSeq[p], bitmap[p]) /\ top \in accepted[p] /\ top \in Nat
    BY <1>2, <1>5 DEF WindowInv, Entry, Describes
  <2>2. n - top \in Arrivals
    BY <1>5
  <2> HIDE DEF top
  <2>3. /\ seq \in Nat /\ last \in Nat
        /\ StandsFor(last, top)
        /\ \/ seq - last = n - top /\ (n > top => StandsFor(seq, n))
           \/ n > top /\ last - seq >= WindowSize /\ n >= 2 * SeqSpace
    <3>1. StandsFor(lastSeq[p], top)
      BY <2>1 DEF Describes
    <3> QED
      BY <1>1, <1>2, <1>5, <2>1, <2>2, <3>1, Normalised
  <2>4. WindowSize \in Nat /\ WindowSize = 2 * Word /\ Word \in Nat /\ Word > 0
    BY ReplayAssumption DEF WindowSize
  <2>5. CASE AcceptFuture(p, n, seq, last)
    <3>1. seq > last /\ seq - last = n - top /\ n > top /\ StandsFor(seq, n)
      BY <1>1, <2>1, <2>3, <2>4, <2>5 DEF AcceptFuture
    <3>2. /\ lastSeq'[p] = seq
          /\ bitmap'[p] = IF n - top >= WindowSize THEN FreshBitmap ELSE ShiftWindow(bitmap[p], n - top)
          /\ Accepts(p, n)
      BY <1>2, <2>5, <3>1 DEF AcceptFuture
    <3>3. n - top <= Word \/ n - top >= WindowSize
      BY <2>2 DEF SoundChannel
    <3>4. bitmap'[p] \in Bitmaps
      <4>1. CASE n - top >= WindowSize
        BY <3>2, <4>1, FreshMarks
      <4>2. CASE ~(n - top >= WindowSize)
        <5>1. n - top \in 1..Word
          BY <1>1, <2>1, <2>4, <3>1, <3>3, <4>2
        <5> QED
          BY <1>2, <3>2, <4>2, <5>1, ShiftedMarks
      <4> QED
        BY <4>1, <4>2
    <3>5. Describes(n, accepted[p] \cup {n}, seq, bitmap'[p]) /\ n \notin accepted[p]
      BY <1>1, <1>2, <2>1, <2>3, <3>1, <3>2, <3>3, <3>4, FutureDescribes
    <3>6. accepted'[p] = accepted[p] \cup {n} /\ replayed' = replayed /\ refused' = refused
      BY <1>2, <3>2, <3>5 DEF Accepts
    <3>7. Entry(p)'
      BY <1>1, <1>2, <1>3, <3>2, <3>5, <3>6
    <3>8. Filter!Take(p, n)
      <4>1. \A m \in accepted[p] : m <= top /\ m \in Nat
        BY <1>2, <2>1 DEF Describes
      <4>2. \A m \in accepted[p] : n > m - WindowSize
        BY <1>1, <2>1, <2>4, <3>1, <4>1
      <4> QED
        BY <3>2, <3>5, <4>2 DEF Accepts, Filter!Take
    <3> QED
      BY <2>3, <3>2, <3>4, <3>6, <3>7, <3>8 DEF RightVerdict
  <2>6. ASSUME Refuses(p, n), lastSeq'[p] = last, bitmap'[p] = bitmap[p],
               n \in accepted[p] \/ n <= top - WindowSize \/ n >= 2 * SeqSpace
        PROVE  RightVerdict(p, n)
    <3>1. accepted' = accepted /\ replayed' = replayed
      BY <2>6 DEF Refuses
    <3>2. Describes(top, accepted[p], last, bitmap[p])
      BY <2>1, <2>3 DEF Describes
    <3>3. Entry(p)'
      BY <1>2, <1>3, <2>1, <2>6, <3>1, <3>2
    <3>4. refused' = refused \/ (refused' = refused \cup {<<p, n>>} /\ n >= 2 * SeqSpace)
      BY <1>1, <2>1, <2>4, <2>6 DEF Refuses, top
    <3> QED
      BY <1>2, <2>3, <2>6, <3>1, <3>3, <3>4 DEF RightVerdict
  <2>7. CASE AcceptSame(p, n, seq, last)
    <3>1. n = top
      BY <1>1, <2>1, <2>3, <2>4, <2>7 DEF AcceptSame
    <3>2. 0 \in Marks(bitmap[p])
      <4>1. 0 \in 0..WindowSize - 1 /\ top - 0 = top
        BY <2>1, <2>4
      <4> QED
        BY <2>1, <4>1 DEF Describes
    <3>3. 0 \in bitmap[p][0]
      <4>1. 0 - Word \notin bitmap[p][1]
        BY <1>2, <2>4, BitmapFacts DEF Bits
      <4> QED
        BY <1>2, <3>2, <4>1, BitmapFacts
    <3>4. lastSeq'[p] = last /\ bitmap'[p] = bitmap[p] /\ Refuses(p, n)
      BY <1>2, <2>7, <3>3 DEF AcceptSame
    <3> QED
      BY <2>1, <2>6, <3>1, <3>4
  <2>8. CASE AcceptPast(p, n, seq, last)
    <3> DEFINE k == last - seq
    <3>1. k \in Nat /\ k > 0 /\ seq < last
      BY <2>3, <2>8 DEF AcceptPast
    <3>2. lastSeq'[p] = last
      BY <1>2, <2>8 DEF AcceptPast
    <3>3. CASE k < WindowSize
      <4>1. n = top - k /\ k \in 0..WindowSize - 1
        BY <1>1, <2>1, <2>3, <2>4, <3>1, <3>3
      <4>2. /\ BitOf(k) \in bitmap[p][WordOf(k)] <=> n \in accepted[p]
            /\ Describes(top, accepted[p] \cup {n}, last, Marking(bitmap[p], k))
        <5>1. Describes(top, accepted[p], last, bitmap[p])
          BY <2>1, <2>3 DEF Describes
        <5> HIDE DEF k
        <5> QED
          BY <1>1, <1>2, <2>1, <2>3, <4>1, <5>1, PastDescribes
      <4>3. CASE n \in accepted[p]
        <5>1. bitmap'[p] = bitmap[p] /\ Refuses(p, n)
          BY <2>8, <3>3, <4>2, <4>3 DEF AcceptPast
        <5> QED
          BY <2>6, <3>2, <4>3, <5>1
      <4>4. CASE n \notin accepted[p]
        <5>1. bitmap'[p] = Marking(bitmap[p], k) /\ Accepts(p, n)
          BY <1>2, <2>8, <3>3, <4>2, <4>4 DEF AcceptPast, Marking
        <5>2. bitmap'[p] \in Bitmaps
          BY <1>2, <4>1, <5>1, MarkedBit
        <5>3. accepted'[p] = accepted[p] \cup {n} /\ replayed' = replayed /\ refused' = refused
          BY <1>2, <4>4, <5>1 DEF Accepts
        <5>4. Entry(p)'
          BY <1>1, <1>2, <1>3, <2>1, <3>2, <4>2, <5>1, <5>3
        <5>5. Filter!Take(p, n)
          <6>1. \A m \in accepted[p] : m <= top /\ m \in Nat
            BY <1>2, <2>1 DEF Describes
          <6>2. n > top - WindowSize
            BY <1>1, <2>1, <2>4, <4>1
          <6>3. \A m \in accepted[p] : n > m - WindowSize
            BY <1>1, <2>1, <2>4, <6>1, <6>2
          <6> QED
            BY <4>4, <5>1, <6>3 DEF Accepts, Filter!Take
        <5> QED
          BY <2>3, <3>2, <5>2, <5>3, <5>4, <5>5 DEF RightVerdict
      <4> QED
        BY <4>3, <4>4
    <3>4. CASE ~(k < WindowSize)
      <4>1. bitmap'[p] = bitmap[p] /\ Refuses(p, n)
        BY <2>8, <3>4 DEF AcceptPast
      <4>2. n <= top - WindowSize \/ n >= 2 * SeqSpace
        BY <1>1, <2>1, <2>3, <2>4, <3>1, <3>4
      <4> QED
        BY <2>6, <3>2, <4>1, <4>2
    <3> QED
      BY <3>3, <3>4
  <2> QED
    BY <1>5, <2>5, <2>7, <2>8
<1>6. CASE ~AcceptFirst(p, n)
  <2> DEFINE seq == NormalizeSeq(n % SeqSpace, lastSeq[p])
             last == NormalizeLast(n % SeqSpace, lastSeq[p])
  <2>1. /\ p \in tracked /\ n - Newest(p) \in Arrivals
        /\ AcceptFuture(p, n, seq, last) \/ AcceptSame(p, n, seq, last) \/ AcceptPast(p, n, seq, last)
    BY <1>6 DEF Accept
  <2>2. seq \in Int /\ last \in Int
    BY <1>1, <1>2, ReplayAssumption DEF NormalizeSeq, NormalizeLast
  <2> QED
    BY <1>5, <2>1, <2>2
<1> QED
  BY <1>4, <1>6

-----------------------------------------------------------------------------
(* Types *)

\* Every verdict keeps the types, whatever the channel delivers.
LEMMA VerdictType ==
    ASSUME TypeOK, NEW p \in Peers, NEW n \in FirstFrame..LastFrame, Accept(p, n)
    PROVE  lastSeq'[p] \in Nat /\ bitmap'[p] \in Bitmaps
<1> DEFINE seq == NormalizeSeq(n % SeqSpace, lastSeq[p])
           last == NormalizeLast(n % SeqSpace, lastSeq[p])
<1>1. /\ lastSeq \in [Peers -> Nat] /\ bitmap \in [Peers -> Bitmaps]
      /\ lastSeq[p] \in Nat /\ bitmap[p] \in Bitmaps /\ n % SeqSpace \in Nat
  BY ReplayAssumption, Remainder DEF TypeOK, Bitmaps
<1>2. seq \in Nat /\ last \in Nat /\ Word \in Nat /\ Word > 0 /\ WindowSize = 2 * Word
  BY <1>1, ReplayAssumption DEF NormalizeSeq, NormalizeLast, WindowSize
<1> HIDE DEF seq, last
<1>3. CASE AcceptFirst(p, n)
  BY <1>1, <1>3, FreshMarks DEF AcceptFirst
<1>4. CASE AcceptFuture(p, n, seq, last)
  <2>1. lastSeq'[p] = seq
    BY <1>1, <1>4 DEF AcceptFuture
  <2>2. CASE seq - last >= WindowSize
    BY <1>1, <1>2, <1>4, <2>1, <2>2, FreshMarks DEF AcceptFuture
  <2>3. CASE ~(seq - last >= WindowSize)
    <3>1. bitmap'[p] = ShiftWindow(bitmap[p], seq - last)
      BY <1>1, <1>4, <2>3 DEF AcceptFuture
    <3>2. ASSUME NEW k \in Nat, k > 0 PROVE ShiftWindow(bitmap[p], k) \in Bitmaps
      <4> DEFINE low == {0} \cup (IF k < Word THEN ShiftLeft(bitmap[p][0], k) ELSE {})
                 high == IF k < Word
                         THEN ShiftLeft(bitmap[p][1], k) \cup ShiftRight(bitmap[p][0], Word - k)
                         ELSE ShiftRight(bitmap[p][0], k - Word)
      <4>1. bitmap[p][0] \subseteq 0..Word - 1 /\ bitmap[p][1] \subseteq 0..Word - 1
        BY <1>1, BitmapFacts DEF Bits
      <4>2. low \subseteq Bits /\ high \subseteq Bits
        BY <1>2, <3>2, <4>1 DEF ShiftLeft, ShiftRight, Bits
      <4> HIDE DEF low, high
      <4>3. [w \in {0, 1} |-> IF w = 0 THEN low ELSE high] \in Bitmaps
        BY <4>2 DEF Bitmaps
      <4> QED
        BY <4>3 DEF ShiftWindow, low, high
    <3> QED
      BY <1>2, <1>4, <2>1, <3>1, <3>2 DEF AcceptFuture
  <2> QED
    BY <2>2, <2>3
<1>5. CASE AcceptSame(p, n, seq, last)
  BY <1>1, <1>2, <1>5 DEF AcceptSame
<1>6. CASE AcceptPast(p, n, seq, last)
  <2>1. lastSeq'[p] = last
    BY <1>1, <1>6 DEF AcceptPast
  <2>2. bitmap'[p] = bitmap[p] \/ (last - seq \in 0..WindowSize - 1 /\ bitmap'[p] = Marking(bitmap[p], last - seq))
    <3> DEFINE diff == last - seq
               unmarked == diff < WindowSize /\ BitOf(diff) \notin bitmap[p][WordOf(diff)]
    <3>1. CASE unmarked
      <4>1. bitmap' = [bitmap EXCEPT ![p][WordOf(diff)] = @ \cup {BitOf(diff)}]
        BY <1>6, <3>1 DEF AcceptPast
      <4>2. bitmap'[p] = Marking(bitmap[p], diff)
        BY <1>1, <4>1 DEF Marking
      <4>3. diff \in 0..WindowSize - 1
        BY <1>2, <1>6, <3>1 DEF AcceptPast
      <4> QED
        BY <4>2, <4>3
    <3>2. CASE ~unmarked
      BY <1>6, <3>2 DEF AcceptPast
    <3> QED
      BY <3>1, <3>2
  <2> QED
    BY <1>1, <1>2, <2>1, <2>2, MarkedBit
<1> QED
  BY <1>3, <1>4, <1>5, <1>6 DEF Accept, seq, last

LEMMA NextTypeOK == TypeOK /\ [Next]_vars => TypeOK'
<1> SUFFICES ASSUME TypeOK, [Next]_vars PROVE TypeOK'
  OBVIOUS
<1>1. ASSUME NEW p \in Peers, NEW n \in FirstFrame..LastFrame, Accept(p, n) PROVE TypeOK'
  BY <1>1, AcceptType, VerdictType DEF TypeOK, Bitmaps
<1>2. ASSUME NEW p \in Peers, Send(p) PROVE TypeOK'
  BY <1>2 DEF Send, TypeOK
<1>3. ASSUME NEW p \in Peers, GrowStale(p) PROVE TypeOK'
  BY <1>3 DEF GrowStale, TypeOK
<1>4. CASE PruneStale
  <2>1. EmptyBitmap \in [{0, 1} -> SUBSET Bits]
    BY DEF EmptyBitmap
  <2> QED
    BY <1>4, <2>1 DEF PruneStale, TypeOK
<1>5. CASE UNCHANGED vars
  BY <1>5 DEF vars, TypeOK
<1> QED
  BY <1>1, <1>2, <1>3, <1>4, <1>5 DEF Next

\* Every variable of replay.go's window keeps its type, whatever arrives.
THEOREM TypeCorrect == Spec => []TypeOK
<1>1. Init => TypeOK
  BY InitWindowInv DEF WindowInv
<1> QED
  BY <1>1, NextTypeOK, PTL DEF Spec

-----------------------------------------------------------------------------
(* The window on a sound channel *)

LEMMA WindowStep == SoundChannel /\ WindowInv /\ [Next]_vars => WindowInv'
<1> SUFFICES ASSUME SoundChannel, WindowInv, [Next]_vars PROVE WindowInv'
  OBVIOUS
<1>1. TypeOK'
  BY NextTypeOK DEF WindowInv
<1>2. /\ TypeOK
      /\ \A p \in tracked : Entry(p)
      /\ \A p \in Peers \ tracked : accepted[p] = {}
      /\ replayed = {}
      /\ \A r \in refused : r[2] >= 2 * SeqSpace
  BY DEF WindowInv, NoReplay, NoFalseRefusal
<1>3. ASSUME NEW p \in Peers, NEW n \in FirstFrame..LastFrame, Accept(p, n) PROVE WindowInv'
  <2>1. /\ tracked' = tracked \cup {p}
        /\ \A q \in Peers \ {p} :
               lastSeq'[q] = lastSeq[q] /\ bitmap'[q] = bitmap[q] /\ accepted'[q] = accepted[q]
    BY <1>2, <1>3, AcceptType
  <2>2. /\ Entry(p)'
        /\ replayed' = replayed
        /\ refused' = refused \/ (refused' = refused \cup {<<p, n>>} /\ n >= 2 * SeqSpace)
    BY <1>3, AcceptRight DEF RightVerdict
  <2>3. ASSUME NEW q \in tracked, q # p PROVE Entry(q)'
    <3>1. Entry(q) /\ q \in Peers \ {p}
      BY <1>2, <2>3 DEF TypeOK
    <3>2. lastSeq'[q] = lastSeq[q] /\ bitmap'[q] = bitmap[q] /\ accepted'[q] = accepted[q]
      BY <2>1, <3>1
    <3> QED
      BY <3>1, <3>2 DEF Entry, Newest
  <2>4. \A q \in tracked' : Entry(q)'
    BY <2>1, <2>2, <2>3
  <2>5. \A q \in Peers \ tracked' : accepted'[q] = {}
    BY <1>2, <2>1
  <2>6. NoReplay' /\ NoFalseRefusal'
    BY <1>2, <2>2 DEF NoReplay, NoFalseRefusal
  <2> QED
    BY <1>1, <2>4, <2>5, <2>6 DEF WindowInv
<1>4. ASSUME UNCHANGED <<tracked, lastSeq, bitmap, accepted, replayed, refused>> PROVE WindowInv'
  BY <1>1, <1>2, <1>4 DEF WindowInv, Entry, Newest, NoReplay, NoFalseRefusal
<1>5. CASE PruneStale
  <2>1. /\ tracked' = tracked \ stale /\ UNCHANGED <<replayed, refused>>
        /\ \A q \in Peers \ stale :
               lastSeq'[q] = lastSeq[q] /\ bitmap'[q] = bitmap[q] /\ accepted'[q] = accepted[q]
        /\ \A q \in Peers \cap stale : accepted'[q] = {}
    BY <1>5 DEF PruneStale
  <2>2. ASSUME NEW q \in tracked' PROVE Entry(q)'
    <3>1. Entry(q) /\ q \in Peers \ stale
      BY <1>2, <2>1 DEF TypeOK
    <3>2. lastSeq'[q] = lastSeq[q] /\ bitmap'[q] = bitmap[q] /\ accepted'[q] = accepted[q]
      BY <2>1, <3>1
    <3> QED
      BY <3>1, <3>2 DEF Entry, Newest
  <2>3. \A q \in Peers \ tracked' : accepted'[q] = {}
    BY <1>2, <2>1
  <2>4. NoReplay' /\ NoFalseRefusal'
    BY <1>2, <2>1 DEF NoReplay, NoFalseRefusal
  <2> QED
    BY <1>1, <2>2, <2>3, <2>4 DEF WindowInv
<1> QED
  BY <1>3, <1>4, <1>5 DEF Next, Send, GrowStale, vars

\* The entry describes the history, so the window is the history.
LEMMA EntryIsHistory ==
    ASSUME TypeOK, NEW p \in tracked, Entry(p)
    PROVE  /\ lastSeq[p] % SeqSpace = Newest(p) % SeqSpace
           /\ Marked(p) = {k \in 0..(WindowSize - 1) : Newest(p) - k \in accepted[p]}
<1> DEFINE top == Newest(p)
<1>1. /\ bitmap[p] \in Bitmaps /\ accepted[p] \in SUBSET Nat
      /\ Describes(top, accepted[p], lastSeq[p], bitmap[p])
  BY DEF TypeOK, Bitmaps, Entry
<1> HIDE DEF top
<1>2. top \in Nat /\ StandsFor(lastSeq[p], top)
      /\ \A k \in 0..WindowSize - 1 : k \in Marks(bitmap[p]) <=> top - k \in accepted[p]
  BY <1>1 DEF Describes
<1>3. lastSeq[p] % SeqSpace = top % SeqSpace
  <2> DEFINE x == top % SeqSpace
  <2>1. x \in 0..SeqSpace - 1 /\ SeqSpace \in Nat /\ SeqSpace > 0
    BY <1>2, Remainder, ReplayAssumption
  <2> HIDE DEF x
  <2>2. x % SeqSpace = x
    BY <2>1
  <2>3. (x + SeqSpace) % SeqSpace = x
    BY <2>1
  <2> QED
    BY <1>2, <2>2, <2>3 DEF StandsFor, x
<1>4. Marked(p) = Marks(bitmap[p])
  BY DEF Marked, Marks
<1>5. Marks(bitmap[p]) \subseteq 0..WindowSize - 1
  BY <1>1, BitmapFacts
<1> QED
  BY <1>2, <1>3, <1>4, <1>5 DEF top

LEMMA Invariant ==
    ASSUME SoundChannel
    PROVE  Spec => []WindowInv
<1>1. WindowInv /\ [Next]_vars => WindowInv'
  BY WindowStep
<1> QED
  BY <1>1, InitWindowInv, PTL DEF Spec

\* No frame is accepted twice by the entry of its peer, across any number of
\* wraps, on a sound channel.
THEOREM NeverReplayed ==
    ASSUME SoundChannel
    PROVE  Spec => []NoReplay
<1>1. WindowInv => NoReplay
  BY DEF WindowInv
<1>2. Spec => []WindowInv
  BY Invariant
<1> QED
  BY <1>1, <1>2, PTL

\* A fresh frame of the window is refused only after the second wrap, where the
\* number kept in lastSeq is a sequence space ahead.
THEOREM NeverWronglyRefused ==
    ASSUME SoundChannel
    PROVE  Spec => []NoFalseRefusal
<1>1. WindowInv => NoFalseRefusal
  BY DEF WindowInv
<1>2. Spec => []WindowInv
  BY Invariant
<1> QED
  BY <1>1, <1>2, PTL

\* The number and the bits that replay.go keeps are the accepted frames of the
\* window, no more and no less.
THEOREM WindowDescribesHistory ==
    ASSUME SoundChannel
    PROVE  Spec => []WindowIsHistory
<1>1. WindowInv => WindowIsHistory
  BY EntryIsHistory DEF WindowInv, WindowIsHistory
<1>2. Spec => []WindowInv
  BY Invariant
<1> QED
  BY <1>1, <1>2, PTL

\* The receiver takes what the filter takes: a wrapped number and two words of
\* bits do the work of all the numbers without their wraps.
THEOREM TakesAsFilter ==
    ASSUME SoundChannel
    PROVE  Spec => ImplementsFilter
<1>1. Init => Filter!Init
  BY DEF Init, Filter!Init
<1>2. WindowInv /\ [Next]_vars => [Filter!Next]_accepted
  <2> SUFFICES ASSUME WindowInv, [Next]_vars PROVE [Filter!Next]_accepted
    OBVIOUS
  <2>1. ASSUME NEW p \in Peers, NEW n \in FirstFrame..LastFrame, Accept(p, n)
        PROVE  [Filter!Next]_accepted
    BY <2>1, AcceptRight DEF RightVerdict, Filter!Next
  <2>2. CASE PruneStale
    <3>1. stale \in SUBSET Peers
      BY DEF WindowInv, TypeOK
    <3> QED
      BY <2>2, <3>1 DEF PruneStale, Filter!Forget, Filter!Next
  <2>3. ASSUME UNCHANGED accepted PROVE [Filter!Next]_accepted
    BY <2>3
  <2> QED
    BY <2>1, <2>2, <2>3 DEF Next, Send, GrowStale, vars
<1>3. Spec => []WindowInv
  BY Invariant
<1> QED
  BY <1>1, <1>2, <1>3, PTL DEF Spec, ImplementsFilter, Filter!Spec

=============================================================================
