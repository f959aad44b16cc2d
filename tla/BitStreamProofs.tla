-------------------------- MODULE BitStreamProofs --------------------------
(***************************************************************************)
(* Theorems about BitStream, for bytes and words of any width, a buffer of *)
(* any size and any fields: _copy_bits copies the bits between two         *)
(* positions and disturbs no other, whatever the alignments, and so a      *)
(* packet is read back field by field as it was written, or with an error. *)
(***************************************************************************)
EXTENDS BitStream, FiniteSetTheorems, TLAPS

-----------------------------------------------------------------------------
(* Induction on the turns of a loop, with a set in place of a predicate. *)

\* A set that has 0 and is closed under successor has every natural number: were n
\* not in it, adding 1 would be an injection of its part below n into itself that
\* misses 0.
LEMMA SetInduction ==
    ASSUME NEW S, 0 \in S, \A m \in Nat : m \in S => m + 1 \in S
    PROVE  \A m \in Nat : m \in S
<1> SUFFICES ASSUME NEW n \in Nat, n \notin S PROVE FALSE
  OBVIOUS
<1> DEFINE A == {k \in 0 .. n : k \in S}
           f == [k \in A |-> k + 1]
<1>1. IsFiniteSet(A)
  <2>1. IsFiniteSet(0 .. n)
    BY FS_Interval
  <2> QED
    BY <2>1, FS_Subset
<1>2. f \in [A -> A]
  OBVIOUS
<1>3. f \in Injection(A, A)
  BY <1>2, SMT DEF Injection, IsInjective
<1>4. 0 \in A /\ \A k \in A : f[k] # 0
  OBVIOUS
<1>5. f \in Surjection(A, A)
  <2> HIDE DEF f, A
  <2> QED
    BY <1>1, <1>3, FS_Injection
<1>6. \E k \in A : f[k] = 0
  <2> HIDE DEF f, A
  <2> QED
    BY <1>4, <1>5 DEF Surjection
<1> QED
  BY <1>4, <1>6

\* The states of a loop of N turns, from s, over states of T: F gives the next state
\* from the number of the turn and the state before it.
IsHistory(g, N, T, s, F) ==
    /\ g \in [0 .. N -> T]
    /\ g = [i \in 0 .. N |-> IF i = 0 THEN s ELSE F[<<i, g[i - 1]>>]]

\* Every such loop has a history.
LEMMA LoopHistory ==
    ASSUME NEW N \in Nat, NEW T, NEW s \in T, NEW F \in [(1 .. N) \X T -> T]
    PROVE  \E g : IsHistory(g, N, T, s, F)
<1> DEFINE Hist(n, g) == /\ g \in [0 .. n -> T]
                         /\ g[0] = s
                         /\ \A i \in 1 .. n : g[i] = F[<<i, g[i - 1]>>]
           S == {n \in Nat : n <= N => \E g : Hist(n, g)}
<1>1. 0 \in S
  <2>1. Hist(0, [i \in 0 .. 0 |-> s])
    OBVIOUS
  <2> QED
    BY <2>1
<1>2. ASSUME NEW n \in Nat, n \in S PROVE n + 1 \in S
  <2> SUFFICES ASSUME n + 1 <= N PROVE \E g : Hist(n + 1, g)
    OBVIOUS
  <2>1. PICK g : Hist(n, g)
    BY <1>2
  <2> DEFINE x == F[<<n + 1, g[n]>>]
             h == [i \in 0 .. n + 1 |-> IF i = n + 1 THEN x ELSE g[i]]
  <2>2. g[n] \in T
    BY <2>1
  <2>3. x \in T
    BY <2>2
  <2>4. h \in [0 .. n + 1 -> T]
    <3> HIDE DEF x
    <3> QED
      BY <2>1, <2>3
  <2>5. h[0] = s
    BY <2>1
  <2>6. ASSUME NEW i \in 1 .. n + 1 PROVE h[i] = F[<<i, h[i - 1]>>]
    <3>1. CASE i = n + 1
      <4>1. h[i] = x /\ h[i - 1] = g[n] /\ i - 1 = n
        BY <3>1
      <4> QED
        BY <4>1, <3>1
    <3>2. CASE i # n + 1
      <4>1. h[i] = g[i] /\ h[i - 1] = g[i - 1] /\ i \in 1 .. n
        BY <3>2
      <4>2. g[i] = F[<<i, g[i - 1]>>]
        BY <4>1, <2>1
      <4> QED
        BY <4>1, <4>2
    <3> QED
      BY <3>1, <3>2
  <2> HIDE DEF h
  <2> QED
    BY <2>4, <2>5, <2>6
<1>3. N \in S
  <2> HIDE DEF S
  <2> QED
    BY <1>1, <1>2, SetInduction
<1>4. PICK g : Hist(N, g)
  BY <1>3
<1>5. g = [i \in 0 .. N |-> IF i = 0 THEN s ELSE F[<<i, g[i - 1]>>]]
  <2>1. g = [i \in 0 .. N |-> g[i]]
    BY <1>4
  <2>2. \A i \in 0 .. N : g[i] = IF i = 0 THEN s ELSE F[<<i, g[i - 1]>>]
    BY <1>4
  <2> QED
    BY <2>1, <2>2
<1> QED
  BY <1>4, <1>5 DEF IsHistory

-----------------------------------------------------------------------------
(* Bytes and bits: a position is a byte and a bit in it. *)

LEMMA WidthPositive == ByteBits \in Nat \ {0} /\ IntBytes \in Nat \ {0} /\ WordBits \in Nat
<1>1. ByteBits \in Nat \ {0} /\ IntBytes \in Nat \ {0}
  BY StreamAssumption
<1> QED
  BY <1>1 DEF WordBits

LEMMA Product ==
    ASSUME NEW B \in Nat \ {0}, NEW a \in Nat, NEW b \in Nat
    PROVE  /\ a * B \in Nat /\ (a + b) * B = a * B + b * B
           /\ a < b => a * B + B <= b * B
<1>1. a * B \in Nat /\ (a + b) * B = a * B + b * B
  OBVIOUS
<1>2. a < b => a * B + B <= b * B
  OBVIOUS
<1> QED
  BY <1>1, <1>2

LEMMA Coordinates ==
    ASSUME NEW B \in Nat \ {0}, NEW q \in Nat, NEW r \in 0 .. B - 1
    PROVE  (q * B + r) \div B = q /\ (q * B + r) % B = r
<1>1. (q * B + r) \div B = q
  OBVIOUS
<1>2. (q * B + r) % B = r
  OBVIOUS
<1> QED
  BY <1>1, <1>2

LEMMA Position ==
    ASSUME NEW B \in Nat \ {0}, NEW i \in Nat
    PROVE  i \div B \in Nat /\ i % B \in 0 .. B - 1 /\ i = (i \div B) * B + (i % B)
<1>1. i \div B \in Nat
  OBVIOUS
<1>2. i % B \in 0 .. B - 1
  OBVIOUS
<1>3. i = (i \div B) * B + (i % B)
  OBVIOUS
<1> QED
  BY <1>1, <1>2, <1>3

-----------------------------------------------------------------------------
(* The sliding word. *)

LEMMA Shifts ==
    ASSUME NEW x \in SUBSET Nat, NEW k \in Nat, NEW i \in Nat
    PROVE  /\ i \in Up(x, k) <=> k <= i /\ i - k \in x
           /\ i \in Down(x, k) <=> i + k \in x
<1>1. i \in Up(x, k) <=> k <= i /\ i - k \in x
  BY DEF Up
<1>2. i \in Down(x, k) <=> i + k \in x
  BY DEF Down
<1> QED
  BY <1>1, <1>2

LEMMA ShiftTypes ==
    ASSUME NEW x \in SUBSET Nat, NEW k \in Nat
    PROVE  Up(x, k) \in SUBSET Nat /\ Down(x, k) \in SUBSET Nat
<1>1. Up(x, k) \in SUBSET Nat
  BY DEF Up
<1>2. Down(x, k) \in SUBSET Nat
  BY DEF Down
<1> QED
  BY <1>1, <1>2

\* Bit r of the byte that turn e of the loop writes: the bits that waited in the slider,
\* below up_shift, and above them those of the next byte of the source.
Slid(slider, source, s, up_shift, e, r) ==
    IF up_shift <= r THEN r - up_shift \in source[s + e]
    ELSE IF e = 0 THEN r \in slider
    ELSE r + (ByteBits - up_shift) \in source[(s + e) - 1]

LEMMA LastByteOK ==
    ASSUME NEW D \in Nat, NEW dest \in Memory(D), NEW d \in 0 .. D - 1, NEW slider \in SUBSET Nat,
           NEW last_bit \in 0 .. ByteBits - 1
    PROVE  /\ LastByte(dest, d, slider, last_bit) \in Memory(D)
           /\ \A q \in 0 .. D - 1, r \in 0 .. ByteBits - 1 :
                 r \in LastByte(dest, d, slider, last_bit)[q]
                     <=> IF q = d /\ r <= last_bit THEN r \in slider ELSE r \in dest[q]
<1> DEFINE new == (slider \cap Mask(last_bit + 1)) \cup (dest[d] \cap NotByte(Mask(last_bit + 1)))
           u == LastByte(dest, d, slider, last_bit)
<1>0. ByteBits \in Nat \ {0}
  BY WidthPositive
<1>1. dest[d] \subseteq 0 .. ByteBits - 1
  BY DEF Memory, Byte
<1>2. /\ new \in Byte
      /\ \A r \in 0 .. ByteBits - 1 : r \in new <=> IF r <= last_bit THEN r \in slider ELSE r \in dest[d]
  BY <1>0, <1>1 DEF Mask, NotByte, Byte
<1>3. u = [dest EXCEPT ![d] = new]
  BY DEF LastByte
<1> HIDE DEF new, u
<1>4. u \in Memory(D)
  BY <1>2, <1>3 DEF Memory
<1>5. \A q \in 0 .. D - 1 : u[q] = IF q = d THEN new ELSE dest[q]
  BY <1>3 DEF Memory
<1>6. \A q \in 0 .. D - 1, r \in 0 .. ByteBits - 1 :
         r \in u[q] <=> IF q = d /\ r <= last_bit THEN r \in slider ELSE r \in dest[q]
  BY <1>2, <1>5
<1> QED
  BY <1>4, <1>6 DEF u

\* What the loop has written after i turns, and what waits in the slider.
SlideInv(t, i, D, dest, d, source, s, slider, up_shift) ==
    /\ t.dest \in Memory(D) /\ t.slider \in SUBSET (0 .. up_shift - 1)
    /\ \A q \in 0 .. D - 1, r \in 0 .. ByteBits - 1 :
          r \in t.dest[q] <=> IF d <= q /\ q < d + i
                              THEN Slid(slider, source, s, up_shift, q - d, r)
                              ELSE r \in dest[q]
    /\ \A r \in 0 .. up_shift - 1 :
          r \in t.slider <=> Slid(slider, source, s, up_shift, i, r)

SlideState(D) == [dest : Memory(D), slider : SUBSET Nat]

SlideStep(t, i, d, source, s, up_shift) ==
    LET full == t.slider \cup Up(source[s + i - 1], up_shift)
    IN  [dest |-> [t.dest EXCEPT ![d + i - 1] = uint8(full)], slider |-> Down(full, ByteBits)]

LEMMA SlideStepType ==
    ASSUME NEW D \in Nat, NEW t \in SlideState(D), NEW i, NEW d, NEW source, NEW s,
           NEW up_shift \in Nat, source[s + i - 1] \in Byte
    PROVE  SlideStep(t, i, d, source, s, up_shift) \in SlideState(D)
<1> DEFINE x == source[s + i - 1]
           full == t.slider \cup Up(x, up_shift)
<1>0. ByteBits \in Nat \ {0}
  BY WidthPositive
<1>1. x \in SUBSET Nat
  BY <1>0 DEF Byte
<1> HIDE DEF x
<1>2. Up(x, up_shift) \subseteq Nat
  BY <1>1 DEF Up
<1>3. t.slider \in SUBSET Nat /\ t.dest \in Memory(D)
  BY DEF SlideState
<1>4. full \in SUBSET Nat
  BY <1>2, <1>3
<1>5. SlideStep(t, i, d, source, s, up_shift)
        = [dest |-> [t.dest EXCEPT ![d + i - 1] = uint8(full)], slider |-> Down(full, ByteBits)]
  BY DEF SlideStep, x
<1> HIDE DEF full
<1>6. uint8(full) \in Byte /\ Down(full, ByteBits) \in SUBSET Nat
  BY <1>0, <1>4 DEF uint8, Mask, Byte, Down
<1>7. [t.dest EXCEPT ![d + i - 1] = uint8(full)] \in Memory(D)
  BY <1>3, <1>6 DEF Memory
<1> QED
  BY <1>5, <1>6, <1>7 DEF SlideState

LEMMA SlideNext ==
    ASSUME NEW D \in Nat, NEW dest, NEW d \in Nat, NEW source, NEW s \in Nat, NEW slider,
           NEW up_shift \in 1 .. ByteBits - 1, NEW i \in Nat, 0 < i, d + i <= D,
           source[s + i - 1] \in Byte,
           NEW t, SlideInv(t, i - 1, D, dest, d, source, s, slider, up_shift)
    PROVE  SlideInv(SlideStep(t, i, d, source, s, up_shift), i, D, dest, d, source, s, slider,
                    up_shift)
<1> DEFINE x == source[s + i - 1]
           full == t.slider \cup Up(x, up_shift)
           u == SlideStep(t, i, d, source, s, up_shift)
<1>0. ByteBits \in Nat \ {0} /\ up_shift \in Nat
  BY WidthPositive
<1>1. x \in SUBSET (0 .. ByteBits - 1) /\ x \in SUBSET Nat
  BY <1>0 DEF Byte
<1>2. x = source[(s + i) - 1] /\ x = source[s + (i - 1)]
  <2>1. s + i - 1 = s + (i - 1)
    OBVIOUS
  <2> QED
    BY <2>1
<1>3. u.dest = [t.dest EXCEPT ![d + i - 1] = uint8(full)] /\ u.slider = Down(full, ByteBits)
  BY DEF SlideStep
<1> HIDE DEF x, u
<1>4. t.dest \in Memory(D) /\ t.slider \in SUBSET (0 .. up_shift - 1)
  BY DEF SlideInv
<1>5. \A r \in Nat : r \in full <=> r \in t.slider \/ (up_shift <= r /\ r - up_shift \in x)
  BY <1>0, <1>1, Shifts
<1>6. full \in SUBSET Nat
  <2>1. Up(x, up_shift) \in SUBSET Nat
    BY <1>0, <1>1, ShiftTypes
  <2> QED
    BY <2>1, <1>0, <1>4
<1> HIDE DEF full
<1>7. uint8(full) \in Byte
  BY <1>0 DEF uint8, Mask, Byte
<1>8. u.dest \in Memory(D)
  BY <1>3, <1>4, <1>7 DEF Memory
<1>9. \A r \in 0 .. ByteBits - 1 :
         r \in uint8(full) <=> Slid(slider, source, s, up_shift, i - 1, r)
  <2> TAKE r \in 0 .. ByteBits - 1
  <2>1. r \in uint8(full) <=> r \in full
    BY <1>0 DEF uint8, Mask
  <2>2. r \in Nat
    BY <1>0
  <2>3. CASE up_shift <= r
    <3>1. r \in full <=> r - up_shift \in x
      BY <1>4, <1>5, <2>2, <2>3, <1>0
    <3> QED
      BY <2>1, <2>3, <3>1, <1>2 DEF Slid
  <2>4. CASE ~(up_shift <= r)
    <3>1. r \in full <=> r \in t.slider
      BY <1>5, <2>2, <2>4
    <3>2. r \in 0 .. up_shift - 1
      BY <2>2, <2>4, <1>0
    <3>3. r \in t.slider <=> Slid(slider, source, s, up_shift, i - 1, r)
      BY <3>2 DEF SlideInv
    <3> QED
      BY <2>1, <3>1, <3>3
  <2> QED
    BY <2>3, <2>4
<1>10. \A r \in Nat : r \in u.slider <=> (r + ByteBits) - up_shift \in x
  <2> TAKE r \in Nat
  <2>1. r \in u.slider <=> r + ByteBits \in full
    <3>1. r \in Down(full, ByteBits) <=> r + ByteBits \in full
      BY <1>0, <1>6, Shifts
    <3> QED
      BY <3>1, <1>3
  <2>2. r + ByteBits \in Nat /\ up_shift <= r + ByteBits /\ r + ByteBits \notin t.slider
    BY <1>0, <1>4
  <2> QED
    BY <1>5, <2>1, <2>2
<1>11. u.slider \in SUBSET (0 .. up_shift - 1)
  <2>1. u.slider \subseteq Nat
    <3>1. Down(full, ByteBits) \in SUBSET Nat
      BY <1>0, <1>6, ShiftTypes
    <3> QED
      BY <3>1, <1>3
  <2> QED
    BY <2>1, <1>0, <1>1, <1>10
<1>12. \A r \in 0 .. up_shift - 1 : r \in u.slider <=> Slid(slider, source, s, up_shift, i, r)
  <2> TAKE r \in 0 .. up_shift - 1
  <2>1. Slid(slider, source, s, up_shift, i, r) <=> r + (ByteBits - up_shift) \in x
    BY <1>0, <1>2 DEF Slid
  <2>2. r + (ByteBits - up_shift) = (r + ByteBits) - up_shift /\ r \in Nat
    BY <1>0
  <2> QED
    BY <1>10, <2>1, <2>2
<1>13. \A q \in 0 .. D - 1, r \in 0 .. ByteBits - 1 :
          r \in u.dest[q] <=> IF d <= q /\ q < d + i
                              THEN Slid(slider, source, s, up_shift, q - d, r)
                              ELSE r \in dest[q]
  <2> TAKE q \in 0 .. D - 1, r \in 0 .. ByteBits - 1
  <2>0. r \in t.dest[q] <=> IF d <= q /\ q < d + (i - 1)
                            THEN Slid(slider, source, s, up_shift, q - d, r)
                            ELSE r \in dest[q]
    BY DEF SlideInv
  <2>1. CASE q = d + i - 1
    <3>1. u.dest[q] = uint8(full)
      BY <1>3, <1>4, <2>1 DEF Memory
    <3>2. q - d = i - 1 /\ d <= q /\ q < d + i
      BY <2>1
    <3> QED
      BY <3>1, <3>2, <1>9
  <2>2. CASE q # d + i - 1
    <3>1. u.dest[q] = t.dest[q]
      BY <1>3, <1>4, <2>2 DEF Memory
    <3>2. (d <= q /\ q < d + i) <=> (d <= q /\ q < d + (i - 1))
      BY <2>2
    <3> QED
      BY <3>1, <3>2, <2>0
  <2> QED
    BY <2>1, <2>2
<1>14. SlideInv(u, i, D, dest, d, source, s, slider, up_shift)
  BY <1>8, <1>11, <1>12, <1>13 DEF SlideInv
<1> QED
  BY <1>14 DEF u

\* out is dest with the source shifted up by up_shift in the bytes from d on, after the
\* slider's bits, as far as the last bit of the last byte, and nothing else changed.
SlidInto(out, D, dest, d, source, s, slider, up_shift, n, last_bit) ==
    /\ out \in Memory(D)
    /\ \A q \in 0 .. D - 1, r \in 0 .. ByteBits - 1 :
          r \in out[q] <=> IF d <= q /\ (q < d + n \/ (q = d + n /\ r <= last_bit))
                           THEN Slid(slider, source, s, up_shift, q - d, r)
                           ELSE r \in dest[q]

LEMMA CopySlidingOK ==
    ASSUME NEW D \in Nat, NEW dest \in Memory(D), NEW d \in Nat, NEW source, NEW s \in Nat,
           NEW up_shift \in 1 .. ByteBits - 1, NEW slider \in SUBSET (0 .. up_shift - 1),
           NEW n \in Nat, d + n < D, NEW last_bit \in 0 .. ByteBits - 1,
           \A i \in 0 .. n - 1 : source[s + i] \in Byte,
           up_shift <= last_bit => source[s + n] \in Byte
    PROVE  SlidInto(CopySliding(dest, d, source, s, slider, up_shift, n, last_bit), D, dest, d,
                    source, s, slider, up_shift, n, last_bit)
<1> DEFINE turn == CHOOSE g : g = [i \in 0 .. n |->
                     IF i = 0 THEN [dest |-> dest, slider |-> slider]
                     ELSE LET full == g[i - 1].slider \cup Up(source[s + i - 1], up_shift)
                          IN  [dest |-> [g[i - 1].dest EXCEPT ![d + i - 1] = uint8(full)],
                               slider |-> Down(full, ByteBits)]]
           Inv(t, i) == SlideInv(t, i, D, dest, d, source, s, slider, up_shift)
           F == [p \in (1 .. n) \X SlideState(D) |->
                    SlideStep(p[2], p[1], d, source, s, up_shift)]
           start == [dest |-> dest, slider |-> slider]
           rest == IF last_bit >= up_shift THEN turn[n].slider \cup Up(source[s + n], up_shift)
                   ELSE turn[n].slider
           out == CopySliding(dest, d, source, s, slider, up_shift, n, last_bit)
<1>0. ByteBits \in Nat \ {0} /\ up_shift \in Nat
  BY WidthPositive
<1>1. \A i \in 1 .. n : source[s + i - 1] \in Byte
  <2> TAKE i \in 1 .. n
  <2>1. i - 1 \in 0 .. n - 1 /\ s + i - 1 = s + (i - 1)
    OBVIOUS
  <2> QED
    BY <2>1
<1>2. F \in [(1 .. n) \X SlideState(D) -> SlideState(D)]
  <2>1. \A i \in 1 .. n, t \in SlideState(D) :
            SlideStep(t, i, d, source, s, up_shift) \in SlideState(D)
    BY <1>0, <1>1, SlideStepType
  <2> QED
    BY <2>1
<1>3. start \in SlideState(D)
  BY <1>0 DEF SlideState
<1>4. \E g : IsHistory(g, n, SlideState(D), start, F)
  <2> HIDE DEF F, start
  <2> QED
    BY <1>2, <1>3, LoopHistory
<1>5. PICK g : IsHistory(g, n, SlideState(D), start, F)
  BY <1>4
<1>6. g = [i \in 0 .. n |->
              IF i = 0 THEN [dest |-> dest, slider |-> slider]
              ELSE LET full == g[i - 1].slider \cup Up(source[s + i - 1], up_shift)
                   IN  [dest |-> [g[i - 1].dest EXCEPT ![d + i - 1] = uint8(full)],
                        slider |-> Down(full, ByteBits)]]
  <2>1. g \in [0 .. n -> SlideState(D)]
    BY <1>5 DEF IsHistory
  <2>2. g = [i \in 0 .. n |-> IF i = 0 THEN start ELSE F[<<i, g[i - 1]>>]]
    BY <1>5 DEF IsHistory
  <2>3. \A i \in 1 .. n : F[<<i, g[i - 1]>>] = SlideStep(g[i - 1], i, d, source, s, up_shift)
    <3> TAKE i \in 1 .. n
    <3>1. g[i - 1] \in SlideState(D)
      BY <2>1
    <3> QED
      BY <3>1
  <2> HIDE DEF F
  <2>4. \A i \in 0 .. n : (IF i = 0 THEN start ELSE F[<<i, g[i - 1]>>])
                        = (IF i = 0 THEN start ELSE SlideStep(g[i - 1], i, d, source, s, up_shift))
    BY <2>3
  <2>5. g = [i \in 0 .. n |->
                IF i = 0 THEN start ELSE SlideStep(g[i - 1], i, d, source, s, up_shift)]
    BY <2>2, <2>4
  <2> QED
    BY <2>5 DEF SlideStep
<1>7. turn = [i \in 0 .. n |->
              IF i = 0 THEN [dest |-> dest, slider |-> slider]
              ELSE LET full == turn[i - 1].slider \cup Up(source[s + i - 1], up_shift)
                   IN  [dest |-> [turn[i - 1].dest EXCEPT ![d + i - 1] = uint8(full)],
                        slider |-> Down(full, ByteBits)]]
  BY <1>6
<1>8. out = LastByte(turn[n].dest, d + n, rest, last_bit)
  BY DEF CopySliding
<1> HIDE DEF turn
<1>9. turn[0] = start
  BY <1>7
<1>10. \A i \in 1 .. n : turn[i] = SlideStep(turn[i - 1], i, d, source, s, up_shift)
  <2>1. \A i \in 1 .. n : i \in 0 .. n /\ i # 0
    OBVIOUS
  <2>2. turn = [i \in 0 .. n |->
                IF i = 0 THEN start ELSE SlideStep(turn[i - 1], i, d, source, s, up_shift)]
    BY <1>7 DEF SlideStep
  <2> QED
    BY <2>1, <2>2
<1>11. Inv(turn[0], 0)
  <2>1. turn[0].dest = dest /\ turn[0].slider = slider
    BY <1>9
  <2>2. \A r \in 0 .. up_shift - 1 : r \in slider <=> Slid(slider, source, s, up_shift, 0, r)
    BY <1>0 DEF Slid
  <2>3. \A q \in 0 .. D - 1 : ~(d <= q /\ q < d + 0)
    OBVIOUS
  <2> QED
    BY <2>1, <2>2, <2>3 DEF SlideInv
<1>12. Inv(turn[n], n)
  <2> DEFINE S == {i \in Nat : i <= n => Inv(turn[i], i)}
  <2>1. 0 \in S
    BY <1>11
  <2>2. ASSUME NEW i \in Nat, i \in S PROVE i + 1 \in S
    <3> SUFFICES ASSUME i + 1 <= n PROVE Inv(turn[i + 1], i + 1)
      OBVIOUS
    <3>1. Inv(turn[(i + 1) - 1], (i + 1) - 1)
      BY <2>2
    <3>2. turn[i + 1] = SlideStep(turn[(i + 1) - 1], i + 1, d, source, s, up_shift)
      BY <1>10
    <3>3. source[s + (i + 1) - 1] \in Byte
      BY <1>1
    <3>4. i + 1 \in Nat /\ 0 < i + 1 /\ d + (i + 1) <= D
      OBVIOUS
    <3> QED
      BY <3>1, <3>2, <3>3, <3>4, SlideNext
  <2> HIDE DEF S
  <2>3. n \in S
    BY <2>1, <2>2, SetInduction
  <2> QED
    BY <2>3 DEF S
<1>13. turn[n].dest \in Memory(D) /\ turn[n].slider \in SUBSET (0 .. up_shift - 1)
  BY <1>12 DEF SlideInv
<1>14. rest \in SUBSET Nat
  BY <1>0, <1>13 DEF Byte, Up
<1>15. \A r \in 0 .. last_bit : r \in rest <=> Slid(slider, source, s, up_shift, n, r)
  <2> TAKE r \in 0 .. last_bit
  <2>1. CASE up_shift <= r
    <3>1. rest = turn[n].slider \cup Up(source[s + n], up_shift)
      BY <1>0, <2>1
    <3>2. r \notin turn[n].slider /\ r \in Nat
      BY <1>0, <1>13, <2>1
    <3>3. source[s + n] \in SUBSET Nat
      BY <1>0, <2>1 DEF Byte
    <3>4. r \in Up(source[s + n], up_shift) <=> r - up_shift \in source[s + n]
      BY <1>0, <2>1, <3>2, <3>3, Shifts
    <3> QED
      BY <2>1, <3>1, <3>2, <3>4 DEF Slid
  <2>2. CASE ~(up_shift <= r)
    <3>1. r \in 0 .. up_shift - 1
      BY <1>0, <2>2
    <3>2. r \in turn[n].slider <=> Slid(slider, source, s, up_shift, n, r)
      BY <1>12, <3>1 DEF SlideInv
    <3>3. r \notin Up(source[s + n], up_shift) \/ ~(last_bit >= up_shift)
      <4>1. last_bit >= up_shift => source[s + n] \in SUBSET Nat
        BY <1>0 DEF Byte
      <4>2. r \in Nat /\ ~(up_shift <= r)
        BY <1>0, <3>1
      <4> QED
        BY <4>1, <4>2, <1>0, Shifts
    <3> QED
      BY <3>2, <3>3
  <2> QED
    BY <2>1, <2>2
<1> HIDE DEF rest
<1>16. d + n \in 0 .. D - 1
  OBVIOUS
<1>17. out \in Memory(D)
  BY <1>8, <1>13, <1>14, <1>16, LastByteOK
<1>18. \A q \in 0 .. D - 1, r \in 0 .. ByteBits - 1 :
          r \in out[q] <=> IF q = d + n /\ r <= last_bit THEN r \in rest ELSE r \in turn[n].dest[q]
  BY <1>8, <1>13, <1>14, <1>16, LastByteOK
<1>19. \A q \in 0 .. D - 1, r \in 0 .. ByteBits - 1 :
          r \in turn[n].dest[q] <=> IF d <= q /\ q < d + n
                              THEN Slid(slider, source, s, up_shift, q - d, r)
                              ELSE r \in dest[q]
  BY <1>12 DEF SlideInv
<1> HIDE DEF out
<1>20. \A q \in 0 .. D - 1, r \in 0 .. ByteBits - 1 :
          r \in out[q] <=> IF d <= q /\ (q < d + n \/ (q = d + n /\ r <= last_bit))
                         THEN Slid(slider, source, s, up_shift, q - d, r)
                         ELSE r \in dest[q]
  <2> TAKE q \in 0 .. D - 1, r \in 0 .. ByteBits - 1
  <2>1. CASE q = d + n /\ r <= last_bit
    <3>1. r \in 0 .. last_bit /\ q - d = n
      BY <2>1, <1>0
    <3> QED
      BY <2>1, <3>1, <1>15, <1>18
  <2>2. CASE ~(q = d + n /\ r <= last_bit)
    <3>1. r \in out[q] <=> r \in turn[n].dest[q]
      BY <2>2, <1>18
    <3>2. (d <= q /\ (q < d + n \/ (q = d + n /\ r <= last_bit))) <=> (d <= q /\ q < d + n)
      BY <2>2
    <3>3. r \in turn[n].dest[q] <=> IF d <= q /\ q < d + n
                                    THEN Slid(slider, source, s, up_shift, q - d, r)
                                    ELSE r \in dest[q]
      BY <1>19
    <3> QED
      BY <3>1, <3>2, <3>3
  <2> QED
    BY <2>1, <2>2
<1>21. SlidInto(out, D, dest, d, source, s, slider, up_shift, n, last_bit)
  BY <1>17, <1>20 DEF SlidInto
<1> QED
  BY <1>21 DEF out

-----------------------------------------------------------------------------
(* The copies, byte by byte. *)

\* Is bit r of byte q between bit db of byte d and the last bit of byte d + n?
Between(d, db, n, last_bit, q, r) ==
    /\ d <= q /\ (d < q \/ db <= r)
    /\ q <= d + n /\ (q < d + n \/ r <= last_bit)

\* Bit x counted from the start of byte e, in the byte before or after it too.
SourceBit(source, e, x) ==
    IF x < 0 THEN x + ByteBits \in source[e - 1]
    ELSE IF x < ByteBits THEN x \in source[e]
    ELSE x - ByteBits \in source[e + 1]

\* out is dest with the bits of the source from bit sb of byte s on between those positions.
Copied(out, D, dest, d, db, source, s, sb, n, last_bit) ==
    /\ out \in Memory(D)
    /\ \A q \in 0 .. D - 1, r \in 0 .. ByteBits - 1 :
          r \in out[q] <=> IF Between(d, db, n, last_bit, q, r)
                           THEN SourceBit(source, s + (q - d), r + (sb - db))
                           ELSE r \in dest[q]

LEMMA CopyAlignedOK ==
    ASSUME NEW D \in Nat, NEW dest \in Memory(D), NEW d \in Nat, NEW n \in Nat, d + n < D,
           NEW S \in Nat, NEW source \in Memory(S), NEW s \in Nat, s + n < S,
           NEW bit \in 0 .. ByteBits - 1, NEW last_bit \in 0 .. ByteBits - 1
    PROVE  Copied(CopyAligned(dest, d, source, s, bit, n, last_bit), D, dest, d, bit, source, s,
                  bit, n, last_bit)
<1> DEFINE first == (dest[d] \cap Mask(bit)) \cup (source[s] \cap NotByte(Mask(bit)))
           moved == [i \in DOMAIN dest |->
                       IF i = d /\ n > 0 THEN first
                       ELSE IF i > d /\ i < d + n THEN source[s + (i - d)] ELSE dest[i]]
           slider == IF n = 0 THEN first ELSE source[s + n]
           out == CopyAligned(dest, d, source, s, bit, n, last_bit)
<1>0. ByteBits \in Nat \ {0}
  BY WidthPositive
<1>1. /\ \A q \in 0 .. D - 1 : dest[q] \in SUBSET (0 .. ByteBits - 1)
      /\ \A q \in 0 .. S - 1 : source[q] \in SUBSET (0 .. ByteBits - 1)
      /\ DOMAIN dest = 0 .. D - 1
  BY DEF Memory, Byte
<1>2. d \in 0 .. D - 1 /\ s \in 0 .. S - 1 /\ s + n \in 0 .. S - 1 /\ d + n \in 0 .. D - 1
  OBVIOUS
<1>3. /\ first \in SUBSET (0 .. ByteBits - 1)
      /\ \A r \in 0 .. ByteBits - 1 : r \in first <=> IF bit <= r THEN r \in source[s] ELSE r \in dest[d]
  BY <1>0, <1>1, <1>2 DEF Mask, NotByte
<1>4. out = LastByte(moved, d + n, slider, last_bit)
  BY DEF CopyAligned
<1> HIDE DEF first
<1>5. moved \in Memory(D)
  <2>1. \A i \in 0 .. D - 1 : (i > d /\ i < d + n) => s + (i - d) \in 0 .. S - 1
    OBVIOUS
  <2> QED
    BY <1>1, <1>3, <2>1 DEF Memory, Byte
<1>6. slider \in SUBSET Nat
  BY <1>0, <1>1, <1>2, <1>3
<1>7. \A q \in 0 .. D - 1 : moved[q] = IF q = d /\ n > 0 THEN first
                       ELSE IF q > d /\ q < d + n THEN source[s + (q - d)] ELSE dest[q]
  BY <1>1
<1> HIDE DEF moved, slider
<1>8. out \in Memory(D)
  BY <1>2, <1>4, <1>5, <1>6, LastByteOK
<1>9. \A q \in 0 .. D - 1, r \in 0 .. ByteBits - 1 :
         r \in out[q] <=> IF q = d + n /\ r <= last_bit THEN r \in slider ELSE r \in moved[q]
  BY <1>2, <1>4, <1>5, <1>6, LastByteOK
<1> HIDE DEF out
<1>10. ASSUME NEW q \in 0 .. D - 1, NEW r \in 0 .. ByteBits - 1
       PROVE  r \in out[q] <=> IF Between(d, bit, n, last_bit, q, r)
                               THEN SourceBit(source, s + (q - d), r + (bit - bit))
                               ELSE r \in dest[q]
  <2>1. SourceBit(source, s + (q - d), r + (bit - bit)) <=> r \in source[s + (q - d)]
    <3>1. r + (bit - bit) = r /\ ~(r < 0) /\ r < ByteBits
      BY <1>0
    <3> QED
      BY <3>1 DEF SourceBit
  <2>2. q = d => s + (q - d) = s
    OBVIOUS
  <2>3. q = d + n => s + (q - d) = s + n
    OBVIOUS
  <2>4. CASE q = d + n /\ r <= last_bit
    <3>1. r \in out[q] <=> r \in slider
      BY <1>9, <2>4
    <3>2. Between(d, bit, n, last_bit, q, r) <=> (d < q \/ bit <= r)
      BY <2>4 DEF Between
    <3>3. CASE n = 0
      <4>1. slider = first /\ q = d
        BY <3>3, <2>4 DEF slider
      <4> QED
        BY <1>3, <2>1, <2>2, <3>1, <3>2, <4>1
    <3>4. CASE n # 0
      <4>1. slider = source[s + n] /\ d < q
        BY <3>4, <2>4 DEF slider
      <4> QED
        BY <2>1, <2>3, <2>4, <3>1, <3>2, <4>1
    <3> QED
      BY <3>3, <3>4
  <2>5. CASE ~(q = d + n /\ r <= last_bit)
    <3>1. r \in out[q] <=> r \in moved[q]
      BY <1>9, <2>5
    <3>2. Between(d, bit, n, last_bit, q, r) <=> (d <= q /\ (d < q \/ bit <= r) /\ q < d + n)
      BY <2>5 DEF Between
    <3>3. CASE q = d /\ n > 0
      <4>1. moved[q] = first
        BY <1>7, <3>3
      <4> QED
        BY <1>3, <2>1, <2>2, <3>1, <3>2, <3>3, <4>1
    <3>4. CASE q > d /\ q < d + n
      <4>1. moved[q] = source[s + (q - d)]
        BY <1>7, <3>4
      <4> QED
        BY <2>1, <3>1, <3>2, <3>4, <4>1
    <3>5. CASE ~(q = d /\ n > 0) /\ ~(q > d /\ q < d + n)
      <4>1. moved[q] = dest[q]
        BY <1>7, <3>5
      <4> QED
        BY <3>1, <3>2, <3>5, <4>1
    <3> QED
      BY <3>3, <3>4, <3>5
  <2> QED
    BY <2>4, <2>5
<1>11. Copied(out, D, dest, d, bit, source, s, bit, n, last_bit)
  BY <1>8, <1>10 DEF Copied
<1> QED
  BY <1>11 DEF out

LEMMA CopyUpOK ==
    ASSUME NEW D \in Nat, NEW dest \in Memory(D), NEW d \in Nat, NEW n \in Nat, d + n < D,
           NEW S \in Nat, NEW source \in Memory(S), NEW s \in Nat, s < S, s + n <= S,
           NEW db \in 0 .. ByteBits - 1, NEW sb \in 0 .. ByteBits - 1, sb < db,
           NEW last_bit \in 0 .. ByteBits - 1, db - sb <= last_bit => s + n < S,
           NEW bit_count \in Nat \ {0}, db + bit_count <= ByteBits <=> n = 0,
           n = 0 => last_bit = (db + bit_count) - 1
    PROVE  Copied(CopyUp(dest, d, db, source, s, sb, bit_count, n, last_bit), D, dest, d, db,
                  source, s, sb, n, last_bit)
<1> DEFINE up_shift == db - sb
           shifted == uint8(Up(source[s], up_shift))
           mask == Up(Mask(bit_count), db)
           one == (dest[d] \cap NotByte(mask)) \cup (shifted \cap mask)
           head == (dest[d] \cap Mask(db)) \cup (shifted \cap NotByte(Mask(db)))
           first == [dest EXCEPT ![d] = head]
           slider == Down(source[s], ByteBits - up_shift)
           out == CopyUp(dest, d, db, source, s, sb, bit_count, n, last_bit)
<1>0. /\ ByteBits \in Nat \ {0} /\ up_shift \in 1 .. ByteBits - 1 /\ up_shift <= db /\ up_shift \in Nat
      /\ ByteBits - up_shift \in Nat
  BY WidthPositive
<1>1. /\ \A q \in 0 .. D - 1 : dest[q] \in SUBSET (0 .. ByteBits - 1)
      /\ \A q \in 0 .. S - 1 : source[q] \in SUBSET (0 .. ByteBits - 1)
      /\ \A q \in 0 .. S - 1 : source[q] \in Byte
      /\ DOMAIN dest = 0 .. D - 1
  BY DEF Memory, Byte
<1>2. d \in 0 .. D - 1 /\ s \in 0 .. S - 1
  OBVIOUS
<1>3. out = IF db + bit_count <= ByteBits THEN [dest EXCEPT ![d] = one]
            ELSE CopySliding(first, d + 1, source, s + 1, slider, up_shift, n - 1, last_bit)
  BY DEF CopyUp
<1>4. source[s] \in SUBSET (0 .. ByteBits - 1) /\ source[s] \in SUBSET Nat
      /\ dest[d] \in SUBSET (0 .. ByteBits - 1)
  <2> HIDE DEF up_shift
  <2> QED
    BY <1>1, <1>2
<1> HIDE DEF up_shift
<1>5. \A r \in 0 .. ByteBits - 1 : r \in shifted <=> (up_shift <= r /\ r - up_shift \in source[s])
  <2> TAKE r \in 0 .. ByteBits - 1
  <2>1. r \in Nat
    BY <1>0
  <2>2. r \in Up(source[s], up_shift) <=> (up_shift <= r /\ r - up_shift \in source[s])
    BY <2>1, <1>0, <1>4, Shifts
  <2> QED
    BY <2>2, <1>0 DEF uint8, Mask
<1>6. shifted \in SUBSET (0 .. ByteBits - 1)
  BY <1>0 DEF uint8, Mask
<1>7. \A r \in 0 .. ByteBits - 1 : r \in mask <=> (db <= r /\ r < db + bit_count)
  <2> TAKE r \in 0 .. ByteBits - 1
  <2>1. r \in Nat /\ Mask(bit_count) \in SUBSET Nat /\ db \in Nat
    BY <1>0 DEF Mask
  <2>2. r \in mask <=> (db <= r /\ r - db \in Mask(bit_count))
    BY <2>1, Shifts
  <2> QED
    BY <2>1, <2>2 DEF Mask
<1> HIDE DEF shifted, mask
<1>8. /\ one \in Byte
      /\ \A r \in 0 .. ByteBits - 1 : r \in one <=> IF r \in mask THEN r \in shifted ELSE r \in dest[d]
  BY <1>0, <1>4, <1>6 DEF Mask, NotByte, Byte
<1>9. /\ head \in Byte
      /\ \A r \in 0 .. ByteBits - 1 : r \in head <=> IF db <= r THEN r \in shifted ELSE r \in dest[d]
  BY <1>0, <1>4, <1>6 DEF Mask, NotByte, Byte
<1>10. slider \in SUBSET (0 .. up_shift - 1) /\ \A r \in Nat : r \in slider <=> r + (ByteBits - up_shift) \in source[s]
  <2>1. \A r \in Nat : r \in slider <=> r + (ByteBits - up_shift) \in source[s]
    BY <1>0, <1>4, Shifts
  <2>2. slider \in SUBSET Nat
    BY <1>0, <1>4, ShiftTypes
  <2>3. ASSUME NEW r \in slider PROVE r \in 0 .. up_shift - 1
    <3>1. r \in Nat /\ r + (ByteBits - up_shift) \in 0 .. ByteBits - 1
      BY <2>1, <2>2, <1>4
    <3> QED
      BY <3>1, <1>0
  <2> QED
    BY <2>1, <2>3
<1> HIDE DEF slider, one, head
\* Bits of the first byte, in both cases.
<1>11. \A r \in 0 .. ByteBits - 1 : db <= r =>
          (r \in shifted <=> SourceBit(source, s + (d - d), r + (sb - db)))
  <2> TAKE r \in 0 .. ByteBits - 1
  <2>1. HAVE db <= r
  <2>2. r + (sb - db) = r - up_shift /\ s + (d - d) = s /\ up_shift <= r /\ ~(r - up_shift < 0)
        /\ r - up_shift < ByteBits
    BY <2>1, <1>0 DEF up_shift
  <2> QED
    BY <2>2, <1>5 DEF SourceBit
<1>12. CASE n = 0
  <2>1. out = [dest EXCEPT ![d] = one]
    BY <1>3, <1>12
  <2> HIDE DEF out
  <2>2. out \in Memory(D)
    BY <2>1, <1>8 DEF Memory
  <2>3. ASSUME NEW q \in 0 .. D - 1, NEW r \in 0 .. ByteBits - 1
        PROVE  r \in out[q] <=> IF Between(d, db, n, last_bit, q, r)
                                THEN SourceBit(source, s + (q - d), r + (sb - db))
                                ELSE r \in dest[q]
    <3>1. Between(d, db, n, last_bit, q, r) <=> (q = d /\ db <= r /\ r < db + bit_count)
      BY <1>12, <1>0 DEF Between
    <3>2. CASE q = d
      <4>1. out[q] = one
        BY <2>1, <3>2, <1>1, <1>2
      <4> QED
        BY <3>1, <3>2, <4>1, <1>7, <1>8, <1>11
    <3>3. CASE q # d
      <4>1. out[q] = dest[q]
        BY <2>1, <3>3, <1>1
      <4> QED
        BY <4>1, <3>1, <3>3
    <3> QED
      BY <3>2, <3>3
  <2>4. Copied(out, D, dest, d, db, source, s, sb, n, last_bit)
    BY <2>2, <2>3 DEF Copied
  <2> QED
    BY <2>4 DEF out
<1>13. CASE n # 0
  <2>1. out = CopySliding(first, d + 1, source, s + 1, slider, up_shift, n - 1, last_bit)
    BY <1>3, <1>13
  <2>2. first \in Memory(D)
    BY <1>9 DEF Memory
  <2>3. \A q \in 0 .. D - 1 : first[q] = IF q = d THEN head ELSE dest[q]
    BY <1>1
  <2>4. /\ d + 1 \in Nat /\ s + 1 \in Nat /\ n - 1 \in Nat /\ (d + 1) + (n - 1) < D
        /\ (d + 1) + (n - 1) = d + n
    BY <1>13
  <2>5. \A i \in 0 .. (n - 1) - 1 : source[(s + 1) + i] \in Byte
    BY <1>1, <1>13
  <2>6. up_shift <= last_bit => source[(s + 1) + (n - 1)] \in Byte
    BY <1>1, <1>13 DEF up_shift
  <2> HIDE DEF out, first
  <2>7. SlidInto(out, D, first, d + 1, source, s + 1, slider, up_shift, n - 1, last_bit)
    BY <2>1, <2>2, <2>4, <2>5, <2>6, <1>0, <1>10, CopySlidingOK
  <2>8. /\ out \in Memory(D)
        /\ \A q \in 0 .. D - 1, r \in 0 .. ByteBits - 1 :
              r \in out[q] <=> IF d + 1 <= q /\ (q < d + n \/ (q = d + n /\ r <= last_bit))
                               THEN Slid(slider, source, s + 1, up_shift, q - (d + 1), r)
                               ELSE r \in first[q]
    BY <2>4, <2>7 DEF SlidInto
  <2>9. ASSUME NEW q \in 0 .. D - 1, NEW r \in 0 .. ByteBits - 1
        PROVE  r \in out[q] <=> IF Between(d, db, n, last_bit, q, r)
                                THEN SourceBit(source, s + (q - d), r + (sb - db))
                                ELSE r \in dest[q]
    <3>1. CASE d + 1 <= q /\ (q < d + n \/ (q = d + n /\ r <= last_bit))
      <4>1. Between(d, db, n, last_bit, q, r)
        BY <3>1 DEF Between
      <4>2. r \in out[q] <=> Slid(slider, source, s + 1, up_shift, q - (d + 1), r)
        BY <2>8, <3>1
      <4>3. /\ (s + 1) + (q - (d + 1)) = s + (q - d)
            /\ ((s + 1) + (q - (d + 1))) - 1 = (s + (q - d)) - 1
            /\ r + (sb - db) = r - up_shift
        BY <1>0 DEF up_shift
      <4>4. CASE up_shift <= r
        <5>1. ~(r - up_shift < 0) /\ r - up_shift < ByteBits
          BY <1>0, <4>4
        <5> QED
          BY <4>1, <4>2, <4>3, <4>4, <5>1 DEF Slid, SourceBit
      <4>5. CASE ~(up_shift <= r)
        <5>1. r - up_shift < 0 /\ (r - up_shift) + ByteBits = r + (ByteBits - up_shift) /\ r \in Nat
          BY <1>0, <4>5
        <5>2. SourceBit(source, s + (q - d), r + (sb - db))
                <=> r + (ByteBits - up_shift) \in source[(s + (q - d)) - 1]
          BY <4>3, <5>1 DEF SourceBit
        <5>3. CASE q = d + 1
          <6>1. (s + (q - d)) - 1 = s /\ q - (d + 1) = 0
            BY <5>3
          <6>2. r \in out[q] <=> r \in slider
            BY <4>2, <4>5, <6>1 DEF Slid
          <6> QED
            BY <1>10, <4>1, <5>1, <5>2, <6>1, <6>2
        <5>4. CASE q # d + 1
          <6>1. q - (d + 1) # 0
            BY <5>4
          <6>2. r \in out[q] <=> r + (ByteBits - up_shift) \in source[((s + 1) + (q - (d + 1))) - 1]
            BY <4>2, <4>5, <6>1 DEF Slid
          <6> QED
            BY <4>1, <4>3, <5>2, <6>2
        <5> QED
          BY <5>3, <5>4
      <4> QED
        BY <4>4, <4>5
    <3>2. CASE ~(d + 1 <= q /\ (q < d + n \/ (q = d + n /\ r <= last_bit)))
      <4>1. r \in out[q] <=> r \in first[q]
        BY <2>8, <3>2
      <4>2. Between(d, db, n, last_bit, q, r) <=> (q = d /\ db <= r)
        BY <3>2, <1>13 DEF Between
      <4> QED
        BY <4>1, <4>2, <2>3, <1>9, <1>11
    <3> QED
      BY <3>1, <3>2
  <2>10. Copied(out, D, dest, d, db, source, s, sb, n, last_bit)
    BY <2>8, <2>9 DEF Copied
  <2> QED
    BY <2>10 DEF out
<1> QED
  BY <1>12, <1>13

LEMMA CopyDownOK ==
    ASSUME NEW D \in Nat, NEW dest \in Memory(D), NEW d \in Nat, NEW n \in Nat, d + n < D,
           NEW S \in Nat, NEW source \in Memory(S), NEW s \in Nat, s + n < S,
           NEW db \in 0 .. ByteBits - 1, NEW sb \in 0 .. ByteBits - 1, db < sb,
           NEW last_bit \in 0 .. ByteBits - 1,
           ByteBits <= last_bit + (sb - db) => (s + n) + 1 < S
    PROVE  Copied(CopyDown(dest, d, db, source, s, sb, n, last_bit), D, dest, d, db,
                  source, s, sb, n, last_bit)
<1> DEFINE down_shift == sb - db
           up_shift == ByteBits - down_shift
           slider == (dest[d] \cap Mask(db)) \cup (Down(source[s], down_shift) \cap NotByte(Mask(db)))
           out == CopyDown(dest, d, db, source, s, sb, n, last_bit)
<1>0. /\ ByteBits \in Nat \ {0} /\ down_shift \in 1 .. ByteBits - 1 /\ down_shift \in Nat
      /\ up_shift \in 1 .. ByteBits - 1 /\ db < up_shift
  BY WidthPositive
<1>1. /\ \A q \in 0 .. D - 1 : dest[q] \in SUBSET (0 .. ByteBits - 1)
      /\ \A q \in 0 .. S - 1 : source[q] \in SUBSET (0 .. ByteBits - 1)
      /\ \A q \in 0 .. S - 1 : source[q] \in Byte
  BY DEF Memory, Byte
<1>2. d \in 0 .. D - 1 /\ s \in 0 .. S - 1
  OBVIOUS
<1>3. out = CopySliding(dest, d, source, s + 1, slider, up_shift, n, last_bit)
  BY DEF CopyDown
<1>4. source[s] \in SUBSET (0 .. ByteBits - 1) /\ source[s] \in SUBSET Nat
      /\ dest[d] \in SUBSET (0 .. ByteBits - 1)
  BY <1>0, <1>1, <1>2
<1> HIDE DEF down_shift
<1>5. \A r \in Nat : r \in Down(source[s], down_shift) <=> r + down_shift \in source[s]
  BY <1>0, <1>4, Shifts
<1>6. Down(source[s], down_shift) \in SUBSET Nat
  BY <1>0, <1>4, ShiftTypes
<1>7. \A r \in 0 .. up_shift - 1 : r \in slider <=> IF db <= r THEN r + down_shift \in source[s] ELSE r \in dest[d]
  BY <1>0, <1>4, <1>5, <1>6 DEF Mask, NotByte
<1>8. slider \in SUBSET (0 .. up_shift - 1)
  <2>1. ASSUME NEW r \in slider PROVE r \in 0 .. up_shift - 1
    <3>1. CASE r \in dest[d] \cap Mask(db)
      BY <3>1, <1>0, <1>4 DEF Mask
    <3>2. CASE r \in Down(source[s], down_shift)
      <4>1. r \in Nat /\ r + down_shift \in 0 .. ByteBits - 1
        BY <3>2, <1>4, <1>5, <1>6
      <4> QED
        BY <4>1, <1>0
    <3> QED
      BY <3>1, <3>2
  <2> QED
    BY <2>1
<1> HIDE DEF slider
<1>9. \A i \in 0 .. n - 1 : source[(s + 1) + i] \in Byte
  BY <1>1
<1>10. up_shift <= last_bit => source[(s + 1) + n] \in Byte
  <2> SUFFICES ASSUME up_shift <= last_bit PROVE (s + 1) + n \in 0 .. S - 1
    BY <1>1
  <2> QED
    BY <1>0 DEF down_shift
<1> HIDE DEF out, up_shift
<1>11. SlidInto(out, D, dest, d, source, s + 1, slider, up_shift, n, last_bit)
  <2>1. s + 1 \in Nat
    OBVIOUS
  <2> QED
    BY <1>0, <1>3, <1>8, <1>9, <1>10, <2>1, CopySlidingOK
<1>12. /\ out \in Memory(D)
       /\ \A q \in 0 .. D - 1, r \in 0 .. ByteBits - 1 :
             r \in out[q] <=> IF d <= q /\ (q < d + n \/ (q = d + n /\ r <= last_bit))
                              THEN Slid(slider, source, s + 1, up_shift, q - d, r)
                              ELSE r \in dest[q]
  BY <1>11 DEF SlidInto
<1>13. ASSUME NEW q \in 0 .. D - 1, NEW r \in 0 .. ByteBits - 1
       PROVE  r \in out[q] <=> IF Between(d, db, n, last_bit, q, r)
                               THEN SourceBit(source, s + (q - d), r + (sb - db))
                               ELSE r \in dest[q]
  <2>0. /\ r + (sb - db) = r + down_shift /\ ~(r + down_shift < 0) /\ r \in Nat
        /\ r + down_shift < ByteBits <=> ~(up_shift <= r)
        /\ r - up_shift = (r + down_shift) - ByteBits /\ r + (ByteBits - up_shift) = r + down_shift
    BY <1>0 DEF down_shift, up_shift
  <2>1. CASE d <= q /\ (q < d + n \/ (q = d + n /\ r <= last_bit))
    <3>1. Between(d, db, n, last_bit, q, r) <=> (d < q \/ db <= r)
      BY <2>1 DEF Between
    <3>2. r \in out[q] <=> Slid(slider, source, s + 1, up_shift, q - d, r)
      BY <1>12, <2>1
    <3>3. (s + 1) + (q - d) = (s + (q - d)) + 1 /\ ((s + 1) + (q - d)) - 1 = s + (q - d)
      OBVIOUS
    <3>4. CASE up_shift <= r
      <4>1. Slid(slider, source, s + 1, up_shift, q - d, r)
              <=> SourceBit(source, s + (q - d), r + (sb - db))
        BY <2>0, <3>3, <3>4 DEF Slid, SourceBit
      <4>2. db <= r
        BY <3>4, <1>0
      <4> QED
        BY <3>1, <3>2, <4>1, <4>2
    <3>5. CASE ~(up_shift <= r)
      <4>1. SourceBit(source, s + (q - d), r + (sb - db)) <=> r + down_shift \in source[s + (q - d)]
        BY <2>0, <3>5 DEF SourceBit
      <4>2. CASE q = d
        <5>1. q - d = 0 /\ s + (q - d) = s /\ r \in 0 .. up_shift - 1
          BY <4>2, <3>5, <2>0, <1>0
        <5>2. r \in out[q] <=> r \in slider
          BY <3>2, <3>5, <5>1 DEF Slid
        <5> QED
          BY <1>7, <3>1, <4>1, <4>2, <5>1, <5>2
      <4>3. CASE q # d
        <5>1. q - d # 0 /\ d < q
          BY <4>3, <2>1
        <5>2. r \in out[q] <=> r + down_shift \in source[s + (q - d)]
          BY <2>0, <3>2, <3>3, <3>5, <5>1 DEF Slid
        <5> QED
          BY <3>1, <4>1, <5>1, <5>2
      <4> QED
        BY <4>2, <4>3
    <3> QED
      BY <3>4, <3>5
  <2>2. CASE ~(d <= q /\ (q < d + n \/ (q = d + n /\ r <= last_bit)))
    <3>1. ~Between(d, db, n, last_bit, q, r)
      BY <2>2 DEF Between
    <3> QED
      BY <1>12, <2>2, <3>1
  <2> QED
    BY <2>1, <2>2
<1>14. Copied(out, D, dest, d, db, source, s, sb, n, last_bit)
  BY <1>12, <1>13 DEF Copied
<1> QED
  BY <1>14 DEF out

-----------------------------------------------------------------------------
(* The copy between two positions. *)

LEMMA Order ==
    ASSUME NEW B \in Nat \ {0}, NEW q \in Nat, NEW r \in 0 .. B - 1, NEW e \in Nat, NEW x \in 0 .. B - 1
    PROVE  q * B + r <= e * B + x <=> (q < e \/ (q = e /\ r <= x))
<1>1. q * B \in Nat /\ e * B \in Nat
  BY Product
<1>2. CASE q < e
  <2>1. q * B + B <= e * B
    BY <1>2, Product
  <2> QED
    BY <1>1, <1>2, <2>1
<1>3. CASE e < q
  <2>1. e * B + B <= q * B
    BY <1>3, Product
  <2> QED
    BY <1>1, <1>3, <2>1
<1>4. CASE q = e
  BY <1>1, <1>4
<1> QED
  BY <1>2, <1>3, <1>4

LEMMA BytesBelow ==
    ASSUME NEW B \in Nat \ {0}, NEW q \in Nat, NEW e \in Nat, q * B < e * B
    PROVE  q < e
<1>1. q * B \in Nat /\ e * B \in Nat
  BY Product
<1>2. ~(e < q)
  <2> SUFFICES ASSUME e < q PROVE FALSE
    OBVIOUS
  <2>1. e * B + B <= q * B
    BY Product
  <2> QED
    BY <1>1, <2>1
<1>3. q # e
  BY <1>1
<1> QED
  BY <1>2, <1>3

LEMMA ByteOf ==
    ASSUME NEW B \in Nat \ {0}, NEW E \in Nat, NEW i \in Nat, i < E * B
    PROVE  i \div B \in 0 .. E - 1
<1> DEFINE q == i \div B
           r == i % B
<1>1. q \in Nat /\ r \in 0 .. B - 1 /\ i = q * B + r
  BY Position
<1> HIDE DEF q, r
<1>2. q * B \in Nat /\ E * B \in Nat
  BY <1>1, Product
<1>3. q * B < E * B
  BY <1>1, <1>2
<1>4. q < E
  BY <1>1, <1>3, BytesBelow
<1> QED
  BY <1>1, <1>4 DEF q

LEMMA SourceBitPosition ==
    ASSUME NEW source, NEW e \in Nat, NEW x \in Int, 0 - ByteBits <= x, x < ByteBits + ByteBits,
           x < 0 => 0 < e
    PROVE  Bit(source, e * ByteBits + x) <=> SourceBit(source, e, x)
<1>0. ByteBits \in Nat \ {0}
  BY WidthPositive
<1> DEFINE B == ByteBits
<1>1. ASSUME NEW f \in Nat, NEW y \in 0 .. B - 1, e * B + x = f * B + y
      PROVE  Bit(source, e * B + x) <=> y \in source[f]
  <2>1. (f * B + y) \div B = f /\ (f * B + y) % B = y
    BY <1>0, Coordinates
  <2> QED
    BY <1>1, <2>1 DEF Bit
<1>2. CASE x < 0
  <2>1. e - 1 \in Nat /\ x + B \in 0 .. B - 1
    BY <1>0, <1>2
  <2>2. e * B + x = (e - 1) * B + (x + B)
    <3>1. ((e - 1) + 1) * B = (e - 1) * B + 1 * B
      BY <1>0, <2>1, Product
    <3>2. (e - 1) + 1 = e /\ 1 * B = B /\ (e - 1) * B \in Nat /\ e * B \in Nat
      BY <1>0, <2>1
    <3> QED
      BY <1>0, <3>1, <3>2
  <2> QED
    BY <1>1, <1>2, <2>1, <2>2 DEF SourceBit
<1>3. CASE 0 <= x /\ x < B
  <2>1. x \in 0 .. B - 1
    BY <1>0, <1>3
  <2> QED
    BY <1>0, <1>1, <1>3, <2>1 DEF SourceBit
<1>4. CASE B <= x
  <2>1. x - B \in 0 .. B - 1 /\ e + 1 \in Nat
    BY <1>0, <1>4
  <2>2. e * B + x = (e + 1) * B + (x - B)
    <3>1. (e + 1) * B = e * B + 1 * B
      BY <1>0, Product
    <3>2. 1 * B = B /\ e * B \in Nat
      BY <1>0
    <3> QED
      BY <1>0, <3>1, <3>2
  <2>3. ~(x < 0) /\ ~(x < B)
    BY <1>0, <1>4
  <2> QED
    BY <1>1, <2>1, <2>2, <2>3 DEF SourceBit
<1> QED
  BY <1>0, <1>2, <1>3, <1>4

\* out is dest with bit_count bits of the source from source_bit on copied to dest_bit.
BitsCopied(out, D, dest, dest_bit, source, source_bit, bit_count) ==
    /\ out \in Memory(D)
    /\ \A i \in 0 .. D * ByteBits - 1 :
          Bit(out, i) <=> IF dest_bit <= i /\ i < dest_bit + bit_count
                          THEN Bit(source, source_bit + (i - dest_bit))
                          ELSE Bit(dest, i)

\* _copy_bits copies the bits between two positions, of any alignment, and no other: the
\* bytes it writes at both ends keep their other bits, and it reads no byte beyond the
\* source.
LEMMA CopyBitsOK ==
    ASSUME NEW D \in Nat, NEW dest \in Memory(D), NEW S \in Nat, NEW source \in Memory(S),
           NEW dest_bit \in Nat, NEW source_bit \in Nat, NEW bit_count \in Nat \ {0},
           dest_bit + bit_count <= D * ByteBits, source_bit + bit_count <= S * ByteBits
    PROVE  BitsCopied(_copy_bits(dest, dest_bit, source, source_bit, bit_count), D, dest, dest_bit,
                      source, source_bit, bit_count)
<1> DEFINE B == ByteBits
           d == dest_bit \div B
           s == source_bit \div B
           db == dest_bit % B
           sb == source_bit % B
           n == (db + bit_count - 1) \div B
           last_bit == (db + bit_count - 1) % B
           out == _copy_bits(dest, dest_bit, source, source_bit, bit_count)
<1>0. B \in Nat \ {0}
  BY WidthPositive
<1>1. d \in Nat /\ db \in 0 .. B - 1 /\ dest_bit = d * B + db
  BY <1>0, Position
<1>2. s \in Nat /\ sb \in 0 .. B - 1 /\ source_bit = s * B + sb
  BY <1>0, Position
<1>3. out = CASE sb = db -> CopyAligned(dest, d, source, s, sb, n, last_bit)
              [] sb < db -> CopyUp(dest, d, db, source, s, sb, bit_count, n, last_bit)
              [] sb > db -> CopyDown(dest, d, db, source, s, sb, n, last_bit)
  BY DEF _copy_bits
<1> HIDE DEF d, s, db, sb
<1>4. n \in Nat /\ last_bit \in 0 .. B - 1 /\ (db + bit_count) - 1 = n * B + last_bit
  <2>1. db + bit_count - 1 \in Nat
    BY <1>0, <1>1
  <2>2. n \in Nat
    BY <1>0, <2>1, Position
  <2>3. last_bit \in 0 .. B - 1
    BY <1>0, <2>1, Position
  <2>4. db + bit_count - 1 = n * B + last_bit
    BY <1>0, <2>1, Position
  <2> HIDE DEF n, last_bit
  <2> QED
    BY <1>0, <1>1, <2>2, <2>3, <2>4
<1> HIDE DEF n, last_bit, out
<1>5. /\ d * B \in Nat /\ n * B \in Nat /\ s * B \in Nat /\ (d + n) * B = d * B + n * B
      /\ (s + n) * B = s * B + n * B /\ D * B \in Nat /\ S * B \in Nat
  BY <1>0, <1>1, <1>2, <1>4, Product
<1>6. (dest_bit + bit_count) - 1 = (d + n) * B + last_bit
  <2> HIDE DEF B
  <2> QED
    BY <1>0, <1>1, <1>4, <1>5
<1>7. (source_bit + bit_count) - 1 = (s + n) * B + (last_bit + (sb - db))
  <2> HIDE DEF B
  <2> QED
    BY <1>0, <1>1, <1>2, <1>4, <1>5
<1>8. d + n < D
  <2>1. (d + n) * B < D * B
    <3> HIDE DEF B
    <3> QED
      BY <1>0, <1>4, <1>5, <1>6 DEF B
  <2>2. d + n \in Nat
    BY <1>1, <1>4
  <2> QED
    BY <1>0, <2>1, <2>2, BytesBelow
<1>9. s < S
  <2>1. s * B < S * B
    <3> QED
      BY <1>0, <1>2, <1>5
  <2> QED
    BY <1>0, <1>2, <2>1, BytesBelow
<1>10. 0 <= last_bit + (sb - db) => s + n < S
  <2> SUFFICES ASSUME 0 <= last_bit + (sb - db) PROVE s + n < S
    OBVIOUS
  <2>1. (s + n) * B < S * B /\ s + n \in Nat
    BY <1>0, <1>1, <1>2, <1>4, <1>5, <1>7
  <2> QED
    BY <1>0, <2>1, BytesBelow
<1>11. s + n <= S
  <2> SUFFICES ASSUME 0 < s + n PROVE (s + n) - 1 < S
    BY <1>2, <1>4
  <2>1. (s + n) - 1 \in Nat
    BY <1>2, <1>4
  <2>2. (((s + n) - 1) + 1) * B = ((s + n) - 1) * B + 1 * B
    BY <1>0, <2>1, Product
  <2>3. ((s + n) - 1) + 1 = s + n /\ 1 * B = B /\ ((s + n) - 1) * B \in Nat
    BY <1>0, <2>1, <1>2, <1>4
  <2>4. (s + n) * B = ((s + n) - 1) * B + B
    BY <2>2, <2>3
  <2>5. ((s + n) - 1) * B < S * B
    BY <1>0, <1>1, <1>2, <1>4, <1>5, <1>7, <2>3, <2>4
  <2> QED
    BY <1>0, <2>1, <2>5, BytesBelow
<1>12. B <= last_bit + (sb - db) => (s + n) + 1 < S
  <2> SUFFICES ASSUME B <= last_bit + (sb - db) PROVE (s + n) + 1 < S
    OBVIOUS
  <2>1. s + n \in Nat /\ (s + n) + 1 \in Nat
    BY <1>2, <1>4
  <2>2. ((s + n) + 1) * B = (s + n) * B + 1 * B /\ 1 * B = B
    BY <1>0, <2>1, Product
  <2>3. ((s + n) + 1) * B < S * B
    BY <1>0, <1>1, <1>2, <1>4, <1>5, <1>7, <2>2
  <2> QED
    BY <1>0, <2>1, <2>3, BytesBelow
<1>13. (db + bit_count <= B) <=> (n = 0)
  <2>1. n = 0 => n * B = 0
    BY <1>0
  <2>2. n # 0 => B <= n * B
    <3>1. 0 < n => 0 * B + B <= n * B
      BY <1>0, <1>4, Product
    <3>2. 0 * B = 0
      BY <1>0
    <3> QED
      BY <1>0, <1>4, <3>1, <3>2
  <2> HIDE DEF B
  <2>3. n = 0 => db + bit_count <= B
    BY <1>0, <1>1, <1>4, <2>1
  <2>4. n # 0 => ~(db + bit_count <= B)
    BY <1>0, <1>1, <1>4, <1>5, <2>2
  <2> QED
    BY <2>3, <2>4
<1>14. n = 0 => last_bit = (db + bit_count) - 1
  <2>1. n = 0 => n * B = 0
    BY <1>0
  <2> QED
    BY <1>4, <2>1
<1>15. Copied(out, D, dest, d, db, source, s, sb, n, last_bit)
  <2>1. CASE sb = db
    <3>1. out = CopyAligned(dest, d, source, s, sb, n, last_bit)
      BY <1>3, <2>1, <1>1, <1>2
    <3>2. s + n < S
      BY <1>0, <1>4, <1>10, <2>1, <1>1
    <3> QED
      BY <1>0, <1>1, <1>2, <1>4, <1>8, <2>1, <3>1, <3>2, CopyAlignedOK
  <2>2. CASE sb < db
    <3>1. out = CopyUp(dest, d, db, source, s, sb, bit_count, n, last_bit)
      BY <1>3, <2>2, <1>1, <1>2
    <3>2. db - sb <= last_bit => s + n < S
      BY <1>0, <1>1, <1>2, <1>4, <1>10
    <3> QED
      BY <1>1, <1>2, <1>4, <1>8, <1>9, <1>11, <1>13, <1>14, <2>2, <3>1, <3>2, CopyUpOK
  <2>3. CASE db < sb
    <3>1. out = CopyDown(dest, d, db, source, s, sb, n, last_bit)
      BY <1>3, <2>3, <1>1, <1>2
    <3>2. s + n < S
      BY <1>0, <1>1, <1>2, <1>4, <1>10, <2>3
    <3> QED
      BY <1>1, <1>2, <1>4, <1>8, <1>12, <2>3, <3>1, <3>2, CopyDownOK
  <2> QED
    BY <1>0, <1>1, <1>2, <2>1, <2>2, <2>3
<1>16. ASSUME NEW i \in 0 .. D * B - 1
       PROVE  Bit(out, i) <=> IF dest_bit <= i /\ i < dest_bit + bit_count
                              THEN Bit(source, source_bit + (i - dest_bit))
                              ELSE Bit(dest, i)
  <2> DEFINE q == i \div B
             r == i % B
  <2>0. i \in Nat
    BY <1>5
  <2>1. q \in Nat /\ r \in 0 .. B - 1 /\ i = q * B + r
    BY <1>0, <2>0, Position
  <2>2. (Bit(out, i) <=> r \in out[q]) /\ (Bit(dest, i) <=> r \in dest[q])
    BY DEF Bit
  <2> HIDE DEF q, r
  <2>3. q * B \in Nat
    BY <1>0, <2>1, Product
  <2>4. q \in 0 .. D - 1
    <3>1. q * B < D * B
      BY <1>0, <1>5, <2>0, <2>1, <2>3
    <3>2. q < D
      BY <1>0, <2>1, <3>1, BytesBelow
    <3> QED
      BY <2>1, <3>2
  <2>5. dest_bit <= i <=> (d < q \/ (d = q /\ db <= r))
    BY <1>0, <1>1, <2>1, Order
  <2>6. i < dest_bit + bit_count <=> (q < d + n \/ (q = d + n /\ r <= last_bit))
    <3>1. i <= (d + n) * B + last_bit <=> (q < d + n \/ (q = d + n /\ r <= last_bit))
      <4>1. d + n \in Nat
        BY <1>1, <1>4
      <4> QED
        BY <1>0, <1>4, <2>1, <4>1, Order
    <3>2. i < dest_bit + bit_count <=> i <= (dest_bit + bit_count) - 1
      BY <2>0
    <3> QED
      BY <1>6, <3>1, <3>2
  <2>7. Between(d, db, n, last_bit, q, r) <=> (dest_bit <= i /\ i < dest_bit + bit_count)
    <3> HIDE DEF B
    <3> QED
      BY <1>1, <1>4, <2>1, <2>5, <2>6 DEF Between
  <2>8. CASE dest_bit <= i /\ i < dest_bit + bit_count
    <3> DEFINE e == s + (q - d)
               x == r + (sb - db)
    <3>1. d <= q /\ (d < q \/ db <= r)
      BY <1>1, <2>1, <2>5, <2>8
    <3>2. q - d \in Nat /\ (s + (q - d)) * B = s * B + (q - d) * B /\ (d + (q - d)) * B = d * B + (q - d) * B
          /\ (q - d) * B \in Nat
      <4>1. q - d \in Nat
        BY <3>1, <1>1, <2>1
      <4> QED
        BY <1>0, <1>1, <1>2, <4>1, Product
    <3>3. d + (q - d) = q
      BY <1>1, <2>1
    <3>4. q * B = d * B + (q - d) * B
      BY <3>2, <3>3
    <3>5. source_bit + (i - dest_bit) = e * B + x
      <4>1. e * B = s * B + (q - d) * B
        BY <3>2
      <4> HIDE DEF e
      <4> QED
        BY <1>1, <1>2, <1>5, <2>1, <2>3, <3>2, <3>4, <4>1
    <3>6. e \in Nat /\ x \in Int /\ 0 - B <= x /\ x < B + B /\ (x < 0 => 0 < e)
      <4>1. e \in Nat
        BY <1>2, <3>2
      <4>2. x \in Int /\ 0 - B <= x /\ x < B + B
        BY <1>0, <1>1, <1>2, <2>1
      <4>3. x < 0 => d < q
        BY <1>0, <1>1, <1>2, <2>1, <3>1
      <4>4. d < q => 0 < e
        BY <1>1, <1>2, <2>1
      <4> QED
        BY <4>1, <4>2, <4>3, <4>4
    <3>7. Bit(source, e * B + x) <=> SourceBit(source, e, x)
      <4> HIDE DEF e, x
      <4> QED
        BY <3>6, SourceBitPosition
    <3>8. r \in out[q] <=> SourceBit(source, e, x)
      BY <1>15, <2>1, <2>4, <2>7, <2>8 DEF Copied
    <3> QED
      BY <2>2, <2>8, <3>5, <3>7, <3>8
  <2>9. CASE ~(dest_bit <= i /\ i < dest_bit + bit_count)
    <3>1. r \in out[q] <=> r \in dest[q]
      BY <1>15, <2>1, <2>4, <2>7, <2>9 DEF Copied
    <3> QED
      BY <2>2, <2>9, <3>1
  <2> QED
    BY <2>8, <2>9
<1>17. BitsCopied(out, D, dest, dest_bit, source, source_bit, bit_count)
  BY <1>15, <1>16 DEF Copied, BitsCopied
<1> QED
  BY <1>17 DEF out

-----------------------------------------------------------------------------
(* Powers of two, and numbers as their bits. *)

LEMMA Pow2Equations ==
    /\ Pow2 \in [0 .. WordBits + 1 -> Nat] /\ Pow2[0] = 1
    /\ \A k \in 1 .. WordBits + 1 : Pow2[k] = 2 * Pow2[k - 1]
<1> DEFINE N == WordBits + 1
           F == [p \in (1 .. N) \X Nat |-> 2 * p[2]]
<1>0. N \in Nat
  BY WidthPositive
<1>1. F \in [(1 .. N) \X Nat -> Nat]
  <2>1. \A i \in 1 .. N, x \in Nat : 2 * x \in Nat
    OBVIOUS
  <2> QED
    BY <2>1
<1>2. PICK g : IsHistory(g, N, Nat, 1, F)
  <2> HIDE DEF F, N
  <2>1. 1 \in Nat
    OBVIOUS
  <2> QED
    BY <1>0, <1>1, <2>1, LoopHistory
<1>3. g \in [0 .. N -> Nat]
  BY <1>2 DEF IsHistory
<1>4. g = [k \in 0 .. N |-> IF k = 0 THEN 1 ELSE 2 * g[k - 1]]
  <2>1. g = [k \in 0 .. N |-> IF k = 0 THEN 1 ELSE F[<<k, g[k - 1]>>]]
    BY <1>2 DEF IsHistory
  <2>2. \A k \in 1 .. N : F[<<k, g[k - 1]>>] = 2 * g[k - 1]
    <3> TAKE k \in 1 .. N
    <3>1. g[k - 1] \in Nat
      BY <1>0, <1>3
    <3> QED
      BY <3>1
  <2> HIDE DEF F, N
  <2>3. \A k \in 0 .. N : (IF k = 0 THEN 1 ELSE F[<<k, g[k - 1]>>]) = (IF k = 0 THEN 1 ELSE 2 * g[k - 1])
    BY <1>0, <2>2
  <2> QED
    BY <2>1, <2>3
<1>5. Pow2 = [k \in 0 .. WordBits + 1 |-> IF k = 0 THEN 1 ELSE 2 * Pow2[k - 1]]
  BY <1>4 DEF Pow2
<1>6. Pow2[0] = 1 /\ \A k \in 1 .. N : Pow2[k] = 2 * Pow2[k - 1]
  <2> HIDE DEF N
  <2>1. Pow2 = [k \in 0 .. N |-> IF k = 0 THEN 1 ELSE 2 * Pow2[k - 1]]
    BY <1>5 DEF N
  <2>2. 0 \in 0 .. N /\ \A k \in 1 .. N : k \in 0 .. N /\ k # 0
    BY <1>0
  <2> QED
    BY <2>1, <2>2
<1>7. \A k \in 0 .. N : Pow2[k] \in Nat
  <2> DEFINE S == {k \in Nat : k <= N => Pow2[k] \in Nat}
  <2>1. 0 \in S
    BY <1>6
  <2>2. ASSUME NEW k \in Nat, k \in S PROVE k + 1 \in S
    <3> SUFFICES ASSUME k + 1 <= N PROVE Pow2[k + 1] \in Nat
      OBVIOUS
    <3>1. Pow2[k] \in Nat
      BY <1>0, <2>2
    <3>2. Pow2[k + 1] = 2 * Pow2[(k + 1) - 1] /\ (k + 1) - 1 = k
      BY <1>0, <1>6
    <3> QED
      BY <3>1, <3>2
  <2> HIDE DEF S
  <2>3. \A k \in Nat : k \in S
    BY <2>1, <2>2, SetInduction
  <2> QED
    BY <2>3, <1>0 DEF S
<1>8. Pow2 \in [0 .. WordBits + 1 -> Nat]
  BY <1>5, <1>7
<1> QED
  BY <1>6, <1>8

LEMMA Pow2Grows ==
    ASSUME NEW k \in 0 .. WordBits + 1
    PROVE  /\ Pow2[k] \in Nat \ {0}
           /\ \A i \in 0 .. k : Pow2[i] <= Pow2[k]
<1> DEFINE N == WordBits + 1
           S == {m \in Nat : m <= N => /\ Pow2[m] \in Nat \ {0}
                                       /\ \A i \in 0 .. m : Pow2[i] <= Pow2[m]}
<1>0. N \in Nat
  BY WidthPositive
<1>1. 0 \in S
  BY Pow2Equations
<1>2. ASSUME NEW m \in Nat, m \in S PROVE m + 1 \in S
  <2> SUFFICES ASSUME m + 1 <= N
               PROVE  Pow2[m + 1] \in Nat \ {0} /\ \A i \in 0 .. m + 1 : Pow2[i] <= Pow2[m + 1]
    OBVIOUS
  <2>1. Pow2[m] \in Nat \ {0} /\ \A i \in 0 .. m : Pow2[i] <= Pow2[m]
    BY <1>0, <1>2
  <2>2. Pow2[m + 1] = 2 * Pow2[m]
    <3>1. m + 1 \in 1 .. WordBits + 1 /\ (m + 1) - 1 = m
      BY <1>0
    <3> QED
      BY <3>1, Pow2Equations
  <2>3. Pow2[m + 1] \in Nat \ {0} /\ Pow2[m] <= Pow2[m + 1]
    BY <2>1, <2>2
  <2>4. ASSUME NEW i \in 0 .. m + 1 PROVE Pow2[i] <= Pow2[m + 1]
    <3>1. CASE i = m + 1
      BY <2>3, <3>1
    <3>2. CASE i # m + 1
      <4>1. i \in 0 .. m /\ i \in 0 .. WordBits + 1
        BY <3>2, <1>0
      <4>2. Pow2[i] \in Nat /\ Pow2[i] <= Pow2[m]
        BY <2>1, <4>1, Pow2Equations
      <4> QED
        BY <2>1, <2>3, <4>2
    <3> QED
      BY <3>1, <3>2
  <2> QED
    BY <2>3, <2>4
<1> HIDE DEF S
<1>3. \A m \in Nat : m \in S
  BY <1>1, <1>2, SetInduction
<1>4. k \in Nat /\ k <= N
  BY <1>0
<1> QED
  BY <1>3, <1>4 DEF S

LEMMA UintModPositive == UintMod \in Nat \ {0}
<1>1. WordBits \in 0 .. WordBits + 1
  BY WidthPositive
<1> QED
  BY <1>1, Pow2Grows DEF UintMod

\* One bit more of a number.
LEMMA OneMoreBit ==
    ASSUME NEW v \in Nat, NEW p \in Nat \ {0}
    PROVE  v % (2 * p) = (v % p) + (IF (v \div p) % 2 = 1 THEN p ELSE 0)
<1> DEFINE q == v \div p
           r == v % p
           h == q \div 2
           o == q % 2
           x == IF o = 1 THEN p ELSE 0
<1>1. q \in Nat /\ r \in 0 .. p - 1 /\ v = q * p + r
  BY Position
<1> HIDE DEF q, r
<1>2. h \in Nat /\ o \in 0 .. 1 /\ q = 2 * h + o
  BY <1>1
<1> HIDE DEF h, o
<1>3. q * p = h * (2 * p) + x
  <2>1. h * (2 * p) = (2 * h) * p /\ (2 * h) * p \in Nat
    BY <1>2
  <2>2. CASE o = 0
    BY <1>2, <2>1, <2>2
  <2>3. CASE o = 1
    <3>1. (2 * h + 1) * p = (2 * h) * p + p
      BY <1>2
    <3> QED
      BY <1>2, <2>1, <2>3, <3>1
  <2> QED
    BY <1>2, <2>2, <2>3
<1>4. x \in {0, p}
  OBVIOUS
<1> DEFINE y == x + r
<1>5. y \in 0 .. 2 * p - 1 /\ 2 * p \in Nat \ {0}
  <2> HIDE DEF x
  <2> QED
    BY <1>1, <1>4
<1>6. v = h * (2 * p) + y
  <2>1. h * (2 * p) \in Nat
    BY <1>2
  <2>2. x \in Nat /\ r \in Nat
    BY <1>1
  <2> HIDE DEF x
  <2> QED
    BY <1>1, <1>3, <2>1, <2>2
<1> HIDE DEF y
<1>7. (h * (2 * p) + y) % (2 * p) = y
  BY <1>2, <1>5, Coordinates
<1>8. v % (2 * p) = x + r
  BY <1>6, <1>7 DEF y
<1> HIDE DEF x
<1>9. x + r = r + x
  BY <1>1, <1>4
<1> QED
  BY <1>8, <1>9 DEF x, o, q, r

\* Value adds up the bits.
LEMMA ValueOK ==
    ASSUME NEW memory
    PROVE  /\ Value(memory) \in Nat
           /\ \A v \in Nat, c \in 0 .. WordBits :
                 (\A b \in 0 .. WordBits - 1 : Bit(memory, b) <=> (b < c /\ OneBit(v, b)))
                     => Value(memory) = v % Pow2[c]
<1> DEFINE N == WordBits
           sum == CHOOSE g : g = [i \in 0 .. WordBits |->
                     IF i = 0 THEN 0 ELSE g[i - 1] + (IF Bit(memory, i - 1) THEN Pow2[i - 1] ELSE 0)]
           F == [p \in (1 .. N) \X Nat |-> p[2] + (IF Bit(memory, p[1] - 1) THEN Pow2[p[1] - 1] ELSE 0)]
<1>0. N \in Nat
  BY WidthPositive
<1>p. \A i \in 1 .. N : Pow2[i - 1] \in Nat
  <2> TAKE i \in 1 .. N
  <2>1. i - 1 \in 0 .. WordBits + 1
    BY <1>0
  <2> QED
    BY <2>1, Pow2Equations
<1>1. F \in [(1 .. N) \X Nat -> Nat]
  <2>1. \A i \in 1 .. N, x \in Nat : x + (IF Bit(memory, i - 1) THEN Pow2[i - 1] ELSE 0) \in Nat
    BY <1>p
  <2> QED
    BY <2>1
<1>2. PICK g : IsHistory(g, N, Nat, 0, F)
  <2> HIDE DEF F, N
  <2>1. 0 \in Nat
    OBVIOUS
  <2> QED
    BY <1>0, <1>1, <2>1, LoopHistory
<1>3. g \in [0 .. N -> Nat]
  BY <1>2 DEF IsHistory
<1>4. g = [i \in 0 .. N |->
             IF i = 0 THEN 0 ELSE g[i - 1] + (IF Bit(memory, i - 1) THEN Pow2[i - 1] ELSE 0)]
  <2>1. g = [k \in 0 .. N |-> IF k = 0 THEN 0 ELSE F[<<k, g[k - 1]>>]]
    BY <1>2 DEF IsHistory
  <2>2. \A k \in 1 .. N : F[<<k, g[k - 1]>>] = g[k - 1] + (IF Bit(memory, k - 1) THEN Pow2[k - 1] ELSE 0)
    <3> TAKE k \in 1 .. N
    <3>1. g[k - 1] \in Nat
      BY <1>0, <1>3
    <3> QED
      BY <3>1
  <2> HIDE DEF F, N
  <2>3. \A k \in 0 .. N : (IF k = 0 THEN 0 ELSE F[<<k, g[k - 1]>>])
           = (IF k = 0 THEN 0 ELSE g[k - 1] + (IF Bit(memory, k - 1) THEN Pow2[k - 1] ELSE 0))
    BY <1>0, <2>2
  <2> QED
    BY <2>1, <2>3
<1>5. sum = [i \in 0 .. N |->
               IF i = 0 THEN 0 ELSE sum[i - 1] + (IF Bit(memory, i - 1) THEN Pow2[i - 1] ELSE 0)]
  BY <1>4
<1>6. Value(memory) = sum[N]
  BY DEF Value
<1> HIDE DEF sum, N
<1>7. sum[0] = 0
  BY <1>0, <1>5
<1>8. \A i \in Nat : i + 1 <= N => sum[i + 1] = sum[i] + (IF Bit(memory, i) THEN Pow2[i] ELSE 0)
  <2> TAKE i \in Nat
  <2> HAVE i + 1 <= N
  <2>1. i + 1 \in 0 .. N /\ i + 1 # 0 /\ (i + 1) - 1 = i
    BY <1>0
  <2> QED
    BY <1>5, <2>1
<1>9. \A i \in Nat : i + 1 <= N => Pow2[i] \in Nat \ {0} /\ Pow2[i + 1] = 2 * Pow2[i]
  <2> TAKE i \in Nat
  <2> HAVE i + 1 <= N
  <2>1. i \in 0 .. WordBits + 1 /\ i + 1 \in 1 .. WordBits + 1 /\ (i + 1) - 1 = i
    BY <1>0 DEF N
  <2> QED
    BY <2>1, Pow2Grows, Pow2Equations
<1>10. Value(memory) \in Nat
  <2> DEFINE S == {i \in Nat : i <= N => sum[i] \in Nat}
  <2>1. 0 \in S
    BY <1>7
  <2>2. ASSUME NEW i \in Nat, i \in S PROVE i + 1 \in S
    <3> SUFFICES ASSUME i + 1 <= N PROVE sum[i + 1] \in Nat
      OBVIOUS
    <3>1. sum[i] \in Nat
      BY <1>0, <2>2
    <3> QED
      BY <1>8, <1>9, <3>1
  <2> HIDE DEF S
  <2>3. \A i \in Nat : i \in S
    BY <2>1, <2>2, SetInduction
  <2> QED
    BY <2>3, <1>0, <1>6 DEF S
<1>11. ASSUME NEW v \in Nat, NEW c \in 0 .. WordBits,
              \A b \in 0 .. WordBits - 1 : Bit(memory, b) <=> (b < c /\ OneBit(v, b))
       PROVE  Value(memory) = v % Pow2[c]
  <2> DEFINE low(i) == IF i <= c THEN i ELSE c
             S == {i \in Nat : i <= N => sum[i] = v % Pow2[low(i)]}
  <2>0. c \in Nat /\ c <= N
    BY <1>0 DEF N
  <2>1. 0 \in S
    <3>1. low(0) = 0
      BY <2>0
    <3>2. Pow2[0] = 1 /\ v % 1 = 0
      BY Pow2Equations
    <3> QED
      BY <1>7, <3>1, <3>2
  <2>2. ASSUME NEW i \in Nat, i \in S PROVE i + 1 \in S
    <3> SUFFICES ASSUME i + 1 <= N PROVE sum[i + 1] = v % Pow2[low(i + 1)]
      OBVIOUS
    <3>1. sum[i] = v % Pow2[low(i)]
      BY <1>0, <2>2
    <3>2. Bit(memory, i) <=> (i < c /\ OneBit(v, i))
      <4>1. i \in 0 .. WordBits - 1
        BY <1>0 DEF N
      <4> QED
        BY <4>1, <1>11
    <3>3. CASE i < c
      <4>1. low(i) = i /\ low(i + 1) = i + 1
        BY <2>0, <3>3
      <4>2. v % (2 * Pow2[i]) = (v % Pow2[i]) + (IF (v \div Pow2[i]) % 2 = 1 THEN Pow2[i] ELSE 0)
        BY <1>9, OneMoreBit
      <4>3. sum[i + 1] = sum[i] + (IF (v \div Pow2[i]) % 2 = 1 THEN Pow2[i] ELSE 0)
        BY <1>8, <3>2, <3>3 DEF OneBit
      <4> QED
        BY <1>9, <3>1, <4>1, <4>2, <4>3
    <3>4. CASE ~(i < c)
      <4>1. low(i) = c /\ low(i + 1) = c
        BY <2>0, <3>4
      <4>2. sum[i + 1] = sum[i] + 0
        BY <1>8, <3>2, <3>4
      <4>3. v % Pow2[c] \in Nat
        <5>1. c \in 0 .. WordBits + 1
          BY <1>0 DEF N
        <5>2. Pow2[c] \in Nat \ {0}
          BY <5>1, Pow2Grows
        <5> QED
          BY <5>2
      <4> QED
        BY <3>1, <4>1, <4>2, <4>3
    <3> QED
      BY <3>3, <3>4
  <2> HIDE DEF S
  <2>3. \A i \in Nat : i \in S
    BY <2>1, <2>2, SetInduction
  <2>4. low(N) = c
    BY <1>0, <2>0
  <2> QED
    BY <2>3, <2>4, <1>0, <1>6 DEF S
<1> QED
  BY <1>10, <1>11

\* A field of get_next_binary_log(number) bits holds every value below number.
LEMMA BinaryLogOK ==
    ASSUME NEW number \in Nat, 0 < number, number < UintMod, get_next_binary_log(number) <= WordBits
    PROVE  /\ get_next_binary_log(number) \in 0 .. WordBits
           /\ number - 1 < Pow2[get_next_binary_log(number)]
<1> DEFINE W == WordBits
           k == CHOOSE k \in 0 .. WordBits : Pow2[k] <= number /\ number < Pow2[k + 1]
           w == get_next_binary_log(number)
<1>0. W \in Nat
  BY WidthPositive
<1>1. \E j \in 0 .. W - 1 : Pow2[j] <= number /\ number < Pow2[j + 1]
  <2> DEFINE S == {m \in Nat : (m <= W /\ number < Pow2[m]) =>
                                  \E j \in 0 .. m - 1 : Pow2[j] <= number /\ number < Pow2[j + 1]}
  <2>1. 0 \in S
    BY Pow2Equations
  <2>2. ASSUME NEW m \in Nat, m \in S PROVE m + 1 \in S
    <3> SUFFICES ASSUME m + 1 <= W, number < Pow2[m + 1]
                 PROVE  \E j \in 0 .. (m + 1) - 1 : Pow2[j] <= number /\ number < Pow2[j + 1]
      OBVIOUS
    <3>1. CASE number < Pow2[m]
      <4>1. \E j \in 0 .. m - 1 : Pow2[j] <= number /\ number < Pow2[j + 1]
        BY <1>0, <2>2, <3>1
      <4> QED
        BY <4>1
    <3>2. CASE ~(number < Pow2[m])
      <4>1. m \in 0 .. WordBits + 1
        BY <1>0
      <4>2. Pow2[m] \in Nat
        BY <4>1, Pow2Equations
      <4>3. Pow2[m] <= number /\ m \in 0 .. (m + 1) - 1
        BY <3>2, <4>2
      <4> QED
        BY <4>3
    <3> QED
      BY <3>1, <3>2
  <2> HIDE DEF S
  <2>3. W \in S
    BY <1>0, <2>1, <2>2, SetInduction
  <2> QED
    BY <1>0, <2>3 DEF S, UintMod
<1>2. k \in 0 .. W /\ Pow2[k] <= number /\ number < Pow2[k + 1]
  <2>1. \E j \in 0 .. WordBits : Pow2[j] <= number /\ number < Pow2[j + 1]
    BY <1>0, <1>1
  <2> QED
    BY <2>1
<1>3. get_binary_log(number) \in {k, k + 1}
  BY DEF get_binary_log
<1> HIDE DEF k
<1>4. w = get_binary_log(number) + (IF is_power_of_2(number) THEN 0 ELSE 1)
  BY DEF get_next_binary_log
<1>5. w <= W
  OBVIOUS
<1> HIDE DEF w, W
<1>6. k \in Nat /\ k <= W /\ w \in 0 .. W
  BY <1>0, <1>2, <1>3, <1>4, <1>5
<1>7. /\ Pow2[k] \in Nat \ {0} /\ Pow2[k + 1] \in Nat /\ Pow2[k + 1] = 2 * Pow2[k]
      /\ Pow2[w] \in Nat
  <2>1. k \in 0 .. WordBits + 1 /\ k + 1 \in 1 .. WordBits + 1 /\ (k + 1) - 1 = k
        /\ w \in 0 .. WordBits + 1
    BY <1>0, <1>6 DEF W
  <2>2. Pow2[k] \in Nat \ {0}
    BY <2>1, Pow2Grows
  <2>3. Pow2[k + 1] = 2 * Pow2[k]
    BY <2>1, Pow2Equations
  <2>4. Pow2[w] \in Nat
    BY <2>1, Pow2Equations
  <2> QED
    BY <2>2, <2>3, <2>4
<1>8. CASE w = k
  <2>1. is_power_of_2(number)
    BY <1>3, <1>4, <1>6, <1>8
  <2>2. number = Pow2[k]
    <3> SUFFICES ASSUME Pow2[k] < number PROVE FALSE
      BY <1>2, <1>7
    <3>1. (number \div Pow2[k]) % 2 = 1
      <4>1. number - Pow2[k] \in 0 .. Pow2[k] - 1 /\ number = 1 * Pow2[k] + (number - Pow2[k])
        BY <1>2, <1>7
      <4>2. number \div Pow2[k] = 1
        BY <4>1, <1>7, Coordinates
      <4> QED
        BY <4>2
    <3>2. ((number - 1) \div Pow2[k]) % 2 = 1
      <4> DEFINE r == (number - 1) - Pow2[k]
      <4>1. r \in 0 .. Pow2[k] - 1 /\ number - 1 = 1 * Pow2[k] + r
        BY <1>2, <1>7
      <4> HIDE DEF r
      <4>2. (1 * Pow2[k] + r) \div Pow2[k] = 1
        BY <4>1, <1>7, Coordinates
      <4>3. (number - 1) \div Pow2[k] = 1
        BY <4>1, <4>2
      <4> QED
        BY <4>3
    <3>3. k \in 0 .. WordBits - 1
      <4>1. k # W
        <5> SUFFICES ASSUME k = W PROVE FALSE
          OBVIOUS
        <5>1. number < Pow2[k]
          BY DEF UintMod, W
        <5> QED
          BY <5>1, <1>7
      <4> QED
        BY <4>1, <1>0, <1>6 DEF W
    <3> QED
      BY <2>1, <3>1, <3>2, <3>3 DEF is_power_of_2, OneBit
  <2> QED
    BY <1>6, <1>7, <1>8, <2>2 DEF w, W
<1>9. CASE w # k
  <2>1. k + 1 <= w
    BY <1>3, <1>4, <1>6, <1>9
  <2>2. Pow2[k + 1] <= Pow2[w]
    <3>1. w \in 0 .. WordBits + 1 /\ k + 1 \in 0 .. w
      BY <1>0, <1>6, <2>1 DEF W
    <3> QED
      BY <3>1, Pow2Grows
  <2>3. number - 1 < Pow2[w]
    BY <1>2, <1>7, <2>2
  <2> QED
    BY <1>6, <2>3 DEF w, W
<1> QED
  BY <1>8, <1>9

\* The bits of a number in memory.
LEMMA BytesOK ==
    ASSUME NEW v \in Nat
    PROVE  /\ Bytes(v) \in Memory(IntBytes)
           /\ \A i \in 0 .. WordBits - 1 : Bit(Bytes(v), i) <=> OneBit(v, i)
<1>0. ByteBits \in Nat \ {0} /\ IntBytes \in Nat \ {0} /\ WordBits = IntBytes * ByteBits /\ WordBits \in Nat
  BY WidthPositive DEF WordBits
<1>1. Bytes(v) \in Memory(IntBytes)
  BY DEF Bytes, Memory, Byte
<1>2. ASSUME NEW i \in 0 .. WordBits - 1 PROVE Bit(Bytes(v), i) <=> OneBit(v, i)
  <2> DEFINE q == i \div ByteBits
             r == i % ByteBits
  <2>0. i \in Nat
    BY <1>0
  <2>1. q \in Nat /\ r \in 0 .. ByteBits - 1 /\ i = q * ByteBits + r
    BY <1>0, <2>0, Position
  <2>2. Bit(Bytes(v), i) <=> r \in Bytes(v)[q]
    BY DEF Bit
  <2> HIDE DEF q, r
  <2>3. q \in 0 .. IntBytes - 1
    <3>1. i < IntBytes * ByteBits
      BY <1>0
    <3> QED
      BY <1>0, <2>0, <3>1, ByteOf DEF q
  <2>4. Bytes(v)[q] = {b \in 0 .. ByteBits - 1 : OneBit(v, q * ByteBits + b)}
    BY <2>3 DEF Bytes
  <2> QED
    BY <2>1, <2>2, <2>4
<1> QED
  BY <1>1, <1>2

LEMMA ZeroBits == \A i \in 0 .. WordBits - 1 : ~Bit(Bytes(0), i)
<1> TAKE i \in 0 .. WordBits - 1
<1>1. i \in 0 .. WordBits + 1
  BY WidthPositive
<1>2. Pow2[i] \in Nat \ {0}
  BY <1>1, Pow2Grows
<1>3. 0 \div Pow2[i] = 0
  <2>1. 0 = 0 * Pow2[i] + 0 /\ 0 \in 0 .. Pow2[i] - 1
    BY <1>2
  <2> QED
    BY <1>2, <2>1, Coordinates
<1>4. ~OneBit(0, i)
  BY <1>3 DEF OneBit
<1> QED
  BY <1>4, BytesOK

-----------------------------------------------------------------------------
(* The inductive invariant. *)

Field == [kind : {"integer", "ranged", "bits", "advance"}, value : Nat, source : Memory(IntBytes),
          source_bit : Nat, count : Nat, base : Nat]

\* What the writers make of their arguments.
IsField(f) ==
    /\ f \in Field /\ f.source_bit + f.count <= WordBits
    /\ f.kind = "advance" => f.count = 0
    /\ f.kind = "integer" => f.source = Bytes(f.value) /\ f.source_bit = 0 /\ f.base = 0
    /\ f.kind = "ranged" => /\ f.base <= f.value /\ f.source = Bytes(f.value - f.base)
                            /\ f.source_bit = 0 /\ f.value - f.base < Pow2[f.count]

Entry == [field : Field, position : Nat, written : Nat]
Result == [memory : Memory(IntBytes), value : Nat, failed : BOOLEAN]

\* Where the stream is after a field.
End(e) == IF e.field.kind = "advance" THEN advance_to_next_byte(e.position) ELSE e.position + e.written

\* Entry e of a stream of size bits: there was room for it, or it ends at the end.
IsEntry(e, size) ==
    /\ IsField(e.field) /\ e.written <= e.field.count
    /\ End(e) <= size /\ (e.written < e.field.count => e.position + e.written = size)

Short(fs, i) == \E j \in 1 .. i : fs[j].written < fs[j].field.count

\* How far the stream is, after n of its fields.
After(fs, n) == IF n = 0 THEN 0 ELSE End(fs[n])

StreamType ==
    /\ reading \in BOOLEAN /\ error_detected \in BOOLEAN /\ pattern \in Byte
    /\ fields \in Seq(Entry) /\ results \in Seq(Result)
    /\ bit_num \in Nat /\ bit_end \in Nat
    /\ \E E \in Nat : buffer \in Memory(E) /\ bit_end = E * ByteBits

\* The entries lie one after the other.
Chain(fs, size) ==
    \A j \in 1 .. Len(fs) :
        /\ IsEntry(fs[j], size)
        /\ fs[j].position = After(fs, j - 1)
        /\ \A k \in 1 .. j - 1 : End(fs[k]) <= fs[j].position

\* The writer is behind the last field, the reader behind as many as it has read.
PlaceInv ==
    /\ ~reading => results = <<>> /\ bit_num = After(fields, Len(fields))
    /\ reading => /\ Len(results) <= Len(fields) /\ bit_num = After(fields, Len(results))
                  /\ error_detected <=> Short(fields, Len(results))

\* A bit of the buffer that a field covers is the field's, any other is as it was.
Covers(e, i) == e.position <= i /\ i < e.position + e.written
FieldBit(e, i) == Bit(e.field.source, e.field.source_bit + (i - e.position))
Filled(memory, fs, size, byte) ==
    \A i \in 0 .. size - 1 :
        /\ \A j \in 1 .. Len(fs) : Covers(fs[j], i) => (Bit(memory, i) <=> FieldBit(fs[j], i))
        /\ (\A j \in 1 .. Len(fs) : ~Covers(fs[j], i)) => (Bit(memory, i) <=> (i % ByteBits) \in byte)

\* What was read of a field is what was written of it, in memory that is otherwise as it was.
ReadBack(memory, e, around) ==
    \A b \in 0 .. WordBits - 1 :
        Bit(memory, b) <=> IF e.field.source_bit <= b /\ b < e.field.source_bit + e.written
                           THEN Bit(e.field.source, b) ELSE Bit(around, b)

ResultsInv ==
    \A i \in 1 .. Len(results) :
        /\ results[i].value = Value(results[i].memory) + fields[i].field.base
        /\ results[i].failed <=> Short(fields, i)
        /\ ReadBack(results[i].memory, fields[i], Destination(fields[i].field))

StreamInv ==
    /\ StreamType /\ PlaceInv /\ ResultsInv
    /\ Chain(fields, bit_end) /\ Filled(buffer, fields, bit_end, pattern)

-----------------------------------------------------------------------------
(* The entries. *)

\* The next byte is the first one that ends no earlier.
LEMMA NextByte ==
    ASSUME NEW bit \in Nat
    PROVE  /\ (bit + ByteBits - 1) \div ByteBits \in Nat
           /\ bit <= ((bit + ByteBits - 1) \div ByteBits) * ByteBits
           /\ \A E \in Nat : bit <= E * ByteBits => (bit + ByteBits - 1) \div ByteBits <= E
<1> DEFINE x == bit + ByteBits - 1
           m == x \div ByteBits
           r == x % ByteBits
<1>0. ByteBits \in Nat \ {0}
  BY WidthPositive
<1>1. x \in Nat /\ x = bit + (ByteBits - 1)
  BY <1>0
<1> HIDE DEF x
<1>2. m \in Nat
  BY <1>0, <1>1, Position
<1>3. r \in 0 .. ByteBits - 1
  BY <1>0, <1>1, Position
<1>4. x = m * ByteBits + r
  BY <1>0, <1>1, Position
<1> HIDE DEF m, r
<1>5. m * ByteBits \in Nat
  BY <1>0, <1>2, Product
<1>6. bit <= m * ByteBits
  BY <1>0, <1>1, <1>3, <1>4, <1>5
<1>7. ASSUME NEW E \in Nat, bit <= E * ByteBits PROVE m <= E
  <2> SUFFICES ASSUME E < m PROVE FALSE
    BY <1>2
  <2>1. E * ByteBits + ByteBits <= m * ByteBits /\ E * ByteBits \in Nat
    BY <1>0, <1>2, Product
  <2> QED
    BY <1>0, <1>1, <1>3, <1>4, <1>5, <1>7, <2>1
<1> QED
  BY <1>2, <1>6, <1>7 DEF m, x

LEMMA AdvanceOK ==
    ASSUME NEW bit \in Nat
    PROVE  /\ advance_to_next_byte(bit) \in Nat /\ bit <= advance_to_next_byte(bit)
           /\ \A E \in Nat : bit <= E * ByteBits => advance_to_next_byte(bit) <= E * ByteBits
<1> DEFINE m == (bit + ByteBits - 1) \div ByteBits
<1>0. ByteBits \in Nat \ {0}
  BY WidthPositive
<1>1. m \in Nat
  BY NextByte
<1>2. bit <= m * ByteBits
  BY NextByte
<1>3. \A E \in Nat : bit <= E * ByteBits => m <= E
  BY NextByte
<1>4. advance_to_next_byte(bit) = m * ByteBits
  BY DEF advance_to_next_byte
<1> HIDE DEF m
<1>5. m * ByteBits \in Nat
  BY <1>0, <1>1, Product
<1>6. ASSUME NEW E \in Nat, bit <= E * ByteBits PROVE m * ByteBits <= E * ByteBits
  <2>1. m <= E
    BY <1>3, <1>6
  <2>2. m < E => m * ByteBits + ByteBits <= E * ByteBits
    BY <1>0, <1>1, Product
  <2>3. E * ByteBits \in Nat
    BY <1>0, Product
  <2>4. m = E => m * ByteBits = E * ByteBits
    OBVIOUS
  <2> QED
    BY <1>0, <1>1, <1>5, <2>1, <2>2, <2>3, <2>4
<1> QED
  BY <1>2, <1>4, <1>5, <1>6

LEMMA EntryEnd ==
    ASSUME NEW e \in Entry, NEW size, IsEntry(e, size)
    PROVE  End(e) \in Nat /\ e.position <= End(e) /\ e.position + e.written <= End(e)
<1>1. e.position \in Nat /\ e.written \in Nat /\ e.written <= e.field.count
  BY DEF Entry, IsEntry
<1>2. CASE e.field.kind = "advance"
  <2>1. e.written = 0
    BY <1>1, <1>2 DEF IsEntry, IsField
  <2>2. End(e) = advance_to_next_byte(e.position)
    BY <1>2 DEF End
  <2> QED
    BY <1>1, <2>1, <2>2, AdvanceOK
<1>3. CASE e.field.kind # "advance"
  <2>1. End(e) = e.position + e.written
    BY <1>3 DEF End
  <2> QED
    BY <1>1, <2>1
<1> QED
  BY <1>2, <1>3

LEMMA Appended ==
    ASSUME NEW T, NEW s \in Seq(T), NEW x \in T
    PROVE  /\ Append(s, x) \in Seq(T) /\ Len(s) \in Nat /\ Len(Append(s, x)) = Len(s) + 1
           /\ \A j \in 1 .. Len(s) : Append(s, x)[j] = s[j]
           /\ Append(s, x)[Len(s) + 1] = x
           /\ \A j \in 1 .. Len(s) : s[j] \in T
  OBVIOUS

\* Every entry ends before the place behind the last one.
LEMMA ChainEnds ==
    ASSUME NEW fs \in Seq(Entry), NEW size, Chain(fs, size), NEW n \in 0 .. Len(fs)
    PROVE  After(fs, n) \in Nat /\ \A k \in 1 .. n : End(fs[k]) <= After(fs, n)
<1>1. \A k \in 1 .. Len(fs) : fs[k] \in Entry /\ IsEntry(fs[k], size)
  BY DEF Chain
<1>2. \A k \in 1 .. Len(fs) : End(fs[k]) \in Nat /\ fs[k].position <= End(fs[k])
  BY <1>1, EntryEnd
<1>3. CASE n = 0
  BY <1>3 DEF After
<1>4. CASE n # 0
  <2>1. n \in 1 .. Len(fs) /\ After(fs, n) = End(fs[n])
    BY <1>4 DEF After
  <2>2. ASSUME NEW k \in 1 .. n PROVE End(fs[k]) <= End(fs[n])
    <3>1. CASE k = n
      BY <1>2, <2>1, <3>1
    <3>2. CASE k # n
      <4>1. k \in 1 .. n - 1 /\ k \in 1 .. Len(fs)
        BY <3>2
      <4>2. End(fs[k]) <= fs[n].position
        BY <2>1, <4>1 DEF Chain
      <4>3. fs[n].position \in Nat
        BY <1>1, <2>1 DEF Entry
      <4> QED
        BY <1>2, <2>1, <4>1, <4>2, <4>3
    <3> QED
      BY <3>1, <3>2
  <2> QED
    BY <1>2, <2>1, <2>2
<1> QED
  BY <1>3, <1>4

LEMMA ChainAppend ==
    ASSUME NEW fs \in Seq(Entry), NEW size \in Nat, Chain(fs, size), NEW e \in Entry,
           IsEntry(e, size), e.position = After(fs, Len(fs))
    PROVE  Chain(Append(fs, e), size)
<1> DEFINE gs == Append(fs, e)
           n == Len(fs)
<1>1. Len(fs) \in Nat /\ Len(gs) = n + 1 /\ (\A j \in 1 .. n : gs[j] = fs[j]) /\ gs[n + 1] = e
  BY Appended
<1> HIDE DEF gs
<1>2. \A j \in 0 .. n : After(gs, j) = After(fs, j)
  BY <1>1 DEF After
<1>3. \A k \in 1 .. n : End(fs[k]) <= e.position
  <2>1. n \in 0 .. Len(fs)
    BY <1>1
  <2> QED
    BY <2>1, ChainEnds
<1>4. ASSUME NEW j \in 1 .. Len(gs)
      PROVE  /\ IsEntry(gs[j], size) /\ gs[j].position = After(gs, j - 1)
             /\ \A k \in 1 .. j - 1 : End(gs[k]) <= gs[j].position
  <2>1. CASE j = n + 1
    <3>1. gs[j] = e /\ j - 1 = n
      BY <1>1, <2>1
    <3>2. After(gs, n) = After(fs, n)
      BY <1>1, <1>2
    <3> QED
      BY <1>1, <1>3, <3>1, <3>2
  <2>2. CASE j # n + 1
    <3>1. j \in 1 .. n /\ gs[j] = fs[j] /\ j - 1 \in 0 .. n
      BY <1>1, <2>2
    <3>2. IsEntry(fs[j], size) /\ fs[j].position = After(fs, j - 1)
      BY <3>1 DEF Chain
    <3>3. \A k \in 1 .. j - 1 : End(fs[k]) <= fs[j].position
      BY <3>1 DEF Chain
    <3>4. \A k \in 1 .. j - 1 : gs[k] = fs[k]
      BY <1>1, <3>1
    <3> QED
      BY <1>2, <3>1, <3>2, <3>3, <3>4
  <2> QED
    BY <2>1, <2>2
<1> QED
  BY <1>4 DEF Chain, gs

\* Bits copied behind every entry are the new entry's and disturb no other.
LEMMA FilledAppend ==
    ASSUME NEW fs \in Seq(Entry), NEW E \in Nat, NEW memory, NEW byte, NEW e \in Entry,
           Chain(fs, E * ByteBits), Filled(memory, fs, E * ByteBits, byte),
           e.position = After(fs, Len(fs)), NEW out,
           \/ e.written = 0 /\ out = memory
           \/ BitsCopied(out, E, memory, e.position, e.field.source, e.field.source_bit, e.written)
    PROVE  Filled(out, Append(fs, e), E * ByteBits, byte)
<1> DEFINE gs == Append(fs, e)
           n == Len(fs)
           size == E * ByteBits
<1>0. size \in Nat
  BY WidthPositive, Product
<1>1. Len(fs) \in Nat /\ Len(gs) = n + 1 /\ (\A j \in 1 .. n : gs[j] = fs[j]) /\ gs[n + 1] = e
      /\ \A j \in 1 .. n : fs[j] \in Entry
  BY Appended
<1>2. e.position \in Nat /\ e.written \in Nat
  BY DEF Entry
<1> HIDE DEF gs
<1>3. \A i \in 0 .. size - 1 :
         Bit(out, i) <=> IF Covers(e, i) THEN FieldBit(e, i) ELSE Bit(memory, i)
  <2> TAKE i \in 0 .. size - 1
  <2>1. CASE e.written = 0 /\ out = memory
    <3>1. ~Covers(e, i)
      BY <1>0, <1>2, <2>1 DEF Covers
    <3> QED
      BY <2>1, <3>1
  <2>2. CASE BitsCopied(out, E, memory, e.position, e.field.source, e.field.source_bit, e.written)
    BY <2>2 DEF BitsCopied, Covers, FieldBit
  <2> QED
    BY <2>1, <2>2
<1>4. \A j \in 1 .. n, i \in 0 .. size - 1 : Covers(fs[j], i) => ~Covers(e, i)
  <2> TAKE j \in 1 .. n, i \in 0 .. size - 1
  <2>1. IsEntry(fs[j], size) /\ fs[j] \in Entry
    BY <1>1 DEF Chain
  <2>2. End(fs[j]) \in Nat /\ fs[j].position + fs[j].written <= End(fs[j])
    BY <2>1, EntryEnd
  <2>3. End(fs[j]) <= e.position
    <3>1. n \in 0 .. Len(fs)
      BY <1>1
    <3> QED
      BY <3>1, ChainEnds
  <2>4. fs[j].position \in Nat /\ fs[j].written \in Nat
    BY <2>1 DEF Entry
  <2> HIDE DEF size
  <2> QED
    BY <1>0, <1>2, <2>2, <2>3, <2>4 DEF Covers
<1>5. ASSUME NEW i \in 0 .. size - 1
      PROVE  /\ \A j \in 1 .. Len(gs) : Covers(gs[j], i) => (Bit(out, i) <=> FieldBit(gs[j], i))
             /\ (\A j \in 1 .. Len(gs) : ~Covers(gs[j], i)) => (Bit(out, i) <=> (i % ByteBits) \in byte)
  <2>0. /\ \A j \in 1 .. n : Covers(fs[j], i) => (Bit(memory, i) <=> FieldBit(fs[j], i))
        /\ (\A j \in 1 .. n : ~Covers(fs[j], i)) => (Bit(memory, i) <=> (i % ByteBits) \in byte)
    BY DEF Filled
  <2>1. ASSUME NEW j \in 1 .. Len(gs), Covers(gs[j], i) PROVE Bit(out, i) <=> FieldBit(gs[j], i)
    <3>1. CASE j = n + 1
      BY <1>1, <1>3, <2>1, <3>1
    <3>2. CASE j # n + 1
      <4>1. j \in 1 .. n /\ gs[j] = fs[j]
        BY <1>1, <3>2
      <4> QED
        BY <1>3, <1>4, <2>0, <2>1, <4>1
    <3> QED
      BY <3>1, <3>2
  <2>2. ASSUME \A j \in 1 .. Len(gs) : ~Covers(gs[j], i) PROVE Bit(out, i) <=> (i % ByteBits) \in byte
    <3>1. ~Covers(e, i)
      <4>1. n + 1 \in 1 .. Len(gs)
        BY <1>1
      <4> QED
        BY <1>1, <2>2, <4>1
    <3>2. \A j \in 1 .. n : ~Covers(fs[j], i)
      <4>1. \A j \in 1 .. n : j \in 1 .. Len(gs)
        BY <1>1
      <4> QED
        BY <1>1, <2>2, <4>1
    <3> QED
      BY <1>3, <2>0, <3>1, <3>2
  <2> QED
    BY <2>1, <2>2
<1> QED
  BY <1>5 DEF Filled, gs

-----------------------------------------------------------------------------
(* What the writers write. *)

LEMMA IntegerField ==
    ASSUME NEW v \in Nat, NEW w \in 0 .. WordBits
    PROVE  IsField(write_integer(v, w)) /\ write_integer(v, w).kind = "integer"
<1> DEFINE f == write_integer(v, w)
<1>1. /\ f.kind = "integer" /\ f.value = v /\ f.source = Bytes(v) /\ f.source_bit = 0
      /\ f.count = w /\ f.base = 0
  BY DEF write_integer
<1>2. w \in Nat /\ w <= WordBits
  BY WidthPositive
<1>3. f \in Field
  BY <1>2, BytesOK DEF write_integer, Field
<1> HIDE DEF f
<1>4. IsField(f)
  BY <1>1, <1>2, <1>3 DEF IsField
<1> QED
  BY <1>1, <1>4 DEF f

LEMMA RangedField ==
    ASSUME NEW r \in Ranges, NEW v \in r.start .. r.end
    PROVE  IsField(write_ranged_uint32(v, r)) /\ write_ranged_uint32(v, r).kind = "ranged"
<1> DEFINE f == write_ranged_uint32(v, r)
           number == (r.end - r.start) + 1
           w == get_next_binary_log(number)
<1>1. r.end \in Nat /\ r.start \in 0 .. r.end /\ r.end - r.start < UintMod - 1
  BY StreamAssumption
<1>2. get_next_binary_log(r.end - r.start + 1) <= WordBits
  BY RangeAssumption
<1>3. UintMod \in Nat \ {0}
  BY UintModPositive
<1>4. number \in Nat /\ 0 < number /\ number < UintMod
  BY <1>1, <1>3
<1>5. number % UintMod = number
  <2> HIDE DEF number
  <2>1. number \in 0 .. UintMod - 1 /\ 0 * UintMod + number = number
    BY <1>3, <1>4
  <2> QED
    BY <1>3, <2>1, Coordinates
<1>6. w \in 0 .. WordBits /\ number - 1 < Pow2[w]
  <2> HIDE DEF number
  <2> QED
    BY <1>2, <1>4, BinaryLogOK DEF number
<1>7. v - r.start \in Nat /\ v \in Nat /\ r.start \in Nat /\ r.start <= v
  BY <1>1
<1>8. v - r.start < Pow2[w]
  <2>1. v - r.start <= number - 1
    BY <1>1
  <2>2. Pow2[w] \in Nat
    <3>1. w \in 0 .. WordBits + 1
      BY <1>6, WidthPositive
    <3> QED
      BY <3>1, Pow2Equations
  <2>3. number - 1 \in Nat
    BY <1>4
  <2> HIDE DEF number, w
  <2> QED
    BY <1>6, <1>7, <2>1, <2>2, <2>3
<1>9. f = [write_integer(v - r.start, w) EXCEPT !.kind = "ranged", !.value = v, !.base = r.start]
  BY <1>5 DEF write_ranged_uint32
<1> HIDE DEF f, w
<1>10. f = [kind |-> "ranged", value |-> v, source |-> Bytes(v - r.start), source_bit |-> 0,
            count |-> w, base |-> r.start]
  BY <1>9 DEF write_integer
<1>11. Bytes(v - r.start) \in Memory(IntBytes)
  BY <1>7, BytesOK
<1>12. w \in Nat /\ w <= WordBits
  BY <1>6, WidthPositive
<1>13. f \in Field
  BY <1>7, <1>10, <1>11, <1>12 DEF Field
<1>14. /\ f.kind = "ranged" /\ f.value = v /\ f.source = Bytes(v - r.start) /\ f.source_bit = 0
       /\ f.count = w /\ f.base = r.start
  BY <1>10
<1>15. IsField(f)
  BY <1>7, <1>8, <1>12, <1>13, <1>14 DEF IsField
<1> QED
  BY <1>14, <1>15 DEF f

LEMMA BitsField ==
    ASSUME NEW m \in Sources, NEW b \in 0 .. ByteBits - 1, NEW n \in 0 .. WordBits - b
    PROVE  IsField(write_bits(m, b, n)) /\ write_bits(m, b, n).kind = "bits"
<1> DEFINE f == write_bits(m, b, n)
<1>0. ByteBits \in Nat \ {0} /\ WordBits \in Nat
  BY WidthPositive
<1>1. f = [kind |-> "bits", value |-> 0, source |-> m, source_bit |-> b, count |-> n, base |-> 0]
  BY DEF write_bits
<1>2. m \in Memory(IntBytes)
  BY StreamAssumption
<1>3. b \in Nat /\ n \in Nat /\ b + n <= WordBits
  BY <1>0
<1> HIDE DEF f
<1>4. f \in Field
  BY <1>1, <1>2, <1>3 DEF Field
<1>5. f.kind = "bits" /\ f.source_bit = b /\ f.count = n
  BY <1>1
<1>6. IsField(f)
  BY <1>3, <1>4, <1>5 DEF IsField
<1> QED
  BY <1>5, <1>6 DEF f

LEMMA AdvanceField == IsField(Advance) /\ Advance.kind = "advance" /\ Advance.count = 0
<1>1. Advance = [kind |-> "advance", value |-> 0, source |-> Bytes(0), source_bit |-> 0, count |-> 0,
                 base |-> 0]
  BY DEF Advance
<1>2. Bytes(0) \in Memory(IntBytes)
  BY BytesOK
<1>3. Advance \in Field
  BY <1>1, <1>2 DEF Field
<1>4. Advance.kind = "advance" /\ Advance.count = 0 /\ Advance.source_bit = 0
  BY <1>1
<1>5. 0 + 0 <= WordBits
  BY WidthPositive
<1>6. IsField(Advance)
  BY <1>3, <1>4, <1>5 DEF IsField
<1> QED
  BY <1>4, <1>6

-----------------------------------------------------------------------------
(* The steps. *)

\* A step that appends an entry at the writer's place keeps the invariant.
LEMMA AppendStep ==
    ASSUME StreamInv, ~reading, UNCHANGED <<reading, bit_end, pattern, results>>,
           NEW e \in Entry, fields' = Append(fields, e), e.position = bit_num,
           IsEntry(e, bit_end), bit_num' = End(e), error_detected' \in BOOLEAN,
           NEW E \in Nat, bit_end = E * ByteBits, buffer \in Memory(E), buffer' \in Memory(E),
           \/ e.written = 0 /\ buffer' = buffer
           \/ BitsCopied(buffer', E, buffer, e.position, e.field.source, e.field.source_bit, e.written)
    PROVE  StreamInv'
<1>0. /\ StreamType /\ PlaceInv /\ Chain(fields, bit_end) /\ Filled(buffer, fields, bit_end, pattern)
  BY DEF StreamInv
<1>1. /\ fields \in Seq(Entry) /\ results \in Seq(Result) /\ bit_end \in Nat /\ pattern \in Byte
      /\ reading \in BOOLEAN
  BY <1>0 DEF StreamType
<1>2. results = <<>> /\ bit_num = After(fields, Len(fields))
  BY <1>0 DEF PlaceInv
<1>3. /\ Append(fields, e) \in Seq(Entry) /\ Len(fields) \in Nat /\ Len(Append(fields, e)) = Len(fields) + 1
      /\ Append(fields, e)[Len(fields) + 1] = e
  BY <1>1, Appended
<1>4. End(e) \in Nat
  BY EntryEnd
<1>5. StreamType'
  BY <1>1, <1>3, <1>4 DEF StreamType
<1>6. PlaceInv'
  <2>1. After(fields', Len(fields')) = End(e)
    BY <1>3 DEF After
  <2> QED
    BY <1>2, <2>1 DEF PlaceInv
<1>7. ResultsInv'
  <2>1. results' = <<>> /\ Len(<<>>) = 0
    BY <1>2
  <2> QED
    BY <2>1 DEF ResultsInv
<1>8. Chain(fields', bit_end')
  <2>1. Chain(Append(fields, e), bit_end)
    BY <1>0, <1>1, <1>2, ChainAppend
  <2> QED
    BY <2>1
<1>9. Filled(buffer', fields', bit_end', pattern')
  <2>1. Chain(fields, E * ByteBits) /\ Filled(buffer, fields, E * ByteBits, pattern)
    BY <1>0
  <2>2. Filled(buffer', Append(fields, e), E * ByteBits, pattern)
    BY <1>1, <1>2, <2>1, FilledAppend
  <2> QED
    BY <2>2
<1> QED
  BY <1>5, <1>6, <1>7, <1>8, <1>9 DEF StreamInv

LEMMA WriterPlace == ASSUME StreamInv, ~reading PROVE bit_num <= bit_end
<1>1. StreamType /\ PlaceInv /\ Chain(fields, bit_end)
  BY DEF StreamInv
<1>2. fields \in Seq(Entry) /\ bit_end \in Nat /\ bit_num = After(fields, Len(fields))
  BY <1>1 DEF StreamType, PlaceInv
<1>3. Len(fields) \in Nat
  BY <1>2
<1>4. CASE Len(fields) = 0
  BY <1>2, <1>4 DEF After
<1>5. CASE Len(fields) # 0
  <2>1. Len(fields) \in 1 .. Len(fields)
    BY <1>3, <1>5
  <2>2. IsEntry(fields[Len(fields)], bit_end)
    BY <1>1, <2>1 DEF Chain
  <2>3. After(fields, Len(fields)) = End(fields[Len(fields)])
    BY <1>5 DEF After
  <2> QED
    BY <1>2, <2>2, <2>3 DEF IsEntry
<1> QED
  BY <1>4, <1>5

LEMMA WriteBitsStep ==
    ASSUME StreamInv, ~reading, UNCHANGED <<reading, bit_end, pattern, results>>,
           NEW f, IsField(f), f.kind # "advance", _write_bits(f)
    PROVE  StreamInv'
<1> DEFINE n == Room(f.count)
           e == [field |-> f, position |-> bit_num, written |-> n]
<1>0. StreamType /\ PlaceInv /\ Chain(fields, bit_end)
  BY DEF StreamInv
<1>1. /\ fields \in Seq(Entry) /\ bit_end \in Nat /\ bit_num \in Nat /\ error_detected \in BOOLEAN
  BY <1>0 DEF StreamType
<1>2. PICK E \in Nat : buffer \in Memory(E) /\ bit_end = E * ByteBits
  BY <1>0 DEF StreamType
<1>4. bit_num <= bit_end
  BY WriterPlace
<1>5. f \in Field /\ f.count \in Nat /\ f.source_bit \in Nat /\ f.source \in Memory(IntBytes)
      /\ f.source_bit + f.count <= WordBits
  BY DEF IsField, Field
<1>6. /\ n \in Nat /\ n <= f.count /\ bit_num + n <= bit_end
      /\ n < f.count => bit_num + n = bit_end
  BY <1>1, <1>4, <1>5 DEF Room
<1>7. /\ buffer' = IF n = 0 THEN buffer ELSE _copy_bits(buffer, bit_num, f.source, f.source_bit, n)
      /\ bit_num' = bit_num + n
      /\ error_detected' = (error_detected \/ n < f.count)
      /\ fields' = Append(fields, e)
  BY DEF _write_bits
<1> HIDE DEF n
<1>8. e \in Entry /\ e.field = f /\ e.position = bit_num /\ e.written = n
  BY <1>1, <1>5, <1>6 DEF Entry
<1> HIDE DEF e
<1>9. End(e) = bit_num + n
  BY <1>8 DEF End
<1>10. IsEntry(e, bit_end)
  BY <1>6, <1>8, <1>9 DEF IsEntry
<1>11. error_detected' \in BOOLEAN
  BY <1>7
<1>12. \/ e.written = 0 /\ buffer' = buffer
       \/ BitsCopied(buffer', E, buffer, e.position, e.field.source, e.field.source_bit, e.written)
  <2>1. CASE n = 0
    BY <1>7, <1>8, <2>1
  <2>2. CASE n # 0
    <3>1. buffer' = _copy_bits(buffer, bit_num, f.source, f.source_bit, n)
      BY <1>7, <2>2
    <3>2. n \in Nat \ {0} /\ IntBytes \in Nat /\ bit_num + n <= E * ByteBits
      BY <1>2, <1>6, <2>2, WidthPositive
    <3>3. f.source_bit + n <= IntBytes * ByteBits
      <4>1. f.source_bit + n <= WordBits /\ WordBits \in Nat
        BY <1>5, <1>6, WidthPositive
      <4> QED
        BY <4>1 DEF WordBits
    <3>4. BitsCopied(_copy_bits(buffer, bit_num, f.source, f.source_bit, n), E, buffer, bit_num,
                     f.source, f.source_bit, n)
      BY <1>1, <1>2, <1>5, <3>2, <3>3, CopyBitsOK
    <3> QED
      BY <1>8, <3>1, <3>4
  <2> QED
    BY <2>1, <2>2
<1>13. buffer' \in Memory(E)
  BY <1>2, <1>12 DEF BitsCopied
<1>14. bit_num' = End(e)
  BY <1>7, <1>9
<1> QED
  BY <1>2, <1>7, <1>8, <1>10, <1>11, <1>12, <1>13, <1>14, AppendStep

LEMMA AdvanceStep ==
    ASSUME StreamInv, ~reading, UNCHANGED <<reading, bit_end, pattern, results>>,
           bit_num' = advance_to_next_byte(bit_num),
           fields' = Append(fields, [field |-> Advance, position |-> bit_num, written |-> 0]),
           UNCHANGED <<buffer, error_detected>>
    PROVE  StreamInv'
<1> DEFINE e == [field |-> Advance, position |-> bit_num, written |-> 0]
<1>0. StreamType /\ PlaceInv /\ Chain(fields, bit_end)
  BY DEF StreamInv
<1>1. /\ fields \in Seq(Entry) /\ bit_end \in Nat /\ bit_num \in Nat /\ error_detected \in BOOLEAN
  BY <1>0 DEF StreamType
<1>2. PICK E \in Nat : buffer \in Memory(E) /\ bit_end = E * ByteBits
  BY <1>0 DEF StreamType
<1>4. bit_num <= bit_end
  BY WriterPlace
<1>5. Advance \in Field
  BY AdvanceField DEF IsField
<1>6. e \in Entry /\ e.field = Advance /\ e.position = bit_num /\ e.written = 0
  BY <1>1, <1>5 DEF Entry
<1>7. fields' = Append(fields, e)
  OBVIOUS
<1> HIDE DEF e
<1>8. End(e) = advance_to_next_byte(bit_num)
  BY <1>6, AdvanceField DEF End
<1>9. End(e) <= bit_end
  BY <1>1, <1>2, <1>4, <1>8, AdvanceOK
<1>10. IsEntry(e, bit_end)
  BY <1>6, <1>9, AdvanceField DEF IsEntry
<1>11. bit_num' = End(e) /\ error_detected' \in BOOLEAN /\ buffer' \in Memory(E)
  BY <1>1, <1>2, <1>8
<1> QED
  BY <1>2, <1>6, <1>7, <1>10, <1>11, AppendStep

LEMMA WriteStep == ASSUME StreamInv, Write PROVE StreamInv'
<1>1. ~reading /\ UNCHANGED <<reading, bit_end, pattern, results>>
  BY DEF Write
<1>2. \/ \E v \in Values, w \in 0 .. WordBits : _write_bits(write_integer(v, w))
      \/ \E r \in Ranges : \E v \in r.start .. r.end : _write_bits(write_ranged_uint32(v, r))
      \/ \E m \in Sources, b \in 0 .. ByteBits - 1 : \E n \in 0 .. WordBits - b :
            _write_bits(write_bits(m, b, n))
      \/ /\ bit_num' = advance_to_next_byte(bit_num)
         /\ fields' = Append(fields, [field |-> Advance, position |-> bit_num, written |-> 0])
         /\ UNCHANGED <<buffer, error_detected>>
  BY DEF Write
<1>3. ASSUME NEW f, IsField(f), f.kind # "advance", _write_bits(f) PROVE StreamInv'
  BY <1>1, <1>3, WriteBitsStep
<1>4. ASSUME NEW v \in Values, NEW w \in 0 .. WordBits, _write_bits(write_integer(v, w))
      PROVE  StreamInv'
  <2>1. v \in Nat
    BY StreamAssumption, UintModPositive
  <2>2. IsField(write_integer(v, w)) /\ write_integer(v, w).kind # "advance"
    BY <2>1, IntegerField
  <2> QED
    BY <1>3, <1>4, <2>2
<1>5. ASSUME NEW r \in Ranges, NEW v \in r.start .. r.end, _write_bits(write_ranged_uint32(v, r))
      PROVE  StreamInv'
  <2>1. IsField(write_ranged_uint32(v, r)) /\ write_ranged_uint32(v, r).kind # "advance"
    BY RangedField
  <2> QED
    BY <1>3, <1>5, <2>1
<1>6. ASSUME NEW m \in Sources, NEW b \in 0 .. ByteBits - 1, NEW n \in 0 .. WordBits - b,
             _write_bits(write_bits(m, b, n))
      PROVE  StreamInv'
  <2>1. IsField(write_bits(m, b, n)) /\ write_bits(m, b, n).kind # "advance"
    BY BitsField
  <2> QED
    BY <1>3, <1>6, <2>1
<1>7. ASSUME /\ bit_num' = advance_to_next_byte(bit_num)
             /\ fields' = Append(fields, [field |-> Advance, position |-> bit_num, written |-> 0])
             /\ UNCHANGED <<buffer, error_detected>>
      PROVE  StreamInv'
  BY <1>1, <1>7, AdvanceStep
<1> QED
  BY <1>2, <1>4, <1>5, <1>6, <1>7

\* Bytes behind the last one with a bit of a field are not sent.
LEMMA SendStep == ASSUME StreamInv, Send PROVE StreamInv'
<1> DEFINE m == get_next_byte_position
           size == m * ByteBits
<1>0. /\ StreamType /\ PlaceInv /\ Chain(fields, bit_end) /\ Filled(buffer, fields, bit_end, pattern)
  BY DEF StreamInv
<1>1. ByteBits \in Nat \ {0}
  BY WidthPositive
<1>2. /\ fields \in Seq(Entry) /\ bit_end \in Nat /\ bit_num \in Nat /\ results \in Seq(Result)
      /\ pattern \in Byte
  BY <1>0 DEF StreamType
<1>3. PICK E \in Nat : buffer \in Memory(E) /\ bit_end = E * ByteBits
  BY <1>0 DEF StreamType
<1>4. ~reading /\ bit_num = After(fields, Len(fields)) /\ results = <<>> /\ bit_num <= bit_end
  <2>1. ~reading
    BY DEF Send
  <2> QED
    BY <1>0, <2>1, WriterPlace DEF PlaceInv
<1>5. m \in Nat
  BY <1>2, NextByte DEF get_next_byte_position
<1>6. bit_num <= m * ByteBits
  BY <1>2, NextByte DEF get_next_byte_position
<1>7. m <= E
  BY <1>2, <1>3, <1>4, NextByte DEF get_next_byte_position
<1>8. /\ reading' = TRUE /\ buffer' = [i \in 0 .. m - 1 |-> buffer[i]]
      /\ bit_num' = 0 /\ bit_end' = size /\ error_detected' = FALSE
      /\ pattern' = pattern /\ fields' = fields /\ results' = results
  BY DEF Send
<1> HIDE DEF m
<1>9. size \in Nat /\ size <= bit_end
  <2>1. size \in Nat
    BY <1>1, <1>5, Product
  <2>2. m < E => size + ByteBits <= E * ByteBits
    BY <1>1, <1>5, Product
  <2>3. m = E => size = E * ByteBits
    OBVIOUS
  <2> HIDE DEF size
  <2> QED
    BY <1>1, <1>2, <1>3, <1>5, <1>7, <2>1, <2>2, <2>3
<1>10. buffer' \in Memory(m)
  <2>1. \A i \in 0 .. m - 1 : buffer[i] \in Byte
    BY <1>3, <1>5, <1>7 DEF Memory
  <2> QED
    BY <1>8, <2>1 DEF Memory
<1>11. StreamType'
  BY <1>2, <1>5, <1>8, <1>9, <1>10 DEF StreamType
<1>12. Len(results) = 0
  BY <1>4
<1>13. PlaceInv'
  <2>1. After(fields, 0) = 0 /\ ~Short(fields, 0)
    BY DEF After, Short
  <2>2. 0 <= Len(fields)
    BY <1>2
  <2> QED
    BY <1>8, <1>12, <2>1, <2>2 DEF PlaceInv
<1>14. ResultsInv'
  BY <1>8, <1>12 DEF ResultsInv
<1>15. Chain(fields, size)
  <2>1. ASSUME NEW j \in 1 .. Len(fields) PROVE IsEntry(fields[j], size)
    <3>1. IsEntry(fields[j], bit_end) /\ fields[j] \in Entry
      BY <1>0, <1>2 DEF Chain
    <3>2. End(fields[j]) \in Nat /\ fields[j].position + fields[j].written <= End(fields[j])
      BY <3>1, EntryEnd
    <3>3. End(fields[j]) <= bit_num
      <4>1. Len(fields) \in 0 .. Len(fields)
        BY <1>2
      <4> QED
        BY <1>0, <1>2, <1>4, <4>1, ChainEnds
    <3>4. fields[j].position \in Nat /\ fields[j].written \in Nat
      BY <3>1 DEF Entry
    <3>5. End(fields[j]) <= size
      BY <1>2, <1>6, <1>9, <3>2, <3>3
    <3>6. fields[j].written < fields[j].field.count => fields[j].position + fields[j].written = bit_end
      BY <3>1 DEF IsEntry
    <3> HIDE DEF size
    <3>7. fields[j].position + fields[j].written = bit_end => fields[j].position + fields[j].written = size
      BY <1>2, <1>9, <3>2, <3>4, <3>5
    <3> QED
      BY <3>1, <3>5, <3>6, <3>7 DEF IsEntry
  <2>2. \A j \in 1 .. Len(fields) : /\ fields[j].position = After(fields, j - 1)
                                    /\ \A k \in 1 .. j - 1 : End(fields[k]) <= fields[j].position
    BY <1>0 DEF Chain
  <2> HIDE DEF size
  <2> QED
    BY <2>1, <2>2 DEF Chain
<1>16. \A i \in 0 .. size - 1 : Bit(buffer', i) <=> Bit(buffer, i)
  <2> TAKE i \in 0 .. size - 1
  <2> DEFINE q == i \div ByteBits
             r == i % ByteBits
  <2>0. i \in Nat
    BY <1>9
  <2>1. (Bit(buffer, i) <=> r \in buffer[q]) /\ (Bit(buffer', i) <=> r \in buffer'[q])
    BY DEF Bit
  <2>2. i < m * ByteBits
    BY <1>9
  <2>3. q \in 0 .. m - 1
    BY <1>1, <1>5, <2>0, <2>2, ByteOf
  <2> HIDE DEF q, r
  <2>4. buffer'[q] = buffer[q]
    BY <1>8, <2>3
  <2> QED
    BY <2>1, <2>4
<1>17. Filled(buffer', fields, size, pattern)
  <2>1. \A i \in 0 .. size - 1 : i \in 0 .. bit_end - 1
    <3> HIDE DEF size
    <3> QED
      BY <1>2, <1>9
  <2> HIDE DEF size
  <2> QED
    BY <1>0, <1>16, <2>1 DEF Filled
<1>18. Chain(fields, bit_end)' /\ Filled(buffer, fields, bit_end, pattern)'
  BY <1>8, <1>15, <1>17
<1> QED
  BY <1>11, <1>13, <1>14, <1>18 DEF StreamInv

LEMMA DestinationType ==
    ASSUME StreamInv, NEW f PROVE Destination(f) \in Memory(IntBytes)
<1>1. pattern \in Byte
  BY DEF StreamInv, StreamType
<1>2. Bytes(0) \in Memory(IntBytes)
  BY BytesOK
<1>3. [i \in 0 .. IntBytes - 1 |-> pattern] \in Memory(IntBytes)
  BY <1>1 DEF Memory
<1> QED
  BY <1>2, <1>3 DEF Destination

\* The reader is where the writer was, and has room for what was written.
LEMMA ReaderPlace ==
    ASSUME StreamInv, reading, Len(results) < Len(fields),
           NEW e, e = fields[Len(results) + 1]
    PROVE  /\ e \in Entry /\ IsEntry(e, bit_end) /\ Len(results) + 1 \in 1 .. Len(fields)
           /\ bit_num = e.position /\ Room(e.field.count) = e.written
<1>1. /\ StreamType /\ PlaceInv /\ Chain(fields, bit_end)
  BY DEF StreamInv
<1>2. /\ fields \in Seq(Entry) /\ results \in Seq(Result) /\ bit_end \in Nat
  BY <1>1 DEF StreamType
<1>3. Len(results) + 1 \in 1 .. Len(fields) /\ (Len(results) + 1) - 1 = Len(results)
  BY <1>2
<1>4. e \in Entry /\ IsEntry(e, bit_end) /\ e.position = After(fields, Len(results))
  BY <1>1, <1>2, <1>3 DEF Chain
<1>5. bit_num = e.position
  BY <1>1, <1>4 DEF PlaceInv
<1>6. e.position \in Nat /\ e.written \in Nat /\ e.field \in Field
  BY <1>4 DEF Entry
<1>7. e.field.count \in Nat
  BY <1>6 DEF Field
<1>8. e.position + e.written <= bit_end
  BY <1>2, <1>4, <1>6, EntryEnd DEF IsEntry
<1>9. e.written <= e.field.count /\ (e.written < e.field.count => e.position + e.written = bit_end)
  BY <1>4 DEF IsEntry
<1>10. Room(e.field.count) = e.written
  BY <1>2, <1>5, <1>6, <1>7, <1>8, <1>9 DEF Room
<1> QED
  BY <1>3, <1>4, <1>5, <1>10

LEMMA Offset ==
    ASSUME NEW p \in Nat, NEW s \in Nat, NEW b \in Nat, NEW n \in Nat, NEW size \in Nat,
           s <= b, b < s + n, p + n <= size
    PROVE  /\ p + (b - s) \in 0 .. size - 1 /\ p <= p + (b - s) /\ p + (b - s) < p + n
           /\ s + ((p + (b - s)) - p) = b
  OBVIOUS

LEMMA ReadBits ==
    ASSUME StreamInv, NEW e \in Entry, IsEntry(e, bit_end), NEW j \in 1 .. Len(fields), e = fields[j],
           NEW dest, dest = IF e.written = 0 THEN Destination(e.field)
                            ELSE _copy_bits(Destination(e.field), e.field.source_bit, buffer,
                                            e.position, e.written)
    PROVE  dest \in Memory(IntBytes) /\ ReadBack(dest, e, Destination(e.field))
<1> DEFINE f == e.field
           n == e.written
           around == Destination(f)
<1>0. ByteBits \in Nat \ {0} /\ IntBytes \in Nat \ {0} /\ WordBits \in Nat /\ WordBits = IntBytes * ByteBits
  BY WidthPositive DEF WordBits
<1>1. e.position \in Nat /\ n \in Nat /\ f \in Field
  BY DEF Entry
<1>2. f.count \in Nat /\ f.source_bit \in Nat /\ f.source_bit + f.count <= WordBits /\ n <= f.count
  BY <1>1 DEF Field, IsEntry, IsField
<1>3. around \in Memory(IntBytes)
  BY DestinationType
<1>4. CASE n = 0
  <2>1. dest = around
    BY <1>4
  <2>2. \A b \in 0 .. WordBits - 1 : ~(f.source_bit <= b /\ b < f.source_bit + n)
    BY <1>0, <1>2, <1>4
  <2> QED
    BY <1>3, <2>1, <2>2 DEF ReadBack
<1>5. CASE n # 0
  <2>1. dest = _copy_bits(around, f.source_bit, buffer, e.position, n)
    BY <1>5
  <2>2. StreamType /\ Filled(buffer, fields, bit_end, pattern)
    BY DEF StreamInv
  <2>3. PICK E \in Nat : buffer \in Memory(E) /\ bit_end = E * ByteBits
    BY <2>2 DEF StreamType
  <2>4. bit_end \in Nat
    BY <2>2 DEF StreamType
  <2>5. e.position + n <= bit_end
    BY <1>1, <2>4, EntryEnd DEF IsEntry
  <2>6. n \in Nat \ {0} /\ f.source_bit + n <= IntBytes * ByteBits /\ e.position + n <= E * ByteBits
    BY <1>0, <1>1, <1>2, <1>5, <2>3, <2>5
  <2> HIDE DEF around, f, n
  <2>7. BitsCopied(dest, IntBytes, around, f.source_bit, buffer, e.position, n)
    BY <1>0, <1>1, <1>2, <1>3, <2>1, <2>3, <2>6, CopyBitsOK
  <2>8. dest \in Memory(IntBytes)
    BY <2>7 DEF BitsCopied
  <2>9. ASSUME NEW b \in 0 .. WordBits - 1
        PROVE  Bit(dest, b) <=> IF f.source_bit <= b /\ b < f.source_bit + n
                                THEN Bit(f.source, b) ELSE Bit(around, b)
    <3>0. b \in Nat
      BY <1>0
    <3>1. Bit(dest, b) <=> IF f.source_bit <= b /\ b < f.source_bit + n
                           THEN Bit(buffer, e.position + (b - f.source_bit)) ELSE Bit(around, b)
      BY <1>0, <2>7 DEF BitsCopied
    <3>2. CASE f.source_bit <= b /\ b < f.source_bit + n
      <4> DEFINE i == e.position + (b - f.source_bit)
      <4>1. /\ i \in 0 .. bit_end - 1 /\ e.position <= i /\ i < e.position + n
            /\ f.source_bit + (i - e.position) = b
        <5>1. e.position \in Nat /\ f.source_bit \in Nat /\ n \in Nat
          BY <1>1, <1>2
        <5>2. f.source_bit <= b /\ b < f.source_bit + n /\ e.position + n <= bit_end
          BY <2>5, <3>2
        <5> DEFINE p == e.position
                   s == f.source_bit
                   size == bit_end
        <5>3. p \in Nat /\ s \in Nat /\ size \in Nat /\ s <= b /\ b < s + n /\ p + n <= size
          BY <2>4, <5>1, <5>2
        <5> HIDE DEF p, s, size
        <5>4. /\ p + (b - s) \in 0 .. size - 1 /\ p <= p + (b - s) /\ p + (b - s) < p + n
              /\ s + ((p + (b - s)) - p) = b
          BY <3>0, <5>1, <5>3, Offset
        <5> QED
          BY <5>4 DEF p, s, size
      <4> HIDE DEF i
      <4>2. Covers(e, i)
        BY <4>1 DEF Covers, n
      <4>3. Bit(buffer, i) <=> FieldBit(e, i)
        BY <2>2, <4>1, <4>2 DEF Filled
      <4>4. Bit(buffer, i) <=> Bit(f.source, b)
        BY <4>1, <4>3 DEF FieldBit, f
      <4> QED
        BY <3>1, <3>2, <4>4 DEF i
    <3>3. CASE ~(f.source_bit <= b /\ b < f.source_bit + n)
      BY <3>1, <3>3
    <3> QED
      BY <3>2, <3>3
  <2> QED
    BY <2>8, <2>9 DEF ReadBack, around, f, n
<1> QED
  BY <1>4, <1>5

LEMMA ReadStep == ASSUME StreamInv, Read PROVE StreamInv'
<1> DEFINE k == Len(results)
           e == fields[k + 1]
           f == e.field
           n == Room(f.count)
           dest == IF n = 0 THEN Destination(f)
                   ELSE _copy_bits(Destination(f), f.source_bit, buffer, bit_num, n)
           x == [memory |-> dest, value |-> Value(dest) + f.base, failed |-> error_detected']
<1>0. /\ StreamType /\ PlaceInv /\ ResultsInv /\ Chain(fields, bit_end)
      /\ Filled(buffer, fields, bit_end, pattern)
  BY DEF StreamInv
<1>1. /\ fields \in Seq(Entry) /\ bit_end \in Nat /\ bit_num \in Nat /\ results \in Seq(Result)
      /\ pattern \in Byte /\ error_detected \in BOOLEAN
  BY <1>0 DEF StreamType
<1>2. /\ reading /\ k < Len(fields)
      /\ bit_num' = IF f.kind = "advance" THEN advance_to_next_byte(bit_num) ELSE bit_num + n
      /\ error_detected' = (error_detected \/ n < f.count)
      /\ results' = Append(results, x)
      /\ UNCHANGED <<reading, buffer, bit_end, pattern, fields>>
  BY DEF Read
<1>3. e \in Entry /\ IsEntry(e, bit_end) /\ k + 1 \in 1 .. Len(fields) /\ bit_num = e.position /\ n = e.written
  <2> HIDE DEF e
  <2> QED
    BY <1>2, ReaderPlace DEF e
<1>4. k \in Nat /\ k <= Len(fields)
  BY <1>1, <1>3
<1> HIDE DEF n
<1>5. dest \in Memory(IntBytes) /\ ReadBack(dest, e, Destination(f))
  <2>1. dest = IF e.written = 0 THEN Destination(e.field)
               ELSE _copy_bits(Destination(e.field), e.field.source_bit, buffer, e.position, e.written)
    BY <1>3
  <2> HIDE DEF dest, e
  <2> QED
    BY <1>3, <2>1, ReadBits DEF e
<1> HIDE DEF dest
<1>6. Value(dest) \in Nat
  BY ValueOK
<1>7. f \in Field /\ f.base \in Nat
  BY <1>3 DEF Entry, Field
<1>8. x \in Result /\ x.memory = dest /\ x.value = Value(dest) + f.base /\ x.failed = error_detected'
  <2>1. error_detected' \in BOOLEAN
    BY <1>2
  <2>2. Value(dest) + f.base \in Nat
    BY <1>6, <1>7
  <2> HIDE DEF f
  <2> QED
    BY <1>5, <2>1, <2>2 DEF Result
<1>9. End(e) = bit_num' /\ End(e) \in Nat
  <2>1. End(e) = bit_num'
    BY <1>2, <1>3 DEF End
  <2> HIDE DEF e
  <2> QED
    BY <1>3, <2>1, EntryEnd
<1> HIDE DEF x
<1>10. /\ results' \in Seq(Result) /\ Len(results') = k + 1 /\ (\A i \in 1 .. k : results'[i] = results[i])
       /\ results'[k + 1] = x
  BY <1>1, <1>2, <1>8, Appended
<1>11. StreamType'
  <2>1. bit_num' \in Nat
    BY <1>9
  <2>2. error_detected' \in BOOLEAN
    BY <1>2
  <2> QED
    BY <1>0, <1>2, <1>10, <2>1, <2>2 DEF StreamType
<1>12. error_detected' <=> Short(fields, k + 1)
  <2>1. error_detected <=> Short(fields, k)
    BY <1>0, <1>2 DEF PlaceInv
  <2>2. Short(fields, k + 1) <=> Short(fields, k) \/ e.written < e.field.count
    <3>1. \A j : j \in 1 .. k + 1 <=> (j \in 1 .. k \/ j = k + 1)
      BY <1>4
    <3> QED
      BY <3>1 DEF Short
  <2> QED
    BY <1>2, <1>3, <2>1, <2>2
<1>13. PlaceInv'
  <2>1. After(fields, k + 1) = End(e)
    BY <1>4 DEF After
  <2>2. k + 1 <= Len(fields)
    BY <1>3, <1>4
  <2> HIDE DEF e
  <2> QED
    BY <1>2, <1>9, <1>10, <1>12, <2>1, <2>2 DEF PlaceInv
<1>14. ASSUME NEW i \in 1 .. k + 1
       PROVE  /\ results'[i].value = Value(results'[i].memory) + fields[i].field.base
              /\ results'[i].failed <=> Short(fields, i)
              /\ ReadBack(results'[i].memory, fields[i], Destination(fields[i].field))
  <2>1. CASE i = k + 1
    BY <1>5, <1>8, <1>10, <1>12, <2>1
  <2>2. CASE i # k + 1
    <3>1. i \in 1 .. k /\ results'[i] = results[i]
      BY <1>4, <1>10, <2>2
    <3> QED
      BY <1>0, <3>1 DEF ResultsInv
  <2> QED
    BY <2>1, <2>2
<1>15. ResultsInv'
  <2>1. \A g : Destination(g)' = Destination(g)
    BY <1>2 DEF Destination
  <2> QED
    BY <1>2, <1>10, <1>14, <2>1 DEF ResultsInv
<1>16. Chain(fields, bit_end)' /\ Filled(buffer, fields, bit_end, pattern)'
  BY <1>0, <1>2
<1> QED
  BY <1>11, <1>13, <1>15, <1>16 DEF StreamInv

LEMMA InitStream == ASSUME Init PROVE StreamInv
<1>0. ByteBits \in Nat \ {0}
  BY WidthPositive
<1>1. BufferBytes \in Nat /\ Patterns \subseteq Byte
  BY StreamAssumption
<1>2. /\ pattern \in Byte /\ buffer = [i \in 0 .. BufferBytes - 1 |-> pattern] /\ reading = FALSE
      /\ bit_num = 0 /\ bit_end = BufferBytes * ByteBits /\ error_detected = FALSE
      /\ fields = <<>> /\ results = <<>>
  BY <1>1 DEF Init
<1>3. Len(fields) = 0 /\ Len(results) = 0 /\ fields \in Seq(Entry) /\ results \in Seq(Result)
  BY <1>2
<1>4. buffer \in Memory(BufferBytes)
  BY <1>2 DEF Memory
<1>5. bit_end \in Nat
  BY <1>0, <1>1, <1>2, Product
<1>6. StreamType
  BY <1>1, <1>2, <1>3, <1>4, <1>5 DEF StreamType
<1>7. PlaceInv
  BY <1>2, <1>3 DEF PlaceInv, After
<1>8. ResultsInv /\ Chain(fields, bit_end)
  BY <1>3 DEF ResultsInv, Chain
<1>9. Filled(buffer, fields, bit_end, pattern)
  <2>1. ASSUME NEW i \in 0 .. bit_end - 1 PROVE Bit(buffer, i) <=> (i % ByteBits) \in pattern
    <3>1. i \in Nat /\ i < BufferBytes * ByteBits
      BY <1>2, <1>5
    <3>2. i \div ByteBits \in 0 .. BufferBytes - 1
      BY <1>0, <1>1, <3>1, ByteOf
    <3> QED
      BY <1>2, <3>2 DEF Bit
  <2> QED
    BY <1>3, <2>1 DEF Filled
<1> QED
  BY <1>6, <1>7, <1>8, <1>9 DEF StreamInv

\* The invariant is inductive.
THEOREM StreamInvariant == Spec => []StreamInv
<1>1. Init => StreamInv
  BY InitStream
<1>2. StreamInv /\ [Next]_vars => StreamInv'
  <2> SUFFICES ASSUME StreamInv, [Next]_vars PROVE StreamInv'
    OBVIOUS
  <2>1. CASE Write
    BY <2>1, WriteStep
  <2>2. CASE Send
    BY <2>2, SendStep
  <2>3. CASE Read
    BY <2>3, ReadStep
  <2>4. CASE UNCHANGED vars
    <3>1. /\ UNCHANGED <<reading, buffer, bit_num, bit_end, error_detected, pattern>>
          /\ fields' = fields /\ results' = results
      BY <2>4 DEF vars
    <3>2. StreamType' /\ PlaceInv'
      BY <3>1 DEF StreamInv, StreamType, PlaceInv
    <3>3. ResultsInv'
      <4>1. \A g : Destination(g)' = Destination(g)
        BY <3>1 DEF Destination
      <4> QED
        BY <3>1, <4>1 DEF StreamInv, ResultsInv
    <3>4. Chain(fields, bit_end)' /\ Filled(buffer, fields, bit_end, pattern)'
      BY <3>1 DEF StreamInv
    <3> QED
      BY <3>2, <3>3, <3>4 DEF StreamInv
  <2> QED
    BY <2>1, <2>2, <2>3, <2>4 DEF Next
<1> QED
  BY <1>1, <1>2, PTL DEF Spec

\* Every bit of the buffer is the one of the field that lies over it, or the one that was
\* there before: _write_bits and the three copies of _copy_bits disturb no neighbour and
\* write nothing behind the end, for every width of a byte, every alignment and length.
THEOREM BufferIsTheFieldsTheorem == Spec => []BufferIsTheFields
<1>1. StreamInv => BufferIsTheFields
  <2> SUFFICES ASSUME StreamInv, NEW i \in 0 .. bit_end - 1
               PROVE  LET writers == {j \in DOMAIN fields :
                            i \in fields[j].position .. fields[j].position + fields[j].written - 1}
                      IN  IF writers = {} THEN Bit(buffer, i) = Bit([k \in DOMAIN buffer |-> pattern], i)
                          ELSE \A j \in writers :
                              Bit(buffer, i) = Bit(fields[j].field.source,
                                                   fields[j].field.source_bit + (i - fields[j].position))
    BY DEF BufferIsTheFields
  <2> DEFINE writers == {j \in DOMAIN fields :
                            i \in fields[j].position .. fields[j].position + fields[j].written - 1}
  <2>1. StreamType /\ Filled(buffer, fields, bit_end, pattern)
    BY DEF StreamInv
  <2>2. fields \in Seq(Entry) /\ bit_end \in Nat
    BY <2>1 DEF StreamType
  <2>3. PICK E \in Nat : buffer \in Memory(E) /\ bit_end = E * ByteBits
    BY <2>1 DEF StreamType
  <2>4. \A j \in 1 .. Len(fields) : j \in writers <=> Covers(fields[j], i)
    <3> TAKE j \in 1 .. Len(fields)
    <3>1. fields[j].position \in Nat /\ fields[j].written \in Nat
      <4>1. fields[j] \in Entry
        BY <2>2
      <4> QED
        BY <4>1 DEF Entry
    <3>2. j \in DOMAIN fields /\ i \in Nat
      BY <2>2
    <3>3. j \in writers <=> i \in fields[j].position .. fields[j].position + fields[j].written - 1
      BY <3>2
    <3> HIDE DEF writers
    <3> QED
      BY <3>1, <3>2, <3>3 DEF Covers
  <2>5. writers \subseteq 1 .. Len(fields)
    BY <2>2
  <2> HIDE DEF writers
  <2>6. CASE writers = {}
    <3>1. Bit(buffer, i) <=> (i % ByteBits) \in pattern
      BY <2>1, <2>4, <2>6 DEF Filled
    <3>2. i \div ByteBits \in DOMAIN buffer
      <4>1. i \div ByteBits \in 0 .. E - 1
        <5>1. i \in Nat /\ i < E * ByteBits
          BY <2>2, <2>3
        <5> QED
          BY <5>1, WidthPositive, ByteOf
      <4> QED
        BY <2>3, <4>1 DEF Memory
    <3>3. Bit([k \in DOMAIN buffer |-> pattern], i) <=> (i % ByteBits) \in pattern
      BY <3>2 DEF Bit
    <3>4. Bit(buffer, i) = Bit([k \in DOMAIN buffer |-> pattern], i)
      BY <3>1, <3>3 DEF Bit
    <3> QED
      BY <2>6, <3>4 DEF writers
  <2>7. CASE writers # {}
    <3>1. ASSUME NEW j \in writers
          PROVE  Bit(buffer, i) = Bit(fields[j].field.source,
                                      fields[j].field.source_bit + (i - fields[j].position))
      <4>1. j \in 1 .. Len(fields) /\ Covers(fields[j], i)
        BY <2>4, <2>5
      <4>2. Bit(buffer, i) <=> FieldBit(fields[j], i)
        BY <2>1, <4>1 DEF Filled
      <4> QED
        BY <4>2 DEF FieldBit, Bit
    <3> QED
      BY <2>7, <3>1 DEF writers
  <2> QED
    BY <2>6, <2>7
<1> QED
  BY <1>1, StreamInvariant, PTL

\* The reader gets an error for the first field that did not fit into the buffer and for
\* every field after it, and for no other: its _bit_end, a whole number of bytes, is
\* never further than the writer's, and at an overrun exactly there.
THEOREM OverrunIsNoticedTheorem == Spec => []OverrunIsNoticed
<1>1. StreamInv => OverrunIsNoticed
  <2> SUFFICES ASSUME StreamInv, NEW i \in DOMAIN results
               PROVE  results[i].failed <=> \E j \in 1 .. i : fields[j].written < fields[j].field.count
    BY DEF OverrunIsNoticed
  <2>1. results \in Seq(Result)
    BY DEF StreamInv, StreamType
  <2>2. i \in 1 .. Len(results)
    BY <2>1
  <2> QED
    BY <2>2 DEF StreamInv, ResultsInv, Short
<1> QED
  BY <1>1, StreamInvariant, PTL

\* What was written is read back, for every width and every range: an integer as its low
\* bits, a ranged value as itself, since get_next_binary_log gives room for the size of
\* the range, and bits of memory in place, with those around them as they were.
THEOREM ReadsWhatWasWrittenTheorem == Spec => []ReadsWhatWasWritten
<1>1. StreamInv => ReadsWhatWasWritten
  <2> SUFFICES ASSUME StreamInv, NEW i \in DOMAIN results, ~results[i].failed
               PROVE  LET f == fields[i].field IN
                      CASE f.kind = "integer" -> results[i].value = f.value % Pow2[f.count]
                        [] f.kind = "ranged" -> results[i].value = f.value
                        [] OTHER -> \A b \in 0 .. WordBits - 1 :
                              Bit(results[i].memory, b) =
                                  IF b \in f.source_bit .. f.source_bit + f.count - 1
                                  THEN Bit(f.source, b) ELSE Bit(Destination(f), b)
    BY DEF ReadsWhatWasWritten
  <2> DEFINE e == fields[i]
             f == e.field
             memory == results[i].memory
  <2>0. WordBits \in Nat
    BY WidthPositive
  <2>1. StreamType /\ PlaceInv /\ ResultsInv /\ Chain(fields, bit_end)
    BY DEF StreamInv
  <2>2. results \in Seq(Result) /\ fields \in Seq(Entry)
    BY <2>1 DEF StreamType
  <2>3. i \in 1 .. Len(results) /\ i \in 1 .. Len(fields)
    <3>1. Len(results) <= Len(fields)
      <4>1. results = <<>> => Len(results) = 0
        OBVIOUS
      <4> QED
        BY <2>1, <2>2, <4>1 DEF PlaceInv
    <3> QED
      BY <2>2, <3>1
  <2>4. e \in Entry /\ IsEntry(e, bit_end)
    BY <2>1, <2>2, <2>3 DEF Chain
  <2>5. /\ results[i].value = Value(memory) + f.base /\ ~Short(fields, i)
        /\ ReadBack(memory, e, Destination(f))
    BY <2>1, <2>3 DEF ResultsInv
  <2>6. e.written \in Nat /\ f \in Field /\ IsField(f)
    BY <2>4 DEF Entry, IsEntry
  <2>7. f.count \in Nat /\ f.source_bit \in Nat /\ f.base \in Nat /\ f.value \in Nat
    BY <2>6 DEF Field
  <2>8. e.written = f.count
    <3>1. ~(e.written < f.count)
      BY <2>3, <2>5 DEF Short
    <3>2. e.written <= f.count
      BY <2>4 DEF IsEntry
    <3> QED
      BY <2>6, <2>7, <3>1, <3>2
  <2> HIDE DEF memory, f, e
  <2>9. \A b \in 0 .. WordBits - 1 :
           Bit(memory, b) <=> IF f.source_bit <= b /\ b < f.source_bit + f.count
                              THEN Bit(f.source, b) ELSE Bit(Destination(f), b)
    BY <2>5, <2>8 DEF ReadBack, f
  <2>10. f.source_bit + f.count <= WordBits
    BY <2>6 DEF IsField
  <2>11. ASSUME NEW v \in Nat, f.source = Bytes(v), f.source_bit = 0, f.kind # "bits"
         PROVE  Value(memory) = v % Pow2[f.count]
    <3>1. f.count \in 0 .. WordBits
      BY <2>0, <2>7, <2>10, <2>11
    <3>2. Destination(f) = Bytes(0)
      BY <2>11 DEF Destination
    <3>3. \A b \in 0 .. WordBits - 1 : Bit(memory, b) <=> (b < f.count /\ OneBit(v, b))
      <4> TAKE b \in 0 .. WordBits - 1
      <4>1. Bit(memory, b) <=> IF b < f.count THEN Bit(Bytes(v), b) ELSE Bit(Bytes(0), b)
        <5>1. (f.source_bit <= b /\ b < f.source_bit + f.count) <=> b < f.count
          BY <2>0, <2>7, <2>11
        <5> QED
          BY <2>9, <2>11, <3>2, <5>1
      <4>2. Bit(Bytes(v), b) <=> OneBit(v, b)
        BY BytesOK
      <4>3. ~Bit(Bytes(0), b)
        BY ZeroBits
      <4> QED
        BY <4>1, <4>2, <4>3
    <3> QED
      BY <3>1, <3>3, ValueOK
  <2>12. CASE f.kind = "integer"
    <3>1. f.source = Bytes(f.value) /\ f.source_bit = 0 /\ f.base = 0
      BY <2>6, <2>12 DEF IsField
    <3>2. Value(memory) = f.value % Pow2[f.count] /\ Value(memory) \in Nat
      BY <2>7, <2>11, <2>12, <3>1, ValueOK
    <3>3. results[i].value = f.value % Pow2[f.count]
      BY <2>5, <3>1, <3>2
    <3> QED
      BY <2>12, <3>3 DEF f, e
  <2>13. CASE f.kind = "ranged"
    <3>1. /\ f.base <= f.value /\ f.source = Bytes(f.value - f.base) /\ f.source_bit = 0
          /\ f.value - f.base < Pow2[f.count]
      BY <2>6, <2>13 DEF IsField
    <3>2. f.value - f.base \in Nat
      BY <2>7, <3>1
    <3>3. Value(memory) = (f.value - f.base) % Pow2[f.count]
      BY <2>11, <2>13, <3>1, <3>2
    <3>4. (f.value - f.base) % Pow2[f.count] = f.value - f.base
      <4> DEFINE v == f.value - f.base
                 p == Pow2[f.count]
      <4>1. f.count \in 0 .. WordBits + 1
        BY <2>0, <2>7, <2>10
      <4>2. p \in Nat \ {0}
        BY <4>1, Pow2Grows
      <4>3. v \in Nat /\ v < p
        BY <3>1, <3>2
      <4> HIDE DEF v, p
      <4>4. v \in 0 .. p - 1 /\ 0 * p + v = v
        BY <4>2, <4>3
      <4>5. (0 * p + v) % p = v
        BY <4>2, <4>4, Coordinates
      <4>6. v % p = v
        BY <4>4, <4>5
      <4> QED
        BY <4>6 DEF v, p
    <3>5. results[i].value = f.value
      BY <2>5, <2>7, <3>2, <3>3, <3>4
    <3> QED
      BY <2>13, <3>5 DEF f, e
  <2>14. CASE f.kind # "integer" /\ f.kind # "ranged"
    <3>1. ASSUME NEW b \in 0 .. WordBits - 1
          PROVE  Bit(memory, b) = IF b \in f.source_bit .. f.source_bit + f.count - 1
                                  THEN Bit(f.source, b) ELSE Bit(Destination(f), b)
      <4>1. b \in f.source_bit .. f.source_bit + f.count - 1
              <=> (f.source_bit <= b /\ b < f.source_bit + f.count)
        BY <2>0, <2>7
      <4>2. Bit(memory, b) <=> IF b \in f.source_bit .. f.source_bit + f.count - 1
                               THEN Bit(f.source, b) ELSE Bit(Destination(f), b)
        BY <2>9, <4>1
      <4> QED
        BY <4>2 DEF Bit
    <3> QED
      BY <2>14, <3>1 DEF f, e, memory
  <2> QED
    BY <2>12, <2>13, <2>14
<1> QED
  BY <1>1, StreamInvariant, PTL
=============================================================================
