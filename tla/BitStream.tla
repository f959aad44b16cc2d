----------------------------- MODULE BitStream -----------------------------
(***************************************************************************)
(* core/bit_stream.h with core/power_two_functions.h: values of any number *)
(* of bits are written one after the other into a buffer, whose bytes are  *)
(* sent and read back field by field.  The copy between two bit positions  *)
(* is translated as it is, with its masks and its sliding word, for bytes  *)
(* of any width: a narrow byte reaches every alignment in few bits.        *)
(*                                                                         *)
(* A byte or a word is the set of the positions of its one bits: & is      *)
(* \cap, | is \cup, a mask is an interval and a shift moves positions.     *)
(*                                                                         *)
(* `more` is the one of bit_stream, which no class overrides: the buffer   *)
(* never grows.  Memory is a function from 0; a read outside it is an      *)
(* error of the evaluation.                                                *)
(***************************************************************************)
EXTENDS Integers, Sequences

CONSTANTS
    ByteBits,            \* bits of a byte, 8 in the code
    IntBytes,            \* bytes of a uint32, 4 in the code
    MantissaBits,        \* significant bits of a float32, 24 in the code
    BufferBytes,         \* the size of the buffer
    Patterns,            \* bytes that fill the buffer before it is used
    Sources,             \* memory that write_bits copies from
    Values,              \* values that write_integer writes
    Ranges,              \* [start, end] of ranged values
    MaxFields            \* bound: fields written

WordBits == IntBytes * ByteBits

\* 2^k, as a function that can be reasoned about.
Pow2[k \in 0 .. WordBits + 1] == IF k = 0 THEN 1 ELSE 2 * Pow2[k - 1]

Byte == SUBSET (0 .. ByteBits - 1)
Memory(n) == [0 .. n - 1 -> Byte]
UintMod == Pow2[WordBits]

ASSUME StreamAssumption ==
    /\ ByteBits \in Nat \ {0} /\ IntBytes \in Nat \ {0} /\ MantissaBits \in Nat \ {0}
    /\ BufferBytes \in Nat /\ MaxFields \in Nat
    /\ Patterns \subseteq Byte /\ Sources \subseteq Memory(IntBytes)
    /\ Values \subseteq 0 .. UintMod - 1
    /\ \A r \in Ranges : /\ r.end \in Nat /\ r.start \in 0 .. r.end
                          /\ r.end - r.start < UintMod - 1

VARIABLES
    reading,             \* has the packet been sent to its reader?
    buffer,              \* _base_ptr
    bit_num,             \* _bit_num
    bit_end,             \* _bit_end
    error_detected,      \* _error_detected
    pattern,             \* history: what the buffer was filled with
    fields,              \* history: the fields written, each with whether it fitted
    results              \* history: what was read back, field by field

vars == <<reading, buffer, bit_num, bit_end, error_detected, pattern, fields, results>>

Init ==
    /\ pattern \in Patterns
    /\ buffer = [i \in 0 .. BufferBytes - 1 |-> pattern]
    /\ reading = FALSE
    /\ bit_num = 0 /\ bit_end = BufferBytes * ByteBits
    /\ error_detected = FALSE
    /\ fields = <<>> /\ results = <<>>
-----------------------------------------------------------------------------
(* _copy_bits: bytes d and s are the first ones, db and sb the bits in them, and n     *)
(* more bytes are written after the first.                                             *)

Mask(k) == 0 .. k - 1
NotByte(x) == Mask(ByteBits) \ x
Up(x, k) == {i + k : i \in x}
Down(x, k) == {i - k : i \in {j \in x : k <= j}}

uint8(x) == x \cap Mask(ByteBits)

\* The last byte keeps what lies above the last bit.
LastByte(dest, d, slider, last_bit) ==
    [dest EXCEPT ![d] = (slider \cap Mask(last_bit + 1)) \cup (@ \cap NotByte(Mask(last_bit + 1)))]

CopyAligned(dest, d, source, s, bit, n, last_bit) ==
    LET first == (dest[d] \cap Mask(bit)) \cup (source[s] \cap NotByte(Mask(bit)))
        moved == [i \in DOMAIN dest |->
                    IF i = d /\ n > 0 THEN first
                    ELSE IF i > d /\ i < d + n THEN source[s + (i - d)] ELSE dest[i]]
    IN  LastByte(moved, d + n, IF n = 0 THEN first ELSE source[s + n], last_bit)

\* The loop: the slider holds up_shift bits that wait for the byte's others.
CopySliding(dest, d, source, s, slider, up_shift, n, last_bit) ==
    LET turn[i \in 0 .. n] ==
            IF i = 0 THEN [dest |-> dest, slider |-> slider]
            ELSE LET full == turn[i - 1].slider \cup Up(source[s + i - 1], up_shift)
                 IN  [dest |-> [turn[i - 1].dest EXCEPT ![d + i - 1] = uint8(full)],
                      slider |-> Down(full, ByteBits)]
        rest == IF last_bit >= up_shift THEN turn[n].slider \cup Up(source[s + n], up_shift)
                ELSE turn[n].slider
    IN  LastByte(turn[n].dest, d + n, rest, last_bit)

\* source_bit < dest_bit: one byte is enough, or the first one goes out by itself.
CopyUp(dest, d, db, source, s, sb, bit_count, n, last_bit) ==
    LET up_shift == db - sb
        shifted == uint8(Up(source[s], up_shift))
        mask == Up(Mask(bit_count), db)
        first == [dest EXCEPT ![d] = (@ \cap Mask(db)) \cup (shifted \cap NotByte(Mask(db)))]
    IN  IF db + bit_count <= ByteBits
        THEN [dest EXCEPT ![d] = (@ \cap NotByte(mask)) \cup (shifted \cap mask)]
        ELSE CopySliding(first, d + 1, source, s + 1, Down(source[s], ByteBits - up_shift),
                         up_shift, n - 1, last_bit)

\* Mutant: one more byte is read only when the last bit is beyond the slider's.
CopyDownShort(dest, d, db, source, s, sb, n, last_bit) ==
    LET down_shift == sb - db
        slider == (dest[d] \cap Mask(db)) \cup (Down(source[s], down_shift) \cap NotByte(Mask(db)))
    IN  IF n = 0 /\ last_bit = ByteBits - down_shift
        THEN LastByte(dest, d, slider, last_bit)
        ELSE CopySliding(dest, d, source, s + 1, slider, ByteBits - down_shift, n, last_bit)

CopyDown(dest, d, db, source, s, sb, n, last_bit) ==
    LET down_shift == sb - db
        slider == (dest[d] \cap Mask(db)) \cup (Down(source[s], down_shift) \cap NotByte(Mask(db)))
    IN  CopySliding(dest, d, source, s + 1, slider, ByteBits - down_shift, n, last_bit)

_copy_bits(dest, dest_bit, source, source_bit, bit_count) ==
    LET d == dest_bit \div ByteBits
        s == source_bit \div ByteBits
        db == dest_bit % ByteBits
        sb == source_bit % ByteBits
        n == (db + bit_count - 1) \div ByteBits
        last_bit == (db + bit_count - 1) % ByteBits
    IN  CASE sb = db -> CopyAligned(dest, d, source, s, sb, n, last_bit)
          [] sb < db -> CopyUp(dest, d, db, source, s, sb, bit_count, n, last_bit)
          [] sb > db -> CopyDown(dest, d, db, source, s, sb, n, last_bit)
-----------------------------------------------------------------------------
(* The fields. *)

\* The bytes of an integer in memory, the lowest first.
OneBit(value, i) == (value \div Pow2[i]) % 2 = 1
Bytes(value) ==
    [i \in 0 .. IntBytes - 1 |-> {b \in 0 .. ByteBits - 1 : OneBit(value, i * ByteBits + b)}]

Bit(memory, i) == i % ByteBits \in memory[i \div ByteBits]
Value(memory) ==
    LET sum[i \in 0 .. WordBits] ==
            IF i = 0 THEN 0 ELSE sum[i - 1] + (IF Bit(memory, i - 1) THEN Pow2[i - 1] ELSE 0)
    IN  sum[WordBits]

is_power_of_2(number) ==
    \A i \in 0 .. WordBits - 1 : ~(OneBit(number, i) /\ OneBit(number - 1, i))

\* The exponent of the number as a float32, which is rounded to the nearest one with
\* MantissaBits bits, to an even one when two are as near.
get_binary_log(value) ==
    LET k == CHOOSE k \in 0 .. WordBits : Pow2[k] <= value /\ value < Pow2[k + 1]
        ulp == Pow2[k + 1 - MantissaBits]
        low == value \div ulp
        up == \/ 2 * (value % ulp) > ulp
              \/ 2 * (value % ulp) = ulp /\ low % 2 = 1
    IN  IF k >= MantissaBits /\ up /\ (low + 1) * ulp = Pow2[k + 1] THEN k + 1 ELSE k

\* Mutant: the logarithm is not rounded up.
get_next_binary_log_down(number) == get_binary_log(number)

get_next_binary_log(number) ==
    get_binary_log(number) + (IF is_power_of_2(number) THEN 0 ELSE 1)

\* float32 rounds the size of a range of nearly all uint32 up to a number of one bit
\* more, and write_ranged_uint32 would copy more bits than a uint32 has.
ASSUME RangeAssumption ==
    \A r \in Ranges : get_next_binary_log(r.end - r.start + 1) <= WordBits

write_integer(value, bit_width) ==
    [kind |-> "integer", value |-> value, source |-> Bytes(value), source_bit |-> 0,
     count |-> bit_width, base |-> 0]

write_ranged_uint32(value, r) ==
    [write_integer(value - r.start, get_next_binary_log((r.end - r.start + 1) % UintMod))
        EXCEPT !.kind = "ranged", !.value = value, !.base = r.start]

write_bits(source, source_bit_num, write_bit_count) ==
    [kind |-> "bits", value |-> 0, source |-> source, source_bit |-> source_bit_num,
     count |-> write_bit_count, base |-> 0]

advance_to_next_byte(bit) == ((bit + ByteBits - 1) \div ByteBits) * ByteBits

\* How much of `count` bits there is room for; less sets the error.
Room(count) == IF count <= bit_end - bit_num THEN count ELSE bit_end - bit_num

\* _write_bits: what there is room for is written before the error is raised.
_write_bits(f) ==
    LET n == Room(f.count) IN
    /\ buffer' = IF n = 0 THEN buffer ELSE _copy_bits(buffer, bit_num, f.source, f.source_bit, n)
    /\ bit_num' = bit_num + n
    /\ error_detected' = (error_detected \/ n < f.count)
    /\ fields' = Append(fields, [field |-> f, position |-> bit_num, written |-> n])

Advance == [kind |-> "advance", value |-> 0, source |-> Bytes(0), source_bit |-> 0, count |-> 0,
            base |-> 0]

Write ==
    /\ ~reading /\ Len(fields) < MaxFields
    /\ \/ \E v \in Values, w \in 0 .. WordBits : _write_bits(write_integer(v, w))
       \/ \E r \in Ranges : \E v \in r.start .. r.end : _write_bits(write_ranged_uint32(v, r))
       \/ \E m \in Sources, b \in 0 .. ByteBits - 1 : \E n \in 0 .. WordBits - b :
            _write_bits(write_bits(m, b, n))
       \/ /\ bit_num' = advance_to_next_byte(bit_num)
          /\ fields' = Append(fields, [field |-> Advance, position |-> bit_num, written |-> 0])
          /\ UNCHANGED <<buffer, error_detected>>
    /\ UNCHANGED <<reading, bit_end, pattern, results>>

\* Mutant: the last byte is sent only when it is full.
get_byte_position == bit_num \div ByteBits

get_next_byte_position == (bit_num + ByteBits - 1) \div ByteBits

\* packet_stream::send_to and, at the other end, recv_from: the stream is read from its
\* start and ends with the last byte that was sent.
Send ==
    /\ ~reading
    /\ reading' = TRUE
    /\ buffer' = [i \in 0 .. get_next_byte_position - 1 |-> buffer[i]]
    /\ bit_num' = 0 /\ bit_end' = get_next_byte_position * ByteBits
    /\ error_detected' = FALSE
    /\ UNCHANGED <<pattern, fields, results>>

\* _read_bits into memory that holds the pattern, or zeros for an integer.
Destination(f) == IF f.kind = "bits" THEN [i \in 0 .. IntBytes - 1 |-> pattern] ELSE Bytes(0)

Read ==
    LET f == fields[Len(results) + 1].field
        n == Room(f.count)
        dest == IF n = 0 THEN Destination(f)
                ELSE _copy_bits(Destination(f), f.source_bit, buffer, bit_num, n)
    IN  /\ reading /\ Len(results) < Len(fields)
        /\ bit_num' = IF f.kind = "advance" THEN advance_to_next_byte(bit_num) ELSE bit_num + n
        /\ error_detected' = (error_detected \/ n < f.count)
        /\ results' = Append(results, [memory |-> dest, value |-> Value(dest) + f.base,
                                       failed |-> error_detected'])
        /\ UNCHANGED <<reading, buffer, bit_end, pattern, fields>>

Next == Write \/ Send \/ Read

Spec == Init /\ [][Next]_vars
-----------------------------------------------------------------------------
(* Properties. *)

\* The buffer is, bit for bit, the fields at their positions, and what it was before
\* everywhere else: no write of any alignment and length disturbs a neighbour, a field
\* that does not fit leaves its first bits and nothing behind the end.
BufferIsTheFields ==
    \A i \in 0 .. bit_end - 1 :
        LET writers == {j \in DOMAIN fields :
                            i \in fields[j].position .. fields[j].position + fields[j].written - 1}
        IN  IF writers = {} THEN Bit(buffer, i) = Bit([k \in DOMAIN buffer |-> pattern], i)
            ELSE \A j \in writers :
                Bit(buffer, i) = Bit(fields[j].field.source,
                                     fields[j].field.source_bit + (i - fields[j].position))

\* What was written is read back: the low bits of an integer, a ranged value itself for
\* every range, and the bits between two positions in memory with those around them as
\* they were.
ReadsWhatWasWritten ==
    \A i \in DOMAIN results :
        LET f == fields[i].field IN
        ~results[i].failed =>
            CASE f.kind = "integer" -> results[i].value = f.value % Pow2[f.count]
              [] f.kind = "ranged" -> results[i].value = f.value
              [] OTHER -> \A b \in 0 .. WordBits - 1 :
                    Bit(results[i].memory, b) =
                        IF b \in f.source_bit .. f.source_bit + f.count - 1
                        THEN Bit(f.source, b) ELSE Bit(Destination(f), b)

\* A field that did not fit into the buffer is not read back as if it had: the reader
\* gets an error for it and for every one with bits after it, and for no other.
OverrunIsNoticed ==
    \A i \in DOMAIN results :
        results[i].failed <=> \E j \in 1 .. i : fields[j].written < fields[j].field.count
=============================================================================
