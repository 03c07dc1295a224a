----------------------------- MODULE Serializer -----------------------------
(***************************************************************************)
(* Serializer.hpp: values as bytes, written at the end of a stream and     *)
(* read at its cursor.  Memory goes on after the last byte of a stream: a  *)
(* read looks whether the cursor is at the end, and never whether there    *)
(* are as many bytes as it takes.                                          *)
(***************************************************************************)
EXTENDS Integers, Sequences

CONSTANT LengthLimit   \* one more than the length of a string may be, 2^16

ASSUME LengthAssumption == LengthLimit \in 1..65536

Byte == 0..255

(* A bool is 0 or 1; void is sent as an int8_t, code is a uint16_t.        *)
sizeof == [int |-> 4, bool |-> 1, void |-> 1, code |-> 2]

(* The values of each type, in as many bits as they have.                 *)
Int32 == {n \in Int : -2147483647 - 1 <= n /\ n <= 2147483647}
UInt16 == {n \in Nat : n <= 65535}
Values == [int |-> Int32, bool |-> {0, 1}, void |-> {0}, code |-> UInt16,
           string |-> Seq(Byte)]

(* A number as its bytes and back, LittleEndian, in two's complement.      *)
BytesOf(number, width) == [k \in 1..width |-> (number \div 256^(k - 1)) % 256]
Unsigned(bytes) ==
    LET number[k \in 0..Len(bytes)] ==
            IF k = 0 THEN 0 ELSE number[k - 1] + bytes[k] * 256^(k - 1)
    IN number[Len(bytes)]
Signed(bytes) ==
    LET low == Len(bytes) - 1
        high == bytes[Len(bytes)]
    IN Unsigned(SubSeq(bytes, 1, low))
         + (IF high < 128 THEN high ELSE high - 256) * 256^low
-----------------------------------------------------------------------------
(* operator <<: a string is preceded by its length, which wraps.           *)
input_type(stream, type, value) ==
    IF type # "string" THEN stream \o BytesOf(value, sizeof[type])
    ELSE LET len == Len(value) % LengthLimit
         IN stream \o BytesOf(len, 2) \o SubSeq(value, 1, len)

input_all(stream, types, values) ==
    LET written[k \in 0..Len(types)] ==
            IF k = 0 THEN stream
            ELSE input_type(written[k - 1], types[k], values[k])
    IN written[Len(types)]
-----------------------------------------------------------------------------
StreamBuffer(in, beyond) == [memory |-> in \o beyond, size |-> Len(in), pos |-> 0]

is_eof(stream) == stream.pos >= stream.size
current(stream, len) == SubSeq(stream.memory, stream.pos + 1, stream.pos + len)
offset(stream, len) == [stream EXCEPT !.pos = @ + len]

(* operator >>: the value read, which stays as it was at the end, and the  *)
(* stream with its cursor after it.                                        *)
output_string(stream) ==
    LET len == Unsigned(current(stream, 2))
        text == offset(stream, 2)
    IN [value |-> current(text, len), stream |-> offset(text, len)]

output_type(stream, type, before) ==
    IF type = "string" THEN output_string(stream)
    ELSE IF is_eof(stream) THEN [value |-> before, stream |-> stream]
    ELSE LET bytes == current(stream, sizeof[type])
         IN [value |-> IF type = "int" THEN Signed(bytes) ELSE Unsigned(bytes),
             stream |-> offset(stream, sizeof[type])]

output_all(stream, types, before) ==
    LET read[k \in 1..Len(types)] ==
            output_type(IF k = 1 THEN stream ELSE read[k - 1].stream,
                        types[k], before)
    IN [k \in 1..Len(types) |-> read[k].value]
=============================================================================
