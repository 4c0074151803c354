----------------------------- MODULE EncryptorV3 -----------------------------
(* src/c/encryption/encryptor_tool_v3.c                                     *)
EXTENDS CodeBits

\* "Request"
KeyPrefix == <<82, 101, 113, 117, 101, 115, 116>>

\* What follows the first characters of the key: a UUID that is too short leaves
\* them unterminated.
Substring(uuid, leftover) == IF Len(uuid) < 16 THEN leftover ELSE SubSeq(uuid, 1, 16)

Main(option, uuid, leftover) ==
    [next |-> CASE option = "-d" -> "open" [] option = "-e" -> "raw" [] OTHER -> "exit",
     key |-> KeyPrefix \o Substring(uuid, leftover)]

\* The bytes of the time in their own order.
GetRawCodeForwards(uuid, systime, leftover) ==
    LET time == LastTimeBytes(systime)
    IN  Str(Str(SubSeq(uuid, 1, 6) \o [i \in 1..4 |-> time[5 - i]], <<>>), leftover)
GetRawCode(uuid, systime, leftover) ==
    LET buffer == SubSeq(uuid, 1, 6) \o LastTimeBytes(systime)
    IN  Str(Str(buffer, <<>>), leftover)

Printable(raw) == Len(raw) = 6 + 4

\* Twenty of the twenty-four random bits.
IvPrefix(random) == SubSeq(CharArrToBinArr(random), 1, 20)

\* Four rounds of five bits of the prefix and eleven of the template.
\* Only the first 44 bits are taken, so all are the template's own, however far
\* the strlen of its unterminated copy runs.
EntangleIv(pre) ==
    BinArrToCharArr(Entangle(pre, SubSeq(CharArrToBinArr(IvSufTemplate), 1, 44), 4, 5, 11))

EncodeArray == <<"0", "1", "2", "3", "4", "5", "6", "7", "8", "9", "A", "B", "C", "D", "E", "F",
                 "G", "H", "J", "K", "M", "N", "P", "Q", "R", "S", "T", "U", "V", "W", "X", "Y">>
Encode5Bit(bits) == Symbols(EncodeArray, bits)
Decode5Bit(symbols) == BitsOfSymbols(EncodeArray, symbols)

Cooked(key, pre, iv, raw) == pre \o CharArrToBinArr(Ctr(key, iv, raw))

\* Only a code of a hundred bits is printed, in groups of five symbols.
Encodable(key, pre, iv, raw) == Len(Cooked(key, pre, iv, raw)) = 100
EncryptCode(key, pre, iv, raw) == Grouped(Encode5Bit(Cooked(key, pre, iv, raw)), 5)

\* One bit too far, as if bits were counted from one.
PrefixInShifted(text) == SubSeq(Decode5Bit(WithoutDashes(text)), 2, 21)
PrefixIn(text) == SubSeq(Decode5Bit(WithoutDashes(text)), 1, 20)
ExtractCode(text) ==
    LET bits == Decode5Bit(WithoutDashes(text)) IN SubSeq(bits, 21, Len(bits))

\* Symbols of the table, and whole bytes after the prefix.
Readable(text) == Known(EncodeArray, WithoutDashes(text)) /\ WholeBytes(ExtractCode(text))

DecryptCode(key, iv, text, leftover) ==
    Str(Ctr(key, iv, BinArrToCharArr(ExtractCode(text))), leftover)
=============================================================================
