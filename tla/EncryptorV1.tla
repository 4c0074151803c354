----------------------------- MODULE EncryptorV1 -----------------------------
(* src/c/encryption/encryptor_tool_v1.c                                     *)
EXTENDS CodeBits

\* substring writes nothing for a UUID shorter than sixteen characters: what
\* is hashed then is what the buffer held.
Substring(uuid, leftover) == IF Len(uuid) < 16 THEN leftover ELSE SubSeq(uuid, 1, 16)

\* main: which way the option leads, and with which key.
Main(option, uuid, leftover) ==
    [next |-> CASE option = "-d" -> "open" [] option = "-e" -> "raw" [] OTHER -> "exit",
     key |-> Substring(uuid, leftover)]

\* Nine characters of the UUID and the time, up to the first zero byte, over
\* memory that is not cleared.
GetRawCode(uuid, systime, leftover) ==
    LET buffer == SubSeq(uuid, 1, 9) \o LastTimeBytes(systime)
    IN  Str(Str(buffer, <<>>), leftover)

\* print_raw_code goes on only with nine characters and four time bytes.
\* Any raw code long enough to print would do.
PrintableLonger(raw) == Len(raw) >= 6 + 4
Printable(raw) == Len(raw) = 9 + 4

\* Eight rounds of two bits of the random prefix and six of the template.
EntangleIv(pre, leftover) ==
    IvOnLeftover(Entangle(CharArrToBinArr(pre),
                          CharArrToBinArr(SubSeq(IvSufTemplate, 1, 6)), 8, 2, 6),
                 leftover)

\* The prefix goes before what is encrypted, in groups of four symbols.
EncryptCode(key, pre, iv, raw) == Grouped(Base32Encode(pre \o Ctr(key, iv, raw)), 4)

Readable(text) == Base32Reads(WithoutDashes(text))
PrefixIn(text) == SubSeq(Base32Decode(WithoutDashes(text)), 1, 2)

\* raw_code is not terminated: leftover follows it.
DecryptCode(key, iv, text, leftover) ==
    LET cooked == Base32Decode(WithoutDashes(text))
    IN  Str(Ctr(key, iv, SubSeq(cooked, 3, Len(cooked))), leftover)
=============================================================================
