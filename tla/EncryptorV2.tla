----------------------------- MODULE EncryptorV2 -----------------------------
(* src/c/encryption/encryptor_tool_v2.c                                     *)
EXTENDS CodeBits

Substring(uuid, leftover) == IF Len(uuid) < 16 THEN leftover ELSE SubSeq(uuid, 1, 16)

Main(option, uuid, leftover) ==
    [next |-> CASE option = "-d" -> "open" [] option = "-e" -> "raw" [] OTHER -> "exit",
     key |-> Substring(uuid, leftover)]

\* Eight characters, terminated.
GetRawCode(uuid) == SubSeq(uuid, 1, 8)

\* The time is the prefix of the IV: eight rounds of four bits of each.
IvPrefix(systime) == LastTimeBytes(systime)
EntangleIv(pre, leftover) ==
    IvOnLeftover(Entangle(CharArrToBinArr(pre),
                          CharArrToBinArr(SubSeq(IvSufTemplate, 1, 4)), 8, 4, 4),
                 leftover)

EncryptCode(key, pre, iv, raw) == Grouped(Base32Encode(pre \o Ctr(key, iv, raw)), 5)

Readable(text) == Base32Reads(WithoutDashes(text))
PrefixIn(text) == SubSeq(Base32Decode(WithoutDashes(text)), 1, 4)

\* The raw code is printed whatever its length.
DecryptCode(key, iv, text, leftover) ==
    LET cooked == Base32Decode(WithoutDashes(text))
    IN  Str(Ctr(key, iv, SubSeq(cooked, 5, Len(cooked))), leftover)
=============================================================================
