----------------------------- MODULE RequestCode -----------------------------
(* The request codes of src/c/encryption: one of three tools run with -e    *)
(* prints a code made of a UUID and the time; one run with -d, now or later *)
(* and perhaps of another version, is given a UUID and a code and shows     *)
(* what is in it.  raw_code_generator.c shows the same without a cipher.    *)
(*                                                                          *)
(* Each run is a process of its own: main, get_raw_code, the IV and the     *)
(* output are a step each.  The tools read memory they have not written: it *)
(* is a choice of the step that reads it, of Leftovers for strings and of   *)
(* Garbage for the last byte of an IV.                                      *)
EXTENDS CodeBits

CONSTANTS
    Uuids,      \* the arguments given as UUIDs, sequences of characters
    Moments,    \* the times of day of the runs, in milliseconds
    Randoms,    \* what the random generator gives, three bytes
    Garbage,    \* what the last byte of the IV may hold
    Leftovers,  \* what memory may hold up to its first zero byte
    Edited(_)   \* what a reader of a code may type instead of it

V1 == INSTANCE EncryptorV1
V2 == INSTANCE EncryptorV2
V3 == INSTANCE EncryptorV3

Tools == {"v1", "v2", "v3"}
NoText == <<"NULL">>
Null == [tool |-> "none"]

VARIABLES
    pc,      \* where the process is, "idle" between two runs
    run,     \* its arguments
    key,     \* the text hashed to the key
    raw,     \* raw_code, up to its first zero byte
    prefix,  \* the IV prefix, bytes or bits
    iv,      \* the IV
    issued,  \* the code last printed and what it was made of
    result   \* what the last run has shown

vars == <<pc, run, key, raw, prefix, iv, issued, result>>

\* Each variable holds what its comment says.
TypeOK ==
    /\ pc \in {"idle", "raw", "iv", "print", "open", "show"}
    /\ run.tool \in Tools \cup {"none"}
    /\ \A s \in {key, raw} : \A i \in 1..Len(s) : s[i] \in 1..255
    /\ \A i \in 1..Len(prefix) : prefix[i] \in Byte
    /\ iv = <<>> \/ (Len(iv) = 8 /\ \A i \in 1..8 : iv[i] \in Byte)
    /\ issued = Null \/ (issued.tool \in Tools /\ Len(issued.raw) > 0)
    /\ result.kind \in {"none", "exit", "crash", "shown", "generated"}

Nothing == [kind |-> "none"]

Init ==
    /\ pc = "idle"
    /\ run = Null
    /\ key = <<>> /\ raw = <<>> /\ prefix = <<>> /\ iv = <<>>
    /\ issued = Null
    /\ result = Nothing

--------------------------------------------------------------------------
(* One process.                                                           *)

\* The process ends; its memory is gone.
End(kind) ==
    /\ pc' = "idle"
    /\ key' = <<>> /\ raw' = <<>> /\ prefix' = <<>> /\ iv' = <<>>
    /\ result' = kind

Exit == End([kind |-> "exit"])

Started(tool, option, uuid, leftover) ==
    CASE tool = "v1" -> V1!Main(option, uuid, leftover)
      [] tool = "v2" -> V2!Main(option, uuid, leftover)
      [] tool = "v3" -> V3!Main(option, uuid, leftover)

\* main: the option, and the key.
Main(tool, option, uuid, text, verbose) ==
    /\ pc = "idle" /\ result = Nothing
    /\ run' = [tool |-> tool, uuid |-> uuid, text |-> text, verbose |-> verbose]
    /\ \E leftover \in Leftovers :
          \E started \in {Started(tool, option, uuid, leftover)} :
              IF started.next = "exit" THEN Exit
              ELSE /\ key' = started.key
                   /\ pc' = started.next
                   /\ UNCHANGED <<raw, prefix, iv, result>>
    /\ issued' = IF option = "-e" THEN Null ELSE issued

Encrypting == \E tool \in Tools, uuid \in Uuids, verbose \in BOOLEAN :
    Main(tool, "-e", uuid, NoText, verbose)

\* Without a code argv[3] is NULL, or the -v meant as an option.
Decrypting == \E tool \in Tools, uuid \in Uuids :
    \/ \E text \in (IF issued = Null THEN {} ELSE Edited(issued.text)) :
          Main(tool, "-d", uuid, text, FALSE)
    \/ Main(tool, "-d", uuid, NoText, FALSE)
    \/ Main(tool, "-d", uuid, <<Dash, "v">>, TRUE)

Mistaking == \E tool \in Tools, uuid \in Uuids : Main(tool, "--help", uuid, NoText, FALSE)

\* get_raw_code.
GetRawCode ==
    /\ pc = "raw"
    /\ IF Len(run.uuid) # 32
       THEN Exit /\ UNCHANGED <<run, issued>>
       ELSE /\ \E systime \in Moments, leftover \in Leftovers :
                 /\ raw' = CASE run.tool = "v1" -> V1!GetRawCode(run.uuid, systime, leftover)
                             [] run.tool = "v2" -> V2!GetRawCode(run.uuid)
                             [] run.tool = "v3" -> V3!GetRawCode(run.uuid, systime, leftover)
                 /\ run' = [tool |-> run.tool, uuid |-> run.uuid, verbose |-> run.verbose,
                            systime |-> systime]
            /\ pc' = "iv"
            /\ UNCHANGED <<key, prefix, iv, issued, result>>

\* entangle_iv of the prefix p.
IvOf(tool, p, garbage) ==
    CASE tool = "v1" -> V1!EntangleIv(p, garbage)
      [] tool = "v2" -> V2!EntangleIv(p, garbage)
      [] tool = "v3" -> V3!EntangleIv(p)

\* encrypt_code up to ctr_start.
SetIv ==
    /\ pc = "iv"
    /\ \E random \in Randoms :
          prefix' = CASE run.tool = "v1" -> SubSeq(random, 1, 2)
                      [] run.tool = "v2" -> V2!IvPrefix(run.systime)
                      [] run.tool = "v3" -> V3!IvPrefix(random)
    /\ \E garbage \in Garbage :
          /\ iv' = IvOf(run.tool, prefix', garbage)
          /\ run' = [tool |-> run.tool, uuid |-> run.uuid, verbose |-> run.verbose,
                     systime |-> run.systime, garbage |-> garbage]
    /\ pc' = "print"
    /\ UNCHANGED <<key, raw, issued, result>>

\* With -v the raw code is printed first, by a function that checks it.
Refused == \/ run.tool = "v1" /\ run.verbose /\ ~V1!Printable(raw)
           \/ run.tool = "v3" /\ run.verbose /\ ~V3!Printable(raw)
           \/ run.tool = "v3" /\ ~V3!Encodable(key, prefix, iv, raw)

CodeText == CASE run.tool = "v1" -> V1!EncryptCode(key, prefix, iv, raw)
              [] run.tool = "v2" -> V2!EncryptCode(key, prefix, iv, raw)
              [] run.tool = "v3" -> V3!EncryptCode(key, prefix, iv, raw)

\* encrypt_code from ctr_encrypt to the end.
PrintCode ==
    /\ pc = "print"
    /\ IF Refused
       THEN Exit /\ UNCHANGED issued
       ELSE /\ issued' = [tool |-> run.tool, uuid |-> run.uuid, systime |-> run.systime,
                          raw |-> raw, garbage |-> run.garbage, text |-> CodeText]
            /\ End(Nothing)
    /\ run' = Null

Readable(tool, text) ==
    CASE tool = "v1" -> V1!Readable(text)
      [] tool = "v2" -> V2!Readable(text)
      [] tool = "v3" -> V3!Readable(text)
PrefixIn(tool, text) ==
    CASE tool = "v1" -> V1!PrefixIn(text)
      [] tool = "v2" -> V2!PrefixIn(text)
      [] tool = "v3" -> V3!PrefixIn(text)

\* decrypt_code up to ctr_start.
OpenCode ==
    /\ pc = "open"
    /\ \/ /\ run.text = NoText
          /\ End([kind |-> "crash"])
          /\ UNCHANGED run
       \/ /\ run.text # NoText /\ ~Readable(run.tool, run.text)
          /\ Exit
          /\ UNCHANGED run
       \/ /\ run.text # NoText /\ Readable(run.tool, run.text)
          /\ \E garbage \in Garbage :
                /\ iv' = IvOf(run.tool, PrefixIn(run.tool, run.text), garbage)
                /\ run' = [tool |-> run.tool, uuid |-> run.uuid, text |-> run.text,
                           garbage |-> garbage]
          /\ pc' = "show"
          /\ UNCHANGED <<key, raw, prefix, result>>
    /\ UNCHANGED issued

Decrypted(leftover) ==
    CASE run.tool = "v1" -> V1!DecryptCode(key, iv, run.text, leftover)
      [] run.tool = "v2" -> V2!DecryptCode(key, iv, run.text, leftover)
      [] run.tool = "v3" -> V3!DecryptCode(key, iv, run.text, leftover)

\* print_raw_code is content with what is to be shown.
Accepted(shown) == CASE run.tool = "v1" -> V1!Printable(shown)
                     [] run.tool = "v2" -> TRUE
                     [] run.tool = "v3" -> V3!Printable(shown)

\* decrypt_code from ctr_decrypt to the end.
ShowRawCode ==
    /\ pc = "show"
    /\ \E leftover \in Leftovers :
          \E shown \in {Decrypted(leftover)} :
              IF Accepted(shown)
              THEN End([kind |-> "shown", raw |-> shown, leftover |-> leftover])
              ELSE Exit
    /\ UNCHANGED <<run, issued>>

--------------------------------------------------------------------------
(* raw_code_generator.c                                                   *)

\* The terminator goes to the byte after buffer, whose last byte nobody
\* writes; out has none.
GeneratedRawCode(uuid, systime, slack, leftover) ==
    LET buffer == SubSeq(uuid, 1, 9) \o LastTimeBytes(systime)
    IN  Str(Str(buffer, <<slack>>), leftover)

Generate ==
    /\ pc = "idle" /\ result = Nothing
    /\ \E uuid \in Uuids, systime \in Moments, slack \in Garbage, leftover \in Leftovers :
          /\ run' = [tool |-> "none", uuid |-> uuid, systime |-> systime]
          /\ result' = IF Len(uuid) # 32 THEN [kind |-> "exit"]
                       ELSE [kind |-> "generated",
                             raw |-> GeneratedRawCode(uuid, systime, slack, leftover)]
    /\ UNCHANGED <<pc, key, raw, prefix, iv, issued>>

\* What the last run has shown is read; the code printed is kept.
Read ==
    /\ result # Nothing
    /\ result' = Nothing
    /\ run' = Null
    /\ UNCHANGED <<pc, key, raw, prefix, iv, issued>>

Next ==
    \/ Encrypting
    \/ Decrypting
    \/ Mistaking
    \/ GetRawCode
    \/ SetIv
    \/ PrintCode
    \/ OpenCode
    \/ ShowRawCode
    \/ Generate
    \/ Read

Spec == Init /\ [][Next]_vars

--------------------------------------------------------------------------
(* What a code is for.                                                    *)

\* The last run was given, with or without dashes, the code last printed by the
\* same tool, and a UUID that makes the same key.
OwnCode ==
    /\ result.kind = "shown"
    /\ issued # Null
    /\ run.tool = issued.tool
    /\ WithoutDashes(run.text) = WithoutDashes(issued.text)
    /\ Len(run.uuid) >= 16
    /\ SubSeq(run.uuid, 1, 16) = SubSeq(issued.uuid, 1, 16)

\* The two processes found the same bits in the byte of the IV that versions 1
\* and 2 do not clear.
SameIv == run.tool = "v3" \/ run.garbage = issued.garbage

\* A code gives back what was encrypted, whatever memory held in either process:
\* the encoding, the dashes, the prefix and the entangled IV are undone exactly
\* (decrypt_code against encrypt_code).  More may follow, as the raw code is
\* not terminated.
OpensWhatWasClosed ==
    OwnCode /\ SameIv => SubSeq(result.raw, 1, Len(issued.raw)) = issued.raw

\* Both runs keep what they hold within its range, and the second undoes the first.
CodesOpen == TypeOK /\ OpensWhatWasClosed

TimeTold(s, n) ==
    s[n + 1] + (256 * s[n + 2]) + (65536 * s[n + 3]) + (16777216 * s[n + 4])

\* What is shown names the UUID and the time of the run that printed it, unless one
\* of the four bytes of the time is zero, whatever memory held: a string that is too
\* long or too short is refused, or (v2, generator) begins rightly. How much of the
\* UUID: the first nine characters in version 1 and the generator, as the comments
\* there say, eight in version 2, and six in version 3, whose comment (line 222)
\* still says nine; there the time follows the sixth.
TellsUuidAndTime ==
    LET Tells(uuid, systime, n) ==
            /\ SubSeq(result.raw, 1, n) = SubSeq(uuid, 1, n)
            /\ (\A k \in 1..4 : LastTimeBytes(systime)[k] # 0)
               => TimeTold(result.raw, n) = systime
    IN  /\ OwnCode /\ run.tool = "v1" /\ SameIv => Tells(issued.uuid, issued.systime, 9)
        /\ OwnCode /\ run.tool = "v3" => Tells(issued.uuid, issued.systime, 6)
        /\ OwnCode /\ run.tool = "v2" /\ SameIv
           => SubSeq(result.raw, 1, 8) = SubSeq(issued.uuid, 1, 8)
        /\ result.kind = "generated" => Tells(run.uuid, run.systime, 9)

\* The usage of version 3 shows it reading a code of version 1: it never does,
\* nor does version 1 read one of version 3, by the lengths alone (a hundred
\* bits after the prefix are no bytes, ten bytes no raw code of version 1).
\* Only a raw code that was shortened or what memory held makes the length up.
OtherVersionIsRefused ==
    /\ result.kind = "shown"
    /\ issued # Null
    /\ {run.tool, issued.tool} = {"v1", "v3"}
    /\ WithoutDashes(run.text) = WithoutDashes(issued.text)
    => \/ result.leftover # <<>>
       \/ issued.tool = "v1" /\ Len(issued.raw) # 9 + 4
=============================================================================
