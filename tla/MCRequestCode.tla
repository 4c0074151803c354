---------------------------- MODULE MCRequestCode ----------------------------
(* Constants for checking RequestCode.                                      *)
EXTENDS RequestCode

\* UUIDs that begin alike and end alike, one of another key, one too short.
Digits(f(_)) == [i \in 1..32 |-> f(i)]
AnyUuids == {Digits(LAMBDA i : 48 + ((7 * i) % 10)),
             Digits(LAMBDA i : IF i <= 16 THEN 48 + ((7 * i) % 10) ELSE 97),
             Digits(LAMBDA i : 48 + ((3 * i) % 10)),
             <<49, 54, 49>>}

Moment(a, b, c, d) == a + (256 * b) + (65536 * c) + (16777216 * d)
\* Every byte of the time differs; its third byte is zero; its first is.
AnyMoments == {Moment(117, 198, 133, 2),
               Moment(117, 198, 0, 2),
               Moment(0, 198, 133, 2)}

AnyRandoms == {<<0, 255, 16>>, <<173, 7, 250>>}
AnyGarbage == {0, 129}
\* Three bytes make up for the shortest raw code of version 1 and of version 3.
AnyLeftovers == {<<>>, <<7>>, <<200, 9, 31>>, <<200, 9, 31, 44>>}

\* Depends on the end and the middle of the key and on every byte of the IV.
Mixed(text, v) ==
    LET k == <<1>> \o text
    IN  [i \in 1..24 |-> ((31 * i * i) + k[Len(k)] + (5 * k[(Len(k) + 1) \div 2])
                          + v[1] + (3 * v[2]) + (5 * v[3]) + (7 * v[4]) + (9 * v[5])
                          + (11 * v[6]) + (13 * v[7]) + (((2 * i) + 1) * v[8])) % 256]

\* Whole, without its dashes, without its last four symbols, with a mistake.
Typed(text) == {text, WithoutDashes(text), SubSeq(text, 1, Len(text) - 4),
                [text EXCEPT ![7] = IF text[7] = "3" THEN "Y" ELSE "3"]}
=============================================================================
