------------------------------ MODULE CodeBits ------------------------------
(* What the encryptor tools do with bytes, bits and symbols, from           *)
(* src/c/encryption.  A byte or a character is a number, a bit is 0 or 1, a *)
(* symbol of a printed code is a string of one letter, text is a sequence   *)
(* of them.  A C string is what stands before the first zero byte, and what *)
(* memory a program never wrote holds up to its first zero byte is a        *)
(* sequence of bytes given by the caller.                                   *)
EXTENDS Integers, Sequences, FiniteSets

CONSTANT Keystream(_, _) \* the bytes CTR mode makes of a key and an IV

Byte == 0..255
Bit == {0, 1}
Dash == "-"

\* char_to_bits and bits_to_char: the highest bit comes first.
CharToBits(n) == <<(n \div 128) % 2, (n \div 64) % 2, (n \div 32) % 2, (n \div 16) % 2,
                   (n \div 8) % 2, (n \div 4) % 2, (n \div 2) % 2, n % 2>>
BitsToChar(b) == (128 * b[1]) + (64 * b[2]) + (32 * b[3]) + (16 * b[4])
                 + (8 * b[5]) + (4 * b[6]) + (2 * b[7]) + b[8]

CharArrToBinArr(bytes) ==
    [i \in 1..(8 * Len(bytes)) |-> CharToBits(bytes[((i - 1) \div 8) + 1])[((i - 1) % 8) + 1]]

\* bin_arr_to_char_arr answers -1 for bits that do not make whole bytes.
WholeBytes(bits) == Len(bits) % 8 = 0
BinArrToCharArr(bits) ==
    [k \in 1..(Len(bits) \div 8) |-> BitsToChar([j \in 1..8 |-> bits[(8 * (k - 1)) + j]])]

\* strlen, and the string that lies in memory when s is written over it.
StrLen(s) == Cardinality({i \in 1..Len(s) : \A j \in 1..i : s[j] # 0})
Str(s, leftover) == SubSeq(s \o leftover, 1, StrLen(s \o leftover))

\* The last four bytes of int64_to_bin_digit(systime), in reverse.
LastTimeBytes(systime) == <<systime % 256, (systime \div 256) % 256,
                            (systime \div 65536) % 256, (systime \div 16777216) % 256>>

XorByte(x, y) ==
    BitsToChar([k \in 1..8 |-> (CharToBits(x)[k] + CharToBits(y)[k]) % 2])
OrByte(x, y) ==
    BitsToChar([k \in 1..8 |-> IF CharToBits(x)[k] = 1 THEN 1 ELSE CharToBits(y)[k]])

\* ctr_encrypt and ctr_decrypt.
Ctr(key, iv, bytes) ==
    LET stream == Keystream(key, iv)
    IN  [i \in 1..Len(bytes) |-> XorByte(bytes[i], stream[i])]

\* rounds times, m bits of one sequence and then n bits of the other.
Entangle(pre, suf, rounds, m, n) ==
    [i \in 1..(rounds * (m + n)) |->
        LET r == (i - 1) \div (m + n)
            j == (i - 1) % (m + n)
        IN  IF j < m THEN pre[(r * m) + j + 1] ELSE suf[(r * n) + j - m + 1]]

\* "SAMPLEIVSUFFIX"
IvSufTemplate == <<83, 65, 77, 80, 76, 69, 73, 86, 83, 85, 70, 70, 73, 88>>

\* Symbols by their value, in an alphabet of 32.
Crockford == <<"0", "1", "2", "3", "4", "5", "6", "7", "8", "9", "A", "B", "C", "D", "E", "F",
               "G", "H", "J", "K", "M", "N", "P", "Q", "R", "S", "T", "V", "W", "X", "Y", "Z">>
Known(alphabet, symbols) ==
    \A i \in 1..Len(symbols) : \E v \in 1..32 : alphabet[v] = symbols[i]
ValueOf(alphabet, symbol) == (CHOOSE v \in 1..32 : alphabet[v] = symbol) - 1

\* Five bits are a symbol.
Symbols(alphabet, bits) ==
    [i \in 1..(Len(bits) \div 5) |->
        alphabet[BitsToChar(<<0, 0, 0>> \o [j \in 1..5 |-> bits[(5 * (i - 1)) + j]]) + 1]]
BitsOfSymbols(alphabet, symbols) ==
    [i \in 1..(5 * Len(symbols)) |->
        CharToBits(ValueOf(alphabet, symbols[((i - 1) \div 5) + 1]))[((i - 1) % 5) + 4]]

\* The library's base32: zero bits fill the last symbol; a number of symbols
\* that no number of bytes gives is refused.
Base32Encode(bytes) ==
    Symbols(Crockford, CharArrToBinArr(bytes) \o [i \in 1..((-8 * Len(bytes)) % 5) |-> 0])
Base32Reads(symbols) == Known(Crockford, symbols) /\ Len(symbols) % 8 \notin {1, 3, 6}
Base32Decode(symbols) ==
    BinArrToCharArr(SubSeq(BitsOfSymbols(Crockford, symbols), 1,
                           8 * ((5 * Len(symbols)) \div 8)))

\* A dash after every n symbols but the last.
Grouped(symbols, n) ==
    LET len == Len(symbols)
    IN  [i \in 1..(len + (IF len = 0 THEN 0 ELSE (len - 1) \div n)) |->
            IF i % (n + 1) = 0 THEN Dash ELSE symbols[i - (i \div (n + 1))]]
WithoutDashes(text) == SelectSeq(text, LAMBDA c : c # Dash)

\* memset(out, 0, sizeof(out) - 1) clears as many bytes as a pointer has, less
\* one; the bits are then or-ed to what is there, so that the eighth byte keeps
\* what memory held.
IvOnLeftover(bits, leftover) ==
    [k \in 1..8 |-> IF k < 8 THEN BinArrToCharArr(bits)[k]
                    ELSE OrByte(BinArrToCharArr(bits)[k], leftover)]
=============================================================================
