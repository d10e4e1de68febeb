------------------------------ MODULE JsonText ------------------------------
(* The lexical half of jsoncpp (the copy under echo-worker-cpp/tpl): how the *)
(* reader finds and decodes numbers and strings, and how the writer prints   *)
(* them.  Text is a sequence of character codes.  The reader exists twice,   *)
(* as OurReader (behind CharReaderBuilder) and as the older Reader that      *)
(* echo-worker-cpp's app.cpp uses; where the copies differ both are here.    *)
EXTENDS Integers, Sequences, FiniteSets, SequencesExt

CONSTANTS MaxLargestInt,   \* Value::maxLargestInt (2^63 - 1 in the build)
          MaxInt           \* Value::maxInt (2^31 - 1)

ASSUME WidthsAssumption ==
    MaxInt \in Nat /\ MaxLargestInt \in Nat /\ 9 < MaxInt /\ MaxInt < MaxLargestInt

MinLargestInt  == -MaxLargestInt - 1
MaxLargestUInt == 2 * MaxLargestInt + 1

Quote == 34     Backslash == 92     Slash == 47     Minus == 45
Plus  == 43     Dot       == 46     Zero  == 48     LetterU == 117
IsDigit(c) == c \in 48..57

At(t, i) == IF i \in 1..Len(t) THEN t[i] ELSE 0      \* getNextChar's 0 at end_

-----------------------------------------------------------------------------
(* Numbers.                                                                  *)

SkipDigits(t, i) ==
    CHOOSE j \in i..(i + Len(t)) :
        ~IsDigit(At(t, j)) /\ \A k \in i..(j - 1) : IsDigit(At(t, k))

\* Where the number that starts before position i ends.
ReadNumber(t, i) ==
    LET whole    == SkipDigits(t, i)
        fraction == IF At(t, whole) = Dot THEN SkipDigits(t, whole + 1) ELSE whole
        sign     == IF At(t, fraction + 1) \in {Plus, Minus} THEN 2 ELSE 1
    IN  IF At(t, fraction) \in {69, 101} THEN SkipDigits(t, fraction + sign) ELSE fraction

Real(t) == [kind |-> "real", text |-> t, value |-> 0]

\* The loop both decoders share: -1 stands for "decode it as a double".
RECURSIVE Accumulate(_, _, _, _, _)
Accumulate(t, i, value, threshold, lastDigit) ==
    IF i > Len(t) THEN value
    ELSE LET digit == t[i] - Zero
         IN  IF \/ ~IsDigit(t[i])
                \/ /\ value >= threshold
                   /\ value > threshold \/ i # Len(t) \/ digit > lastDigit
             THEN -1
             ELSE Accumulate(t, i + 1, value * 10 + digit, threshold, lastDigit)

\* Mutant: the last digit is not compared with what the limit leaves for it.
DecodeNumberUpToThreshold(t) ==
    LET isNegative == t[1] = Minus
        limit      == IF isNegative THEN -MinLargestInt ELSE MaxLargestUInt
        value      == Accumulate(t, IF isNegative THEN 2 ELSE 1, 0, limit \div 10, 9)
    IN  IF value = -1 THEN Real(t)
        ELSE [kind  |-> IF isNegative \/ value <= MaxLargestInt THEN "int" ELSE "uint",
              text  |-> <<>>,
              value |-> IF isNegative THEN -(value \div 10) * 10 - (value % 10) ELSE value]

\* OurReader::decodeNumber.
DecodeNumber(t) ==
    LET isNegative == t[1] = Minus
        limit      == IF isNegative THEN -MinLargestInt ELSE MaxLargestUInt
        value      == Accumulate(t, IF isNegative THEN 2 ELSE 1, 0, limit \div 10, limit % 10)
    IN  IF value = -1 THEN Real(t)
        ELSE [kind  |-> IF isNegative \/ value <= MaxLargestInt THEN "int" ELSE "uint",
              text  |-> <<>>,
              value |-> IF isNegative THEN -(value \div 10) * 10 - (value % 10) ELSE value]

\* Reader::decodeNumber: a value above the 32-bit maxInt is already unsigned.
LegacyDecodeNumber(t) ==
    LET isNegative == t[1] = Minus
        maxIntegerValue == IF isNegative THEN MaxLargestInt + 1 ELSE MaxLargestUInt
        value == Accumulate(t, IF isNegative THEN 2 ELSE 1, 0,
                            maxIntegerValue \div 10, maxIntegerValue % 10)
    IN  IF value = -1 THEN Real(t)
        ELSE [kind  |-> IF isNegative \/ value <= MaxInt THEN "int" ELSE "uint",
              text  |-> <<>>,
              value |-> IF isNegative
                        THEN IF value = maxIntegerValue THEN MinLargestInt ELSE -value
                        ELSE value]

RECURSIVE UintToString(_)
UintToString(value) ==
    (IF value < 10 THEN <<>> ELSE UintToString(value \div 10)) \o <<Zero + (value % 10)>>

ValueToString(value) ==
    IF value = MinLargestInt THEN <<Minus>> \o UintToString(MaxLargestInt + 1)
    ELSE IF value < 0 THEN <<Minus>> \o UintToString(-value)
    ELSE UintToString(value)

-----------------------------------------------------------------------------
(* UTF-8.                                                                    *)

Replacement == 65533                                              \* U+FFFD

CodePointToUTF8(cp) ==
    IF cp <= 127 THEN <<cp>>
    ELSE IF cp <= 2047 THEN <<192 + ((cp \div 64) % 32), 128 + (cp % 64)>>
    ELSE IF cp <= 65535
         THEN <<224 + ((cp \div 4096) % 16), 128 + ((cp \div 64) % 64), 128 + (cp % 64)>>
    ELSE IF cp <= 1114111
         THEN <<240 + ((cp \div 262144) % 8), 128 + ((cp \div 4096) % 64),
                128 + ((cp \div 64) % 64), 128 + (cp % 64)>>
    ELSE <<>>

\* The code point at s[i] and the position of the last byte it takes.
Utf8ToCodepoint(s, i) ==
    LET first == s[i]
        rest  == Len(s) - i + 1                                   \* e - s
        low(k) == s[i + k] % 64
        bad   == [cp |-> Replacement, at |-> i]
        checked(cp, least, n) ==
            [cp |-> IF cp < least \/ cp \in 55296..57343 THEN Replacement ELSE cp,
             at |-> i + n]
    IN  IF first < 128 THEN [cp |-> first, at |-> i]
        ELSE IF first < 224
             THEN IF rest < 2 THEN bad ELSE checked((first % 32) * 64 + low(1), 128, 1)
        ELSE IF first < 240
             THEN IF rest < 3 THEN bad
                  ELSE checked((first % 16) * 4096 + low(1) * 64 + low(2), 2048, 2)
        ELSE IF first < 248
             THEN IF rest < 4 THEN bad
                  ELSE checked((first % 8) * 262144 + low(1) * 4096 + low(2) * 64 + low(3),
                               65536, 3)
        ELSE bad

-----------------------------------------------------------------------------
(* Strings.                                                                  *)

\* The short escapes: the letter after the backslash for each character.
EscapeOf == [c \in {34, 92, 8, 12, 10, 13, 9} |->
                CASE c = 34 -> 34 [] c = 92 -> 92 [] c = 8 -> 98 [] c = 12 -> 102
                  [] c = 10 -> 110 [] c = 13 -> 114 [] c = 9 -> 116]

HexDigit(n) == IF n < 10 THEN Zero + n ELSE 97 + n - 10
AppendHex(x) == <<Backslash, LetterU, HexDigit((x \div 4096) % 16), HexDigit((x \div 256) % 16),
                  HexDigit((x \div 16) % 16), HexDigit(x % 16)>>

RequiresEscaping(s) == \E i \in DOMAIN s : s[i] \in {Backslash, Quote} \/ s[i] < 32 \/ s[i] > 127

EscapeCodepoint(cp) ==
    IF cp < 32 THEN AppendHex(cp)
    ELSE IF cp < 128 THEN <<cp>>
    ELSE IF cp < 65536 THEN AppendHex(cp)
    ELSE AppendHex(55296 + (((cp - 65536) \div 1024) % 1024))
             \o AppendHex(56320 + ((cp - 65536) % 1024))

RECURSIVE QuoteFrom(_, _, _)
QuoteFrom(s, i, emitUTF8) ==
    IF i > Len(s) THEN <<>>
    ELSE IF s[i] \in DOMAIN EscapeOf
         THEN <<Backslash, EscapeOf[s[i]]>> \o QuoteFrom(s, i + 1, emitUTF8)
    ELSE IF emitUTF8
         THEN (IF s[i] < 32 THEN AppendHex(s[i]) ELSE <<s[i]>>) \o QuoteFrom(s, i + 1, emitUTF8)
    ELSE LET u == Utf8ToCodepoint(s, i)
         IN  EscapeCodepoint(u.cp) \o QuoteFrom(s, u.at + 1, emitUTF8)

ValueToQuotedStringN(s, emitUTF8) ==
    IF ~RequiresEscaping(s) THEN <<Quote>> \o s \o <<Quote>>
    ELSE <<Quote>> \o QuoteFrom(s, 1, emitUTF8) \o <<Quote>>

\* readString and readStringSingleQuote, from the character after the opening
\* quote: the position after the closing one, 0 when there is none.
RECURSIVE ReadString(_, _, _)
ReadString(t, i, quote) ==
    IF i > Len(t) THEN 0
    ELSE IF t[i] = Backslash THEN ReadString(t, i + 2, quote)
    ELSE IF t[i] = quote THEN i + 1
    ELSE ReadString(t, i + 1, quote)

HexValue(c) == CASE c \in 48..57 -> c - 48 [] c \in 97..102 -> c - 87
                 [] c \in 65..70 -> c - 55 [] OTHER -> -1

\* decodeUnicodeEscapeSequence: the four digits from position i, -1 for an error.
DecodeUnicodeEscapeSequence(t, i) ==
    LET d(k) == HexValue(t[i + k])
    IN  IF i + 3 > Len(t) \/ \E k \in 0..3 : d(k) = -1 THEN -1
        ELSE d(0) * 4096 + d(1) * 256 + d(2) * 16 + d(3)

\* decodeUnicodeCodePoint: the code point and the position after it.  Whatever
\* follows a high surrogate is taken for its second half.
DecodeUnicodeCodePoint(t, i) ==
    LET unicode == DecodeUnicodeEscapeSequence(t, i)
        second  == DecodeUnicodeEscapeSequence(t, i + 6)
    IN  IF unicode \notin 55296..56319 THEN [cp |-> unicode, at |-> i + 4]
        ELSE IF Len(t) - (i + 4) + 1 < 6 \/ t[i + 4] # Backslash \/ t[i + 5] # LetterU \/ second = -1
             THEN [cp |-> -1, at |-> i]
        ELSE [cp |-> 65536 + (unicode % 1024) * 1024 + (second % 1024), at |-> i + 10]

\* decodeString, of the text between the quotes: <<FALSE, ...>> for an error.
RECURSIVE DecodeFrom(_, _, _)
DecodeFrom(t, i, decoded) ==
    IF i > Len(t) \/ At(t, i) = Quote THEN <<TRUE, decoded>>
    ELSE IF t[i] # Backslash THEN DecodeFrom(t, i + 1, Append(decoded, t[i]))
    ELSE LET escape == At(t, i + 1)
             u      == DecodeUnicodeCodePoint(t, i + 2)
             plain  == {c \in DOMAIN EscapeOf : EscapeOf[c] = escape} \cup ({Slash} \cap {escape})
         IN  IF i = Len(t) THEN <<FALSE, decoded>>
             ELSE IF plain # {}
                  THEN DecodeFrom(t, i + 2, Append(decoded, CHOOSE c \in plain : TRUE))
             ELSE IF escape = LetterU /\ u.cp # -1
                  THEN DecodeFrom(t, u.at, decoded \o CodePointToUTF8(u.cp))
             ELSE <<FALSE, decoded>>

DecodeString(token) == DecodeFrom(SubSeq(token, 2, Len(token) - 1), 1, <<>>)
=============================================================================
