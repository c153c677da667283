------------------------------- MODULE Alphabet -------------------------------
(* BAlphabetEncoder: each byte becomes two characters of an alphabet, the    *)
(* page and the place on the page, in alternating order.  The pages are      *)
(* counted from a random start, clockwise or not; the first two characters   *)
(* say which.  Characters are codes without zero, and an alphabet is a       *)
(* sequence of them.                                                         *)
EXTENDS Integers, Sequences, FiniteSets

CONSTANTS
  Alphabets,  \* what SetAlphabet() is called with, each under a name: 16 to
              \* 127 characters
  Datas,      \* what is encoded: sequences of bytes
  Draws       \* bound: the places that the second character is drawn from

VARIABLES
  alphabet,   \* m_lpszAlphabet, by its name
  text,       \* what was encoded last, and what from
  result      \* what was decoded last, and how

vars == <<alphabet, text, result>>

MaxAlpha == 256     \* AlphabetEncoder_Max_Alpha, and the width of a char
Bytes    == 0 .. MaxAlpha - 1

(* What SetAlphabet() asserts of the size, and a char that is an index of the*)
(* tables: there are 127 above zero.                                         *)
ConstantsAllowed ==
  /\ \A name \in DOMAIN Alphabets :
       Alphabets[name] \in Seq(Nat) /\ Len(Alphabets[name]) \in 16 .. 127
  /\ Datas \subseteq Seq(Bytes)

-----------------------------------------------------------------------------
(* The tables that SetAlphabet() computes                                    *)

Chars(a) == [i \in 0 .. Len(a) - 1 |-> a[i + 1]]
Pages(a) == MaxAlpha \div Len(a)

PageIndicators(a) ==
  [i \in 0 .. Pages(a) - 1 |-> Chars(a)[(Len(a) \div Pages(a)) * i]]

ReversedPageIndicators(a) ==
  [i \in 0 .. Pages(a) - 1 |-> PageIndicators(a)[Pages(a) - i - 1]]

(* A map is cleared first: a character without a place has place zero.       *)
Place(f, c) ==
  IF \E i \in DOMAIN f : f[i] = c THEN CHOOSE i \in DOMAIN f : f[i] = c ELSE 0

-----------------------------------------------------------------------------
(* Encode() and Decode() of one byte                                         *)

GetPageIndicator(a, clockwise, start, pos) ==
  IF clockwise
    THEN PageIndicators(a)[(start + pos) % Pages(a)]
    ELSE ReversedPageIndicators(a)[(Pages(a) - start - 1 + pos) % Pages(a)]

PosMistake(a, clockwise, start, char) ==
  (IF clockwise
     THEN Place(PageIndicators(a), char) - start
     ELSE Place(ReversedPageIndicators(a), char) - start) % MaxAlpha

(* The difference is returned as an unsigned char.                           *)
GetPageIndicatorPos(a, clockwise, start, char) ==
  (IF clockwise
     THEN Place(PageIndicators(a), char) - start
     ELSE Place(ReversedPageIndicators(a), char) - (Pages(a) - start - 1))
  % MaxAlpha

EncodedByte(a, clockwise, start, byte) ==
  <<GetPageIndicator(a, clockwise, start, byte \div Len(a)),
    Chars(a)[byte % Len(a)]>>

DecodedByte(a, clockwise, start, pair) ==
  (GetPageIndicatorPos(a, clockwise, start, pair[1]) * Len(a)
     + Place(Chars(a), pair[2])) % MaxAlpha

-----------------------------------------------------------------------------
(* Encode() and Decode()                                                     *)

Swapped(pair) == <<pair[2], pair[1]>>

Encode(a, clockwise, start, second, data) ==
  LET Byte(i) == EncodedByte(a, clockwise, start, data[i])
      Pair(i) == IF i % 2 = 1 THEN Byte(i) ELSE Swapped(Byte(i))
  IN [k \in 1 .. 2 * Len(data) + 2 |->
        CASE k = 1 -> PageIndicators(a)[start]
          [] k = 2 -> Chars(a)[second]
          [] OTHER -> Pair((k - 1) \div 2)[1 + ((k - 1) % 2)]]

Decode(a, chars) ==
  LET start     == Place(PageIndicators(a), chars[1])
      clockwise == Place(Chars(a), chars[2]) % 2 = 0
      Pair(i)   == <<chars[2 * i + 1], chars[2 * i + 2]>>
  IN [i \in 1 .. (Len(chars) - 2) \div 2 |->
        DecodedByte(a, clockwise, start,
                    IF i % 2 = 1 THEN Pair(i) ELSE Swapped(Pair(i)))]

(* Where the second character is drawn from: it is the parity that counts.   *)
Seconds(a, clockwise) ==
  IF clockwise
    THEN {2 * i : i \in 0 .. Len(a) \div 2 - 1}
    ELSE {IF i % 2 = 0 THEN i - 1 ELSE i : i \in 1 .. Len(a) - 1}

(* What a C string keeps of some bytes.                                      *)
UpToNul(data) ==
  SubSeq(data, 1, Cardinality({i \in 1 .. Len(data) :
                                 \A j \in 1 .. i : data[j] # 0}))

-----------------------------------------------------------------------------
NoText   == [chars |-> <<>>]
NoResult == [data |-> <<>>]

(* An alphabet in which a character comes twice is refused.                  *)
NoRepeats(a) == Cardinality({a[i] : i \in DOMAIN a}) = Len(a)
Accepted     == {name \in DOMAIN Alphabets : NoRepeats(Alphabets[name])}

Init ==
  /\ alphabet \in Accepted
  /\ text = NoText /\ result = NoResult

SetAlphabet(name) ==
  /\ alphabet' = IF name \in Accepted THEN name ELSE alphabet
  /\ UNCHANGED <<text, result>>

(* The encoder keeps nothing of a text: one in a behaviour is enough.        *)
Encoding(data) ==
  /\ text = NoText
  /\ LET a == Alphabets[alphabet]
     IN \E clockwise \in BOOLEAN, start \in 0 .. Pages(a) - 1 :
          \E second \in Seconds(a, clockwise) \cap Draws :
            text' = [chars |-> Encode(a, clockwise, start, second, data),
                     of |-> alphabet, data |-> data]
  /\ UNCHANGED <<alphabet, result>>

(* EncodeStringData() is told the length, of one byte or more.               *)
EncodeStringData(data) == data # <<>> /\ Encoding(data)

(* EncodeString() and EncodeData() go on up to the first zero byte.          *)
EncodeString(data) == Encoding(UpToNul(data))

Decoding(data, want) ==
  /\ text # NoText
  /\ result' = [data |-> data, of |-> alphabet, want |-> want]
  /\ UNCHANGED <<alphabet, text>>

Decoded == Decode(Alphabets[alphabet], text.chars)

DecodeStringData == Decoding(Decoded, text.data)
DecodeString     == Decoding(UpToNul(Decoded), UpToNul(text.data))

Next ==
  \/ \E name \in DOMAIN Alphabets : SetAlphabet(name)
  \/ \E data \in Datas : EncodeStringData(data) \/ EncodeString(data)
  \/ DecodeStringData
  \/ DecodeString

Spec == Init /\ [][Next]_vars

-----------------------------------------------------------------------------
(* Encoding and decoding undo each other, whatever is drawn at random, for   *)
(* the alphabet that encoded and if its size divides the number of bytes, as *)
(* that of the default alphabet does: a page that comes before the start     *)
(* counts as a negative one, and only then falls back into place when the    *)
(* byte is cut to its width.                                                 *)
Divides(a) == \E p \in 1 .. MaxAlpha : Len(a) * p = MaxAlpha

DecodedIsEncoded ==
  result # NoResult /\ result.of = text.of /\ Divides(Alphabets[text.of]) =>
    result.data = result.want
=============================================================================
