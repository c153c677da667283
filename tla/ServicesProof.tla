---------------------------- MODULE ServicesProof ----------------------------
(* The parts of MCServices keep side by side what each of them was proved to *)
(* keep alone.  A step of the composition is a step of one part, or leaves   *)
(* it unchanged; the theorems about the parts are taken over through a second*)
(* instance of each, of the module with its proofs, whose definitions agree  *)
(* with those of the first.  The encoder, and the sufficer, which MCServices *)
(* extends, have no module of proofs: theirs are here, the sufficer's at the *)
(* end.                                                                      *)
EXTENDS MCServices, SequenceTheorems, FiniteSetTheorems, TLAPS

ServerP == INSTANCE ServerContextProof WITH
  MaxCalls <- ServerCalls, platform <- serverPlatform, call <- serverCall,
  clashed <- serverClashed, calls <- serverCalls
ReplyP == INSTANCE RepliesProof WITH
  Hops <- DOMAIN Rows, NoHop <- "none", MainHop <- "main", MaxParts <- 1
PoolP == INSTANCE PoolProof WITH
  Cookies <- PoolCookies, MaxCalls <- PoolCalls, call <- poolCall,
  calls <- poolCalls

servicesVars == <<part, vars, poolVars, serverVars, hostVars, replyVars,
                  appVars, textVars>>

(* The encoder, for every alphabet that is accepted, every data and whatever *)
(* is drawn.                                                                 *)
USE DEF Encoder!MaxAlpha

(* An instance counts as we do.                                              *)
LEMMA SameCardinality == \A S : Encoder!Cardinality(S) = Cardinality(S)
BY DEF Encoder!Cardinality, Cardinality, Encoder!IsFiniteSet, IsFiniteSet

(* An alphabet whose size divides the number of bytes has one of three sizes.*)
Sized(a) ==
  \/ Len(a) = 16 /\ Encoder!Pages(a) = 16
  \/ Len(a) = 32 /\ Encoder!Pages(a) = 8
  \/ Len(a) = 64 /\ Encoder!Pages(a) = 4

LEMMA Divisors ==
  ASSUME NEW n \in 16 .. 127, NEW p \in 1 .. 256, n * p = 256
  PROVE  n \in {16, 32, 64}
<1>1. p \in 2 .. 16
  <2>1. p > 16 => n * p > 256
    <3>1. p >= 17 => 16 * p > 256
      OBVIOUS
    <3>2. n * p >= 16 * p
      OBVIOUS
    <3> QED BY <3>1, <3>2
  <2>2. p # 1
    OBVIOUS
  <2> QED BY <2>1, <2>2
<1>2. CASE p \in 2 .. 6
  BY <1>2
<1>3. CASE p \in 7 .. 11
  BY <1>3
<1>4. CASE p \in 12 .. 16
  BY <1>4
<1> QED BY <1>1, <1>2, <1>3, <1>4

LEMMA ThreeSizes ==
  ASSUME NEW a \in Seq(Nat), Len(a) \in 16 .. 127, Encoder!Divides(a)
  PROVE  Sized(a)
<1> DEFINE n == Len(a)
<1>1. n \in 16 .. 127 /\ \E p \in 1 .. 256 : n * p = 256
  BY DEF Encoder!Divides
<1>2. n \in {16, 32, 64}
  <2> HIDE DEF n
  <2>1. PICK p \in 1 .. 256 : n * p = 256
    BY <1>1
  <2> QED BY <1>1, <2>1, Divisors
<1>3. Encoder!Pages(a) = 256 \div Len(a)
  BY DEF Encoder!Pages
<1>4. /\ 256 \div 16 = 16
      /\ 256 \div 32 = 8
      /\ 256 \div 64 = 4
  OBVIOUS
<1>5. Sized(a) <=> \/ Len(a) = 16 /\ 256 \div 16 = 16
                   \/ Len(a) = 32 /\ 256 \div 32 = 8
                   \/ Len(a) = 64 /\ 256 \div 64 = 4
  BY <1>3, Zenon DEF Sized
<1> QED BY <1>2, <1>4, <1>5

(* The characters of an alphabet: a sequence without repeats.                *)
Alphabetic(a) ==
  /\ a \in Seq(Nat) /\ Sized(a)
  /\ \A i, j \in 1 .. Len(a) : a[i] = a[j] => i = j

(* What is refused is an alphabet in which a character comes twice.          *)
LEMMA AcceptedIsAlphabetic ==
  ASSUME NEW a \in Seq(Nat), Len(a) \in 16 .. 127, Encoder!NoRepeats(a),
           Encoder!Divides(a)
  PROVE  Alphabetic(a)
<1> DEFINE S == 1 .. Len(a)
           T == {a[i] : i \in DOMAIN a}
           f == [i \in S |-> a[i]]
<1>1. DOMAIN a = S /\ Len(a) \in Nat
  OBVIOUS
<1>2. IsFiniteSet(S) /\ Cardinality(S) = Len(a)
  <2>1. \A n \in Nat : n > 0 => IsFiniteSet(1 .. n) /\ Cardinality(1 .. n) = n
    BY FS_Interval
  <2> QED BY <1>1, <2>1
<1>3. f \in Surjection(S, T)
  BY <1>1 DEF Surjection
<1>4. Cardinality(T) = Cardinality(S)
  BY <1>2, SameCardinality DEF Encoder!NoRepeats
<1>5. f \in Injection(S, T)
  BY <1>2, <1>3, <1>4, FS_Surjection
<1>6. \A i, j \in 1 .. Len(a) : a[i] = a[j] => i = j
  <2>1. \A i, j \in S : f[i] = f[j] => i = j
    BY <1>5 DEF Injection, IsInjective
  <2> QED BY <2>1
<1> QED BY <1>6, ThreeSizes DEF Alphabetic

(* The place of a character is found again, in a table without repeats.      *)
LEMMA PlaceFinds ==
  ASSUME NEW f, NEW k \in DOMAIN f,
         \A i, j \in DOMAIN f : f[i] = f[j] => i = j
  PROVE  Encoder!Place(f, f[k]) = k
BY DEF Encoder!Place

(* The pages of an alphabet begin at equal distances.                        *)
LEMMA PageStarts ==
  ASSUME NEW a, Alphabetic(a)
  PROVE  /\ \/ /\ Len(a) = 16 /\ Encoder!Pages(a) = 16
               /\ Len(a) \div Encoder!Pages(a) = 1
            \/ /\ Len(a) = 32 /\ Encoder!Pages(a) = 8
               /\ Len(a) \div Encoder!Pages(a) = 4
            \/ /\ Len(a) = 64 /\ Encoder!Pages(a) = 4
               /\ Len(a) \div Encoder!Pages(a) = 16
         /\ \A i \in 0 .. Encoder!Pages(a) - 1 :
              /\ (Len(a) \div Encoder!Pages(a)) * i \in 0 .. Len(a) - 1
              /\ Encoder!PageIndicators(a)[i]
                   = Encoder!Chars(a)[(Len(a) \div Encoder!Pages(a)) * i]
<1> DEFINE n == Len(a)
           p == Encoder!Pages(a)
<1>1. \/ n = 16 /\ p = 16 /\ n \div p = 1
      \/ n = 32 /\ p = 8  /\ n \div p = 4
      \/ n = 64 /\ p = 4  /\ n \div p = 16
  <2>1. 16 \div 16 = 1 /\ 32 \div 8 = 4 /\ 64 \div 4 = 16
    OBVIOUS
  <2> QED BY <2>1, Zenon DEF Alphabetic, Sized
<1>2. \A i \in 0 .. p - 1 : (n \div p) * i \in 0 .. n - 1
  BY <1>1
<1>3. \A i \in 0 .. p - 1 : Encoder!PageIndicators(a)[i]
        = Encoder!Chars(a)[(n \div p) * i]
  BY DEF Encoder!PageIndicators
<1> QED BY <1>1, <1>2, <1>3

(* Every table gives the place of its entries back.                         *)
LEMMA Tables ==
  ASSUME NEW a, Alphabetic(a)
  PROVE  /\ Len(a) \in Nat /\ Encoder!Pages(a) \in Nat
         /\ \A i \in 0 .. Len(a) - 1 :
              Encoder!Place(Encoder!Chars(a), Encoder!Chars(a)[i]) = i
         /\ \A i \in 0 .. Encoder!Pages(a) - 1 :
              /\ Encoder!Place(Encoder!PageIndicators(a),
                               Encoder!PageIndicators(a)[i])
                   = i
              /\ Encoder!Place(Encoder!ReversedPageIndicators(a),
                               Encoder!ReversedPageIndicators(a)[i])
                   = i
<1> DEFINE n == Len(a)
           p == Encoder!Pages(a)
<1>1. \/ n = 16 /\ p = 16 /\ n \div p = 1
      \/ n = 32 /\ p = 8  /\ n \div p = 4
      \/ n = 64 /\ p = 4  /\ n \div p = 16
  BY PageStarts
<1>2. \A i, j \in 0 .. n - 1 : Encoder!Chars(a)[i] = Encoder!Chars(a)[j] => i = j
  <2> SUFFICES ASSUME NEW i \in 0 .. n - 1, NEW j \in 0 .. n - 1,
                      a[i + 1] = a[j + 1]
               PROVE  i = j
    BY DEF Encoder!Chars
  <2>1. i + 1 \in 1 .. Len(a) /\ j + 1 \in 1 .. Len(a)
    BY <1>1
  <2> QED BY <2>1 DEF Alphabetic
<1>3. \A i \in 0 .. p - 1 :
        /\ (n \div p) * i \in 0 .. n - 1
        /\ Encoder!PageIndicators(a)[i] = Encoder!Chars(a)[(n \div p) * i]
  BY PageStarts
<1>4. \A i, j \in 0 .. p - 1 :
        Encoder!PageIndicators(a)[i] = Encoder!PageIndicators(a)[j] => i = j
  <2> SUFFICES ASSUME NEW i \in 0 .. p - 1, NEW j \in 0 .. p - 1,
                      Encoder!PageIndicators(a)[i] = Encoder!PageIndicators(a)[j]
               PROVE  i = j
    OBVIOUS
  <2>1. (n \div p) * i = (n \div p) * j
    BY <1>2, <1>3
  <2> QED BY <1>1, <2>1
<1>5. \A i, j \in 0 .. p - 1 :
        Encoder!ReversedPageIndicators(a)[i] = Encoder!ReversedPageIndicators(a)[j]
            => i = j
  <2> SUFFICES ASSUME NEW i \in 0 .. p - 1, NEW j \in 0 .. p - 1,
                      Encoder!PageIndicators(a)[p - i - 1]
                        = Encoder!PageIndicators(a)[p - j - 1]
               PROVE  i = j
    BY DEF Encoder!ReversedPageIndicators
  <2> p \in Nat
    BY <1>1
  <2>1. p - i - 1 \in 0 .. p - 1 /\ p - j - 1 \in 0 .. p - 1
    BY ONLY p \in Nat, i \in 0 .. p - 1, j \in 0 .. p - 1
  <2>2. p - i - 1 = p - j - 1
    BY <1>4, <2>1
  <2> QED BY <2>1, <2>2
<1>6. /\ DOMAIN Encoder!Chars(a) = 0 .. n - 1
      /\ DOMAIN Encoder!PageIndicators(a) = 0 .. p - 1
      /\ DOMAIN Encoder!ReversedPageIndicators(a) = 0 .. p - 1
  BY DEF Encoder!Chars, Encoder!PageIndicators, Encoder!ReversedPageIndicators
<1>7. \A i \in 0 .. n - 1 : Encoder!Place(Encoder!Chars(a), Encoder!Chars(a)[i]) = i
  BY <1>2, <1>6, PlaceFinds
<1>8. \A i \in 0 .. p - 1 :
        Encoder!Place(Encoder!PageIndicators(a), Encoder!PageIndicators(a)[i]) = i
  BY <1>4, <1>6, PlaceFinds
<1>9. \A i \in 0 .. p - 1 :
        Encoder!Place(Encoder!ReversedPageIndicators(a),
                      Encoder!ReversedPageIndicators(a)[i]) = i
  BY <1>5, <1>6, PlaceFinds
<1> QED BY <1>1, <1>7, <1>8, <1>9

(* One byte.  A page before the start counts as a negative one and loses     *)
(* its sign when the byte is cut to its width.                               *)
LEMMA PageFound ==
  ASSUME NEW n \in Nat, NEW p \in Nat,
         \/ n = 16 /\ p = 16
         \/ n = 32 /\ p = 8
         \/ n = 64 /\ p = 4,
         NEW s \in 0 .. p - 1, NEW byte \in 0 .. 255
  PROVE  /\ (s + (byte \div n)) % p \in 0 .. p - 1
         /\ byte % n \in 0 .. n - 1
         /\ (((((s + (byte \div n)) % p) - s) % 256) * n + (byte % n)) % 256
              = byte
<1>1. CASE n = 16 /\ p = 16
  <2> QED BY <1>1
<1>2. CASE n = 32 /\ p = 8
  <2> QED BY <1>2
<1>3. CASE n = 64 /\ p = 4
  <2> QED BY <1>3
<1> QED BY <1>1, <1>2, <1>3

LEMMA ByteDecoded ==
  ASSUME NEW a, Alphabetic(a), NEW clockwise \in BOOLEAN,
         NEW start \in 0 .. Encoder!Pages(a) - 1, NEW byte \in Encoder!Bytes
  PROVE  Encoder!DecodedByte(a, clockwise, start,
                     Encoder!EncodedByte(a, clockwise, start, byte)) = byte
<1> DEFINE n == Len(a)
           p == Encoder!Pages(a)
           s == IF clockwise THEN start ELSE p - start - 1
           at == (s + (byte \div n)) % p
<1>1. /\ n \in Nat /\ p \in Nat
      /\ \/ n = 16 /\ p = 16
         \/ n = 32 /\ p = 8
         \/ n = 64 /\ p = 4
  BY Tables DEF Alphabetic, Sized
<1>2. s \in 0 .. p - 1
  BY <1>1
<1> DEFINE table == IF clockwise THEN Encoder!PageIndicators(a)
                                 ELSE Encoder!ReversedPageIndicators(a)
<1>3. /\ at \in 0 .. p - 1
      /\ byte % n \in 0 .. n - 1
      /\ (((at - s) % 256) * n + (byte % n)) % 256 = byte
  <2> HIDE DEF n, p, s
  <2> QED BY <1>1, <1>2, PageFound DEF Encoder!Bytes
<1>4. /\ Encoder!Place(table, table[at]) = at
      /\ Encoder!Place(Encoder!Chars(a), Encoder!Chars(a)[byte % n]) = byte % n
  BY <1>3, Tables
<1>5. Encoder!EncodedByte(a, clockwise, start, byte)
        = <<table[at], Encoder!Chars(a)[byte % n]>>
  BY Zenon DEF Encoder!EncodedByte, Encoder!GetPageIndicator
<1>6. Encoder!GetPageIndicatorPos(a, clockwise, start, table[at]) = (at - s) % 256
  BY <1>4, Zenon DEF Encoder!GetPageIndicatorPos
<1>7. Encoder!DecodedByte(a, clockwise, start, <<table[at],
        Encoder!Chars(a)[byte % n]>>)
        = (((at - s) % 256) * n + (byte % n)) % 256
  BY <1>4, <1>6 DEF Encoder!DecodedByte
<1> QED BY <1>3, <1>5, <1>7

(* A text.  The first two characters give the start and the direction back.  *)
LEMMA HeaderDecoded ==
  ASSUME NEW a, Alphabetic(a), NEW clockwise \in BOOLEAN,
         NEW start \in 0 .. Encoder!Pages(a) - 1,
         NEW second \in Encoder!Seconds(a, clockwise)
  PROVE  /\ Encoder!Place(Encoder!PageIndicators(a),
                          Encoder!PageIndicators(a)[start])
              = start
         /\ second \in 0 .. Len(a) - 1
         /\ (Encoder!Place(Encoder!Chars(a), Encoder!Chars(a)[second]) % 2 = 0)
              = clockwise
<1>1. Len(a) \in {16, 32, 64} /\ Encoder!Pages(a) \in Nat
  BY Tables DEF Alphabetic, Sized
<1>2. /\ second \in 0 .. Len(a) - 1
      /\ clockwise => second % 2 = 0
      /\ ~clockwise => second % 2 = 1
  <2> DEFINE n == Len(a)
  <2> n \in {16, 32, 64}
    BY <1>1
  <2> HIDE DEF n
  <2>1. CASE clockwise
    <3>1. PICK i \in 0 .. (n \div 2) - 1 : second = 2 * i
      BY <2>1 DEF Encoder!Seconds, n
    <3>2. second \in 0 .. n - 1 /\ second % 2 = 0
      BY <3>1
    <3> QED BY <2>1, <3>2 DEF n
  <2>2. CASE ~clockwise
    <3>1. PICK i \in 1 .. n - 1 : second = IF i % 2 = 0 THEN i - 1 ELSE i
      BY <2>2 DEF Encoder!Seconds, n
    <3>2. second \in 0 .. n - 1 /\ second % 2 = 1
      BY <3>1
    <3> QED BY <2>2, <3>2 DEF n
  <2> QED BY <2>1, <2>2
<1>3. Encoder!Place(Encoder!Chars(a), Encoder!Chars(a)[second]) = second
  BY <1>2, Tables
<1>4. Encoder!Place(Encoder!PageIndicators(a),
                    Encoder!PageIndicators(a)[start]) = start
  BY Tables
<1> QED BY <1>2, <1>3, <1>4

LEMMA CharsTyped ==
  ASSUME NEW a, Alphabetic(a), NEW clockwise \in BOOLEAN,
         NEW start \in 0 .. Encoder!Pages(a) - 1
  PROVE  /\ \A i \in 0 .. Len(a) - 1 : Encoder!Chars(a)[i] \in Nat
         /\ \A i \in 0 .. Encoder!Pages(a) - 1 : Encoder!PageIndicators(a)[i]
              \in Nat
         /\ \A byte \in Encoder!Bytes :
              /\ Encoder!EncodedByte(a, clockwise, start, byte)[1] \in Nat
              /\ Encoder!EncodedByte(a, clockwise, start, byte)[2] \in Nat
<1> DEFINE n == Len(a)
           p == Encoder!Pages(a)
<1>1. \/ n = 16 /\ p = 16
      \/ n = 32 /\ p = 8
      \/ n = 64 /\ p = 4
  BY PageStarts
<1>2. ASSUME NEW i \in 0 .. n - 1
      PROVE  Encoder!Chars(a)[i] \in Nat
  <2>1. i + 1 \in 1 .. n
    BY <1>1
  <2> QED BY <2>1 DEF Encoder!Chars, Alphabetic
<1>3. \A i \in 0 .. p - 1 : Encoder!PageIndicators(a)[i] \in Nat
  BY <1>2, PageStarts
<1>4. ASSUME NEW byte \in Encoder!Bytes
      PROVE  /\ Encoder!EncodedByte(a, clockwise, start, byte)[1] \in Nat
             /\ Encoder!EncodedByte(a, clockwise, start, byte)[2] \in Nat
  <2> DEFINE s == p - start - 1
             c == (start + (byte \div n)) % p
             r == (s + (byte \div n)) % p
  <2>1. c \in 0 .. p - 1 /\ s \in 0 .. p - 1 /\ p \in Nat
    BY <1>1 DEF Encoder!Bytes
  <2>2. r \in 0 .. p - 1 /\ byte % n \in 0 .. n - 1
    <3> HIDE DEF s, p, n
    <3>1. n \in Nat
      BY <1>1
    <3> QED BY <1>1, <2>1, <3>1, PageFound DEF Encoder!Bytes
  <2>3. p - r - 1 \in 0 .. p - 1
    <3> HIDE DEF r, p
    <3> QED BY <2>1, <2>2
  <2>4. Encoder!ReversedPageIndicators(a)[r] \in Nat
    BY <1>3, <2>2, <2>3 DEF Encoder!ReversedPageIndicators
  <2>5. Encoder!GetPageIndicator(a, clockwise, start, byte \div n) \in Nat
    BY <1>3, <2>1, <2>4 DEF Encoder!GetPageIndicator
  <2>6. Encoder!Chars(a)[byte % n] \in Nat
    BY <1>2, <2>2
  <2> QED BY <2>5, <2>6 DEF Encoder!EncodedByte
<1> QED BY <1>2, <1>3, <1>4

LEMMA TextDecoded ==
  ASSUME NEW a, Alphabetic(a), NEW clockwise \in BOOLEAN,
         NEW start \in 0 .. Encoder!Pages(a) - 1,
         NEW second \in Encoder!Seconds(a, clockwise),
             NEW data \in Seq(Encoder!Bytes)
  PROVE  Encoder!Decode(a, Encoder!Encode(a, clockwise, start, second, data)) = data
<1> DEFINE chars == Encoder!Encode(a, clockwise, start, second, data)
           m == 2 * Len(data) + 2
           byte(i) == Encoder!EncodedByte(a, clockwise, start, data[i])
           pair(i) == IF i % 2 = 1 THEN byte(i) ELSE Encoder!Swapped(byte(i))
<1>1. Len(data) \in Nat /\ m \in Nat
  OBVIOUS
<1>2. chars = [k \in 1 .. m |->
                 CASE k = 1 -> Encoder!PageIndicators(a)[start]
                   [] k = 2 -> Encoder!Chars(a)[second]
                   [] OTHER -> pair((k - 1) \div 2)[1 + ((k - 1) % 2)]]
  BY DEF Encoder!Encode
<1>3. ASSUME NEW i \in 1 .. Len(data)
      PROVE  /\ data[i] \in Encoder!Bytes
             /\ pair(i)[1] \in Nat /\ pair(i)[2] \in Nat
  <2>1. data[i] \in Encoder!Bytes
    OBVIOUS
  <2>2. byte(i)[1] \in Nat /\ byte(i)[2] \in Nat
    BY <2>1, CharsTyped
  <2> QED BY <2>1, <2>2 DEF Encoder!Swapped
<1> HIDE DEF chars, pair
<1>4. Encoder!PageIndicators(a)[start] \in Nat /\ Encoder!Chars(a)[second] \in Nat
  BY HeaderDecoded, CharsTyped
<1>5. ASSUME NEW k \in 1 .. m, k > 2
      PROVE  /\ (k - 1) \div 2 \in 1 .. Len(data)
             /\ 1 + ((k - 1) % 2) \in {1, 2}
  BY <1>1, <1>5
<1>6. chars \in [1 .. m -> Nat]
  <2> SUFFICES ASSUME NEW k \in 1 .. m PROVE chars[k] \in Nat
    BY <1>2
  <2>1. CASE k = 1
    BY <1>2, <1>4, <2>1
  <2>2. CASE k = 2
    BY <1>2, <1>4, <2>2
  <2>3. CASE k > 2
    <3>1. chars[k] = pair((k - 1) \div 2)[1 + ((k - 1) % 2)]
      BY <1>2, <2>3
    <3> QED BY <1>3, <1>5, <2>3, <3>1
  <2> QED BY <1>1, <2>1, <2>2, <2>3
<1>7. Len(chars) = m
  BY <1>1, <1>6
<1>8. chars[1] = Encoder!PageIndicators(a)[start]
        /\ chars[2] = Encoder!Chars(a)[second]
  BY <1>1, <1>2
<1>9. ASSUME NEW i \in 1 .. Len(data)
      PROVE  chars[2 * i + 1] = pair(i)[1] /\ chars[2 * i + 2] = pair(i)[2]
  <2>1. \A k \in 1 .. m :
          k > 2 => chars[k] = pair((k - 1) \div 2)[1 + ((k - 1) % 2)]
    BY <1>2
  <2>2. ASSUME NEW k \in 1 .. m, k \in {2 * i + 1, 2 * i + 2}
        PROVE  chars[k] = pair(i)[IF k = 2 * i + 1 THEN 1 ELSE 2]
    <3>1. /\ k > 2 /\ (k - 1) \div 2 = i
          /\ (k - 1) % 2 = IF k = 2 * i + 1 THEN 0 ELSE 1
      BY <2>2
    <3> QED BY <2>1, <3>1
  <2>3. 2 * i + 1 \in 1 .. m /\ 2 * i + 2 \in 1 .. m
    BY <1>1
  <2> QED BY <2>2, <2>3
<1>10. ASSUME NEW i \in 1 .. Len(data)
       PROVE  (IF i % 2 = 1
                 THEN <<chars[2 * i + 1], chars[2 * i + 2]>>
                 ELSE Encoder!Swapped(<<chars[2 * i + 1], chars[2 * i + 2]>>))
                = byte(i)
  <2>1. byte(i) = <<byte(i)[1], byte(i)[2]>>
    BY DEF Encoder!EncodedByte
  <2> QED BY <1>9, <2>1 DEF pair, Encoder!Swapped
<1>11. (m - 2) \div 2 = Len(data)
  BY <1>1
<1>12. Encoder!Decode(a, chars)
         = [i \in 1 .. Len(data) |-> Encoder!DecodedByte(a, clockwise, start,
             byte(i))]
  <2>1. /\ Encoder!Place(Encoder!PageIndicators(a), chars[1]) = start
        /\ (Encoder!Place(Encoder!Chars(a), chars[2]) % 2 = 0) = clockwise
    BY <1>8, HeaderDecoded
  <2> HIDE DEF m
  <2> QED BY <1>7, <1>10, <1>11, <2>1 DEF Encoder!Decode
<1>13. \A i \in 1 .. Len(data) :
         Encoder!DecodedByte(a, clockwise, start, byte(i)) = data[i]
  BY <1>3, ByteDecoded
<1>14. data = [i \in 1 .. Len(data) |-> data[i]]
  OBVIOUS
<1> QED BY <1>12, <1>13, <1>14 DEF chars

LEMMA UpToNulTyped ==
  ASSUME NEW data \in Seq(Encoder!Bytes)
  PROVE  Encoder!UpToNul(data) \in Seq(Encoder!Bytes)
<1> DEFINE S == {i \in 1 .. Len(data) : \A j \in 1 .. i : data[j] # 0}
<1>1. S \in SUBSET (1 .. Len(data)) /\ Len(data) \in Nat
  OBVIOUS
<1>2. IsFiniteSet(1 .. Len(data)) /\ Cardinality(1 .. Len(data)) = Len(data)
  <2> DEFINE n == Len(data)
  <2> n \in Nat
    BY <1>1
  <2> HIDE DEF n
  <2>1. IsFiniteSet(1 .. n) /\ Cardinality(1 .. n) = n
    BY FS_Interval
  <2> QED BY <2>1 DEF n
<1>3. Cardinality(S) \in Nat /\ Cardinality(S) <= Len(data)
  BY <1>1, <1>2, FS_Subset, FS_CardinalityType
<1> DEFINE k == Cardinality(S)
<1>4. SubSeq(data, 1, k) \in Seq(Encoder!Bytes)
  <2>1. k \in Nat /\ k <= Len(data)
    BY <1>3
  <2> HIDE DEF k
  <2>2. k \in Int /\ \A i \in 1 .. k : data[i] \in Encoder!Bytes
    BY <1>1, <2>1
  <2> QED BY <2>2, SubSeqProperties
<1>5. Encoder!UpToNul(data) = SubSeq(data, 1, k)
  <2>1. Encoder!Cardinality(S) = k
    BY SameCardinality
  <2> QED BY <2>1 DEF Encoder!UpToNul
<1> QED BY <1>4, <1>5

(* What was encoded is found again with the alphabet that encoded it; and    *)
(* nothing is decoded before something was encoded.                          *)
TextInv ==
  text # Encoder!NoText /\ Encoder!Divides(Alphabets[text.of]) =>
    Encoder!Decode(Alphabets[text.of], text.chars) = text.data

EncoderInv ==
  /\ alphabet \in Encoder!Accepted
  /\ TextInv
  /\ text = Encoder!NoText => result = Encoder!NoResult
  /\ Encoder!DecodedIsEncoded

LEMMA EncodingPreserves ==
  ASSUME Encoder!ConstantsAllowed, EncoderInv, NEW data \in Seq(Encoder!Bytes),
           Encoder!Encoding(data)
  PROVE  EncoderInv'
<1> DEFINE a == Alphabets[alphabet]
<1>1. PICK clockwise \in BOOLEAN, start \in 0 .. Encoder!Pages(a) - 1,
           second \in Draws :
        /\ second \in Encoder!Seconds(a, clockwise)
        /\ text' = [chars |-> Encoder!Encode(a, clockwise, start, second, data),
                    of |-> alphabet, data |-> data]
  BY DEF Encoder!Encoding
<1>2. /\ alphabet \in Encoder!Accepted /\ alphabet' = alphabet
      /\ result = Encoder!NoResult /\ result' = Encoder!NoResult
  BY DEF Encoder!Encoding, EncoderInv
<1>3. a \in Seq(Nat) /\ Len(a) \in 16 .. 127 /\ Encoder!NoRepeats(a)
  BY <1>2 DEF Encoder!Accepted, Encoder!ConstantsAllowed
<1>4. ASSUME Encoder!Divides(a)
      PROVE  Encoder!Decode(a, Encoder!Encode(a, clockwise, start, second,
               data)) = data
  <2>1. Alphabetic(a)
    BY <1>3, <1>4, AcceptedIsAlphabetic
  <2> HIDE DEF a
  <2> QED BY <1>1, <2>1, TextDecoded
<1>5. TextInv'
  BY <1>1, <1>4 DEF TextInv
<1> QED BY <1>2, <1>5 DEF EncoderInv, Encoder!DecodedIsEncoded

(* Encoding and decoding undo each other, for every alphabet whose size      *)
(* divides the number of bytes, every data, and whatever is drawn at random: *)
(* DecodedIsEncoded for all values of the constants.                         *)
THEOREM EncodingIsUndone ==
  ASSUME Encoder!ConstantsAllowed
  PROVE  Encoder!Spec => []Encoder!DecodedIsEncoded
<1>1. Encoder!Init => EncoderInv
  BY DEF Encoder!Init, EncoderInv, TextInv, Encoder!DecodedIsEncoded
<1>2. EncoderInv /\ [Encoder!Next]_Encoder!vars => EncoderInv'
  <2> SUFFICES ASSUME EncoderInv, [Encoder!Next]_Encoder!vars PROVE EncoderInv'
    OBVIOUS
  <2>1. CASE UNCHANGED Encoder!vars
    BY <2>1 DEF Encoder!vars, EncoderInv, TextInv, Encoder!DecodedIsEncoded
  <2>2. ASSUME NEW name \in DOMAIN Alphabets, Encoder!SetAlphabet(name)
        PROVE  EncoderInv'
    BY <2>2 DEF Encoder!SetAlphabet, EncoderInv, TextInv, Encoder!DecodedIsEncoded
  <2>3. ASSUME NEW data \in Datas, Encoder!EncodeStringData(data)
        PROVE  EncoderInv'
    BY <2>3, EncodingPreserves
       DEF Encoder!EncodeStringData, Encoder!ConstantsAllowed
  <2>4. ASSUME NEW data \in Datas, Encoder!EncodeString(data)
        PROVE  EncoderInv'
    BY <2>4, UpToNulTyped, EncodingPreserves
       DEF Encoder!EncodeString, Encoder!ConstantsAllowed
  <2>5. ASSUME NEW data, NEW want, Encoder!Decoding(data, want),
               Encoder!Divides(Alphabets[text.of]) /\ alphabet = text.of =>
                 data = want
        PROVE  EncoderInv'
    BY <2>5 DEF Encoder!Decoding, EncoderInv, TextInv, Encoder!DecodedIsEncoded
  <2>6. Encoder!Divides(Alphabets[text.of]) /\ alphabet = text.of
          /\ text # Encoder!NoText =>
          Encoder!Decoded = text.data
    BY DEF Encoder!Decoded, EncoderInv, TextInv
  <2>7. CASE Encoder!DecodeStringData
    BY <2>5, <2>6, <2>7 DEF Encoder!DecodeStringData, Encoder!Decoding
  <2>8. CASE Encoder!DecodeString
    BY <2>5, <2>6, <2>8 DEF Encoder!DecodeString, Encoder!Decoding
  <2> QED BY <2>1, <2>2, <2>3, <2>4, <2>7, <2>8 DEF Encoder!Next
<1>3. EncoderInv => Encoder!DecodedIsEncoded
  BY DEF EncoderInv
<1> QED BY <1>1, <1>2, <1>3, PTL DEF Encoder!Spec

(* Encoding and decoding undo each other, whatever the other parts do.       *)
THEOREM EncoderIsUndone == ServicesSpec => []DecodedIsEncoded
<1>1. Encoder!Spec => []Encoder!DecodedIsEncoded
  BY EncoderConstants, EncodingIsUndone
<1>2. ServicesInit => Encoder!Init
  BY DEF ServicesInit
<1>3. [ServicesNext]_servicesVars => [Encoder!Next]_Encoder!vars
  BY DEF ServicesNext, servicesVars, textVars, Encoder!vars
<1>4. Encoder!DecodedIsEncoded => DecodedIsEncoded
  BY DEF DecodedIsEncoded
<1> QED
  BY <1>1, <1>2, <1>3, <1>4, PTL DEF ServicesSpec, Encoder!Spec, servicesVars

HIDE DEF Encoder!MaxAlpha

-----------------------------------------------------------------------------
(* The two instances of ServerContext agree on what a call does in a step.   *)
LEMMA ServerStepsAgree ==
  ASSUME NEW p \in Peers
  PROVE  Server!Step(p) => ServerP!Step(p)
<1> USE DEF Server!None, ServerP!None, Server!Idle, ServerP!Idle, Server!At,
      ServerP!At, Server!Go, ServerP!Go, Server!Return, ServerP!Return,
      Server!Puc, ServerP!Puc, Server!Alive, ServerP!Alive, Server!tables,
      ServerP!tables, Server!Counted, ServerP!Counted, Server!OldUid,
      ServerP!OldUid, Server!Exchanged, ServerP!Exchanged
<1>1. Server!FindPeer(p) => ServerP!FindPeer(p)
  BY DEF Server!FindPeer, ServerP!FindPeer
<1>2. Server!FindUser(p) => ServerP!FindUser(p)
  BY DEF Server!FindUser, ServerP!FindUser
<1>3. Server!AddUser(p) => ServerP!AddUser(p)
  BY DEF Server!AddUser, ServerP!AddUser
<1>4. Server!CountUp(p) => ServerP!CountUp(p)
  BY DEF Server!CountUp, ServerP!CountUp
<1>5. Server!Insert(p) => ServerP!Insert(p)
  BY DEF Server!Insert, ServerP!Insert
<1>6. Server!Relate(p) => ServerP!Relate(p)
  BY DEF Server!Relate, ServerP!Relate
<1>7. Server!StatLogin(p) => ServerP!StatLogin(p)
  BY DEF Server!StatLogin, ServerP!StatLogin
<1>8. Server!Exchange(p) => ServerP!Exchange(p)
  BY DEF Server!Exchange, ServerP!Exchange
<1>9. Server!LoadOld(p) => ServerP!LoadOld(p)
  BY DEF Server!LoadOld, ServerP!LoadOld
<1>10. Server!StoreOld(p) => ServerP!StoreOld(p)
  BY DEF Server!StoreOld, ServerP!StoreOld
<1>11. Server!GetPeer(p) => ServerP!GetPeer(p)
  BY DEF Server!GetPeer, ServerP!GetPeer
<1>12. Server!Unrelate(p) => ServerP!Unrelate(p)
  BY DEF Server!Unrelate, ServerP!Unrelate
<1>13. Server!CountDown(p) => ServerP!CountDown(p)
  BY DEF Server!CountDown, ServerP!CountDown
<1>14. Server!Erase(p) => ServerP!Erase(p)
  BY DEF Server!Erase, ServerP!Erase
<1>15. Server!FindStored(p) => ServerP!FindStored(p)
  BY DEF Server!FindStored, ServerP!FindStored
<1>16. Server!DropUser(p) => ServerP!DropUser(p)
  BY DEF Server!DropUser, ServerP!DropUser
<1>17. Server!Delete(p) => ServerP!Delete(p)
  BY DEF Server!Delete, ServerP!Delete
<1>18. \A from, to : Server!LoadRef(p, from, to) => ServerP!LoadRef(p, from, to)
  BY DEF Server!LoadRef, ServerP!LoadRef
<1>19. \A from, o, n, to : Server!StoreRef(p, from, o, n, to)
                               => ServerP!StoreRef(p, from, o, n, to)
  BY DEF Server!StoreRef, ServerP!StoreRef
<1>20. \A uid : Server!TestRef(p, uid) => ServerP!TestRef(p, uid)
  BY DEF Server!TestRef, ServerP!TestRef
<1>21. Server!GetUser(p) => ServerP!GetUser(p)
  BY <1>2, <1>3
  DEF Server!GetUser, ServerP!GetUser
<1>22. Server!RemoveUser(p) => ServerP!RemoveUser(p)
  BY <1>15, <1>16, <1>17
  DEF Server!RemoveUser, ServerP!RemoveUser
<1>23. Server!AddPeer(p) => ServerP!AddPeer(p)
  BY <1>1, <1>4, <1>5, <1>6, <1>7
  DEF Server!AddPeer, ServerP!AddPeer
<1>24. Server!UpdatePeer(p) => ServerP!UpdatePeer(p)
  BY <1>8, <1>20
  DEF Server!UpdatePeer, ServerP!UpdatePeer
<1>25. Server!RemovePeer(p) => ServerP!RemovePeer(p)
  BY <1>11, <1>12, <1>13, <1>14
  DEF Server!RemovePeer, ServerP!RemovePeer
<1>26. Server!ManagedAddPeer(p) => ServerP!ManagedAddPeer(p)
  BY <1>1, <1>5, <1>6, <1>7, <1>18, <1>19
  DEF Server!ManagedAddPeer, ServerP!ManagedAddPeer
<1>27. Server!ManagedExchange(p) => ServerP!ManagedExchange(p)
  BY <1>9, <1>10
  DEF Server!ManagedExchange, ServerP!ManagedExchange
<1>28. Server!ManagedUpdatePeer(p) => ServerP!ManagedUpdatePeer(p)
  BY <1>27, <1>20
  DEF Server!ManagedUpdatePeer, ServerP!ManagedUpdatePeer
<1>29. Server!ManagedRemovePeer(p) => ServerP!ManagedRemovePeer(p)
  BY <1>11, <1>12, <1>14, <1>18, <1>19
  DEF Server!ManagedRemovePeer, ServerP!ManagedRemovePeer
<1> QED BY <1>21, <1>22, <1>23, <1>24, <1>25, <1>26, <1>28, <1>29
    DEF Server!Step, ServerP!Step, Server!Native, ServerP!Native,
        Server!Managed, ServerP!Managed

(* The two instances of ServerContext agree.                                 *)
LEMMA ServerInstances ==
  /\ Server!ConstantsAllowed => ServerP!ConstantsAllowed
  /\ Server!Init => ServerP!Init
  /\ Server!Next => ServerP!Next
  /\ ServerP!UserRefsCounted => Server!UserRefsCounted
  /\ ServerP!UsersKept => Server!UsersKept
<1>1. /\ Server!ConstantsAllowed => ServerP!ConstantsAllowed
      /\ Server!Init => ServerP!Init
  BY DEF Server!ConstantsAllowed, ServerP!ConstantsAllowed, Server!Init,
         ServerP!Init, Server!None, ServerP!None, Server!Idle, ServerP!Idle,
         Server!IsFiniteSet, ServerP!IsFiniteSet
<1>2. ASSUME NEW p \in Peers, NEW op, NEW uid
      PROVE  Server!Begin(p, op, uid) => ServerP!Begin(p, op, uid)
  BY DEF Server!Begin, ServerP!Begin, Server!None, ServerP!None, Server!Idle,
         ServerP!Idle, Server!At, ServerP!At, Server!Running,
         ServerP!Running, Server!tables, ServerP!tables
<1>3. Server!Next => ServerP!Next
  <2> SUFFICES ASSUME Server!Next PROVE ServerP!Next
    OBVIOUS
  <2>1. PICK p \in Peers :
          \/ Server!Step(p)
          \/ \E op \in {"AddPeer", "UpdatePeer", "RemovePeer"}, uid \in Uids :
               Server!Begin(p, op, uid)
    BY Zenon DEF Server!Next
  <2>2. \/ ServerP!Step(p)
        \/ \E op \in {"AddPeer", "UpdatePeer", "RemovePeer"}, uid \in Uids :
             ServerP!Begin(p, op, uid)
    BY <1>2, <2>1, ServerStepsAgree, Zenon
  <2> QED BY <2>2, Zenon DEF ServerP!Next
<1>4. \A S : Server!Cardinality(S) = ServerP!Cardinality(S)
  BY DEF Server!Cardinality, ServerP!Cardinality, Server!IsFiniteSet,
         ServerP!IsFiniteSet
<1>5. ServerP!UserRefsCounted => Server!UserRefsCounted
  <2>1. \A op, step, o :
          Server!CallsAt(op, step, o) = ServerP!CallsAt(op, step, o)
    BY DEF Server!CallsAt, ServerP!CallsAt, Server!At, ServerP!At, Server!Puc,
           ServerP!Puc
  <2> QED
    BY <1>4, <2>1
    DEF Server!UserRefsCounted, ServerP!UserRefsCounted, Server!Objects,
        ServerP!Objects
<1>6. ServerP!UsersKept => Server!UsersKept
  BY DEF Server!UsersKept, ServerP!UsersKept, Server!None, ServerP!None,
         Server!Alive, ServerP!Alive
<1> QED BY <1>1, <1>3, <1>5, <1>6

(* A behaviour of the composition is one of the server's context.            *)
LEMMA ServicesAreAServer == ServicesSpec => ServerP!Spec
<1>1. ServicesInit => ServerP!Init
  BY ServerInstances DEF ServicesInit
<1>2. [ServicesNext]_servicesVars => [ServerP!Next]_ServerP!vars
  BY ServerInstances
  DEF ServicesNext, servicesVars, serverVars, ServerP!vars
<1> QED BY <1>1, <1>2, PTL DEF ServicesSpec, ServerP!Spec, servicesVars

(* The counts of users are those of their peers, whatever the other parts do.*)
THEOREM ServerCountsUsers == ServicesSpec => []UserRefsCounted
<1>1. ServerP!Spec => []ServerP!UserRefsCounted
  BY ServerInstances, ServerConstants, ServerP!CountIsOfPeers
<1>2. ServerP!UserRefsCounted => UserRefsCounted
  BY ServerInstances DEF UserRefsCounted
<1> QED BY <1>1, <1>2, ServicesAreAServer, PTL

(* The tables of users agree, whatever the other parts do.                   *)
THEOREM ServerKeepsUsers == ServicesSpec => []UsersKept
<1>1. ServerP!Spec => []ServerP!UsersKept
  BY ServerInstances, ServerConstants, ServerP!TablesAgree
<1>2. ServerP!UsersKept => UsersKept
  BY ServerInstances DEF UsersKept
<1> QED BY <1>1, <1>2, ServicesAreAServer, PTL

-----------------------------------------------------------------------------
(* The two instances of Replies agree.                                       *)
LEMMA ReplyInstances ==
  /\ Reply!ConstantsAllowed => ReplyP!ConstantsAllowed
  /\ Reply!Init => ReplyP!Init
  /\ Reply!Next => ReplyP!Next
  /\ ReplyP!RepliesReachTheirPeer => Reply!RepliesReachTheirPeer
<1> USE DEF Reply!AllThreads, ReplyP!AllThreads, Reply!Names, ReplyP!Names,
      Reply!Idle, ReplyP!Idle, Reply!packetVars, ReplyP!packetVars,
      Reply!hopVars, ReplyP!hopVars, Reply!AddHop, ReplyP!AddHop,
      Reply!RemoveHop, ReplyP!RemoveHop, Reply!Return, ReplyP!Return,
      Reply!Restored, ReplyP!Restored, Reply!OpsFor, ReplyP!OpsFor,
      Reply!Told, ReplyP!Told, Reply!Bricks, ReplyP!Bricks,
      Reply!Answered, ReplyP!Answered, Reply!Strays, ReplyP!Strays,
      Reply!ToSet, ReplyP!ToSet
<1>1. /\ Reply!ConstantsAllowed => ReplyP!ConstantsAllowed
      /\ Reply!Init => ReplyP!Init
  BY DEF Reply!ConstantsAllowed, ReplyP!ConstantsAllowed, Reply!Init,
         ReplyP!Init
<1>2. ASSUME NEW h
      PROVE  /\ Reply!OnLoad(h) => ReplyP!OnLoad(h)
             /\ Reply!OnVisibleChanged(h) => ReplyP!OnVisibleChanged(h)
             /\ Reply!Collect(h) => ReplyP!Collect(h)
             /\ Reply!Finalize(h) => ReplyP!Finalize(h)
  BY DEF Reply!OnLoad, ReplyP!OnLoad, Reply!OnVisibleChanged,
         ReplyP!OnVisibleChanged, Reply!Collect, ReplyP!Collect,
         Reply!Finalize, ReplyP!Finalize
<1>3. ASSUME NEW w, NEW h
      PROVE  Reply!HopIo(w, h) => ReplyP!HopIo(w, h)
  <2>1. Reply!NoRow(w, h) => ReplyP!NoRow(w, h)
    BY DEF Reply!NoRow, ReplyP!NoRow
  <2>2. Reply!OperationRow(w, h) => ReplyP!OperationRow(w, h)
    BY DEF Reply!OperationRow, ReplyP!OperationRow
  <2>3. Reply!SyncAction(w, h) => ReplyP!SyncAction(w, h)
    BY DEF Reply!SyncAction, ReplyP!SyncAction
  <2>4. Reply!TaggedAction(w, h) => ReplyP!TaggedAction(w, h)
    BY DEF Reply!TaggedAction, ReplyP!TaggedAction
  <2>5. Reply!AsyncAction(w, h) => ReplyP!AsyncAction(w, h)
    BY DEF Reply!AsyncAction, ReplyP!AsyncAction
  <2> QED BY <2>1, <2>2, <2>3, <2>4, <2>5 DEF Reply!HopIo, ReplyP!HopIo
<1>4. ASSUME NEW w
      PROVE  /\ Reply!Receive(w) => ReplyP!Receive(w)
             /\ Reply!Ask(w) => ReplyP!Ask(w)
             /\ Reply!Values(w) => ReplyP!Values(w)
             /\ Reply!Continue(w) => ReplyP!Continue(w)
             /\ Reply!Otherwise(w) => ReplyP!Otherwise(w)
  <2>1. Reply!Receive(w) => ReplyP!Receive(w)
    BY DEF Reply!Receive, ReplyP!Receive
  <2>2. Reply!Ask(w) => ReplyP!Ask(w)
    BY <1>3 DEF Reply!Ask, ReplyP!Ask
  <2>3. Reply!Values(w) => ReplyP!Values(w)
    BY DEF Reply!Values, ReplyP!Values
  <2>4. Reply!Continue(w) => ReplyP!Continue(w)
    BY DEF Reply!Continue, ReplyP!Continue
  <2>5. Reply!Otherwise(w) => ReplyP!Otherwise(w)
    BY DEF Reply!Otherwise, ReplyP!Otherwise
  <2> QED BY <2>1, <2>2, <2>3, <2>4, <2>5
<1>5. \A c : Reply!Close(c) => ReplyP!Close(c)
  BY DEF Reply!Close, ReplyP!Close
<1>6. Reply!Next => ReplyP!Next
  BY <1>2, <1>4, <1>5 DEF Reply!Next, ReplyP!Next
<1>7. ReplyP!RepliesReachTheirPeer => Reply!RepliesReachTheirPeer
  BY DEF ReplyP!RepliesReachTheirPeer, Reply!RepliesReachTheirPeer
<1> QED BY <1>1, <1>6, <1>7

(* What an action returns goes to the peer it answers, whatever the other    *)
(* parts do.                                                                 *)
THEOREM RepliesAreDelivered == ServicesSpec => []RepliesReachTheirPeer
<1>1. ReplyP!Spec => []ReplyP!RepliesReachTheirPeer
  BY ReplyInstances, ReplyConstants, ReplyP!RepliesDelivered
<1>2. ServicesInit => ReplyP!Init
  BY ReplyInstances DEF ServicesInit
<1>3. [ServicesNext]_servicesVars => [ReplyP!Next]_ReplyP!vars
  BY ReplyInstances DEF ServicesNext, servicesVars, replyVars, ReplyP!vars
<1>4. ReplyP!RepliesReachTheirPeer => RepliesReachTheirPeer
  BY ReplyInstances DEF RepliesReachTheirPeer
<1> QED
  BY <1>1, <1>2, <1>3, <1>4, PTL DEF ServicesSpec, ReplyP!Spec, servicesVars

-----------------------------------------------------------------------------
(* The two instances of PeerPool agree on what a thread does in a step ...   *)
LEMMA PoolStepsAgree ==
  ASSUME NEW t \in Pool!AllThreads
  PROVE  Pool!Step(t) => PoolP!Step(t)
<1> USE DEF Pool!None, PoolP!None, Pool!Idle, PoolP!Idle, Pool!NewPeer,
      PoolP!NewPeer, Pool!AllThreads, PoolP!AllThreads, Pool!At, PoolP!At,
      Pool!P, PoolP!P, Pool!Go, PoolP!Go, Pool!Free, PoolP!Free, Pool!Fail,
      PoolP!Fail, Pool!Return, PoolP!Return, Pool!Continue, PoolP!Continue,
      Pool!Listening, PoolP!Listening, Pool!Destroy, PoolP!Destroy,
      Pool!Cleared, PoolP!Cleared, Pool!Running, PoolP!Running, Pool!Stopped,
      PoolP!Stopped, Pool!lists, PoolP!lists, Pool!tables, PoolP!tables,
      Pool!history, PoolP!history
<1>1. Pool!AcquirePassive(t) => PoolP!AcquirePassive(t)
  BY DEF Pool!AcquirePassive, PoolP!AcquirePassive
<1>2. Pool!AcquireProactive(t) => PoolP!AcquireProactive(t)
  BY DEF Pool!AcquireProactive, PoolP!AcquireProactive
<1>3. Pool!AcquireNew(t) => PoolP!AcquireNew(t)
  BY DEF Pool!AcquireNew, PoolP!AcquireNew
<1>4. Pool!CloseSocket(t) => PoolP!CloseSocket(t)
  BY DEF Pool!CloseSocket, PoolP!CloseSocket
<1>5. Pool!BeginDisconnect(t) => PoolP!BeginDisconnect(t)
  BY DEF Pool!BeginDisconnect, PoolP!BeginDisconnect
<1>6. Pool!ReclaimServer(t) => PoolP!ReclaimServer(t)
  BY Zenon DEF Pool!ReclaimServer, PoolP!ReclaimServer
<1>7. Pool!ReclaimAccepted(t) => PoolP!ReclaimAccepted(t)
  BY DEF Pool!ReclaimAccepted, PoolP!ReclaimAccepted
<1>8. Pool!ReclaimClient(t) => PoolP!ReclaimClient(t)
  BY DEF Pool!ReclaimClient, PoolP!ReclaimClient
<1>9. Pool!AddClosed(t) => PoolP!AddClosed(t)
  BY DEF Pool!AddClosed, PoolP!AddClosed
<1>10. Pool!CreateAccept(t) => PoolP!CreateAccept(t)
  BY DEF Pool!CreateAccept, PoolP!CreateAccept
<1>11. Pool!CreateAcceptFails(t) => PoolP!CreateAcceptFails(t)
  BY DEF Pool!CreateAcceptFails, PoolP!CreateAcceptFails
<1>12. Pool!BeginAccept(t) => PoolP!BeginAccept(t)
  BY DEF Pool!BeginAccept, PoolP!BeginAccept
<1>13. Pool!BeginAcceptFails(t) => PoolP!BeginAcceptFails(t)
  BY Zenon DEF Pool!BeginAcceptFails, PoolP!BeginAcceptFails
<1>14. Pool!AddPendingAccept(t) => PoolP!AddPendingAccept(t)
  BY Zenon DEF Pool!AddPendingAccept, PoolP!AddPendingAccept
<1>15. Pool!EndAccept(t) => PoolP!EndAccept(t)
  BY DEF Pool!EndAccept, PoolP!EndAccept, Pool!FinishPending,
         PoolP!FinishPending
<1>16. Pool!EndAcceptFails(t) => PoolP!EndAcceptFails(t)
  BY DEF Pool!EndAcceptFails, PoolP!EndAcceptFails
<1>17. Pool!EndAcceptReturns(t) => PoolP!EndAcceptReturns(t)
  BY Zenon DEF Pool!EndAcceptReturns, PoolP!EndAcceptReturns
<1>18. Pool!FinishFailed(t) => PoolP!FinishFailed(t)
  BY Zenon DEF Pool!FinishFailed, PoolP!FinishFailed, Pool!FinishPending,
                PoolP!FinishPending
<1>19. Pool!AddPeer(t) => PoolP!AddPeer(t)
  BY DEF Pool!AddPeer, PoolP!AddPeer
<1>20. Pool!Wanted(t) => PoolP!Wanted(t)
  BY DEF Pool!Wanted, PoolP!Wanted
<1>21. Pool!Unwanted(t) => PoolP!Unwanted(t)
  BY DEF Pool!Unwanted, PoolP!Unwanted
<1>22. Pool!JoinAcceptedFails(t) => PoolP!JoinAcceptedFails(t)
  BY DEF Pool!JoinAcceptedFails, PoolP!JoinAcceptedFails
<1>23. Pool!Join(t) => PoolP!Join(t)
  BY DEF Pool!Join, PoolP!Join
<1>24. Pool!JoinFails(t) => PoolP!JoinFails(t)
  BY Zenon DEF Pool!JoinFails, PoolP!JoinFails
<1>25. Pool!Stop(t) => PoolP!Stop(t)
  BY Zenon DEF Pool!Stop, PoolP!Stop
<1>26. Pool!CloseClients(t) => PoolP!CloseClients(t)
  BY Zenon DEF Pool!CloseClients, PoolP!CloseClients, Pool!CloseAll,
                PoolP!CloseAll
<1>27. Pool!ClosePending(t) => PoolP!ClosePending(t)
  BY Zenon DEF Pool!ClosePending, PoolP!ClosePending, Pool!CloseAll,
                PoolP!CloseAll
<1>28. Pool!Delete(t) => PoolP!Delete(t)
  BY DEF Pool!Delete, PoolP!Delete
<1>29. Pool!RemovePeer(t) => PoolP!RemovePeer(t)
  BY DEF Pool!RemovePeer, PoolP!RemovePeer
<1>30. Pool!CreateClient(t) => PoolP!CreateClient(t)
  BY DEF Pool!CreateClient, PoolP!CreateClient
<1>31. Pool!CreateClientFails(t) => PoolP!CreateClientFails(t)
  BY DEF Pool!CreateClientFails, PoolP!CreateClientFails
<1>32. Pool!AddClient(t) => PoolP!AddClient(t)
  BY DEF Pool!AddClient, PoolP!AddClient
<1>33. Pool!JoinClientFails(t) => PoolP!JoinClientFails(t)
  BY DEF Pool!JoinClientFails, PoolP!JoinClientFails
<1>34. Pool!BeginConnect(t) => PoolP!BeginConnect(t)
  BY DEF Pool!BeginConnect, PoolP!BeginConnect
<1>35. Pool!BeginConnectFails(t) => PoolP!BeginConnectFails(t)
  BY DEF Pool!BeginConnectFails, PoolP!BeginConnectFails
<1>36. Pool!EndConnect(t) => PoolP!EndConnect(t)
  BY DEF Pool!EndConnect, PoolP!EndConnect
<1>37. Pool!TimedOut(t) => PoolP!TimedOut(t)
  BY DEF Pool!TimedOut, PoolP!TimedOut
<1>38. Pool!DestroyUnavailability(t) => PoolP!DestroyUnavailability(t)
  BY DEF Pool!DestroyUnavailability, PoolP!DestroyUnavailability
<1>39. Pool!AcquirePeer(t) => PoolP!AcquirePeer(t)
  BY <1>1, <1>2, <1>3, Zenon
  DEF Pool!AcquirePeer, PoolP!AcquirePeer
<1>40. Pool!Close(t) => PoolP!Close(t)
  BY <1>4, <1>5, Zenon
  DEF Pool!Close, PoolP!Close
<1>41. Pool!Reclaim(t) => PoolP!Reclaim(t)
  BY <1>6, <1>7, <1>8, <1>9, Zenon
  DEF Pool!Reclaim, PoolP!Reclaim
<1>42. Pool!PostAccept(t) => PoolP!PostAccept(t)
  BY <1>10, <1>11, <1>12, <1>13, <1>14, Zenon
  DEF Pool!PostAccept, PoolP!PostAccept
<1>43. Pool!Accept(t) => PoolP!Accept(t)
  BY <1>15, <1>16, <1>17, <1>18, <1>19, <1>20, <1>21, <1>22, Zenon
  DEF Pool!Accept, PoolP!Accept
<1>44. Pool!Serve(t) => PoolP!Serve(t)
  BY <1>23, <1>24, <1>25, <1>26, <1>27, <1>28, <1>29, Zenon
  DEF Pool!Serve, PoolP!Serve
<1>45. Pool!Client(t) => PoolP!Client(t)
  BY <1>30, <1>31, <1>32, <1>33, <1>34, <1>35, <1>36, <1>37, <1>38, Zenon
  DEF Pool!Client, PoolP!Client
<1> QED BY <1>39, <1>40, <1>41, <1>42, <1>43, <1>44, <1>45, Zenon
    DEF Pool!Step, PoolP!Step

(* ... and on what begins and what a completion does.                        *)
LEMMA PoolBeginsAgree ==
  ASSUME NEW t
  PROVE  /\ Pool!User(t) => PoolP!User(t)
         /\ Pool!ExecuteIO(t) => PoolP!ExecuteIO(t)
<1> USE DEF Pool!None, PoolP!None, Pool!Idle, PoolP!Idle, Pool!NewPeer,
      PoolP!NewPeer, Pool!AllThreads, PoolP!AllThreads, Pool!At, PoolP!At,
      Pool!P, PoolP!P, Pool!Go, PoolP!Go, Pool!Free, PoolP!Free, Pool!Fail,
      PoolP!Fail, Pool!Return, PoolP!Return, Pool!Continue, PoolP!Continue,
      Pool!Listening, PoolP!Listening, Pool!Destroy, PoolP!Destroy,
      Pool!Cleared, PoolP!Cleared, Pool!Running, PoolP!Running, Pool!Stopped,
      PoolP!Stopped, Pool!lists, PoolP!lists, Pool!tables, PoolP!tables,
      Pool!history, PoolP!history, Pool!Take, PoolP!Take, Pool!TakeAccept,
      PoolP!TakeAccept
<1>1. Pool!Listen(t) => PoolP!Listen(t)
  BY DEF Pool!Listen, PoolP!Listen
<1>2. Pool!Connect(t) => PoolP!Connect(t)
  BY DEF Pool!Connect, PoolP!Connect
<1>3. \A s : Pool!CloseServer(t, s) => PoolP!CloseServer(t, s)
  BY DEF Pool!CloseServer, PoolP!CloseServer
<1>4. \A c : Pool!CloseClient(t, c) => PoolP!CloseClient(t, c)
  BY DEF Pool!CloseClient, PoolP!CloseClient
<1>5. \A p : Pool!CloseServerItem(t, p) => PoolP!CloseServerItem(t, p)
  BY DEF Pool!CloseServerItem, PoolP!CloseServerItem
<1>6. \A p : /\ Pool!Accepted(t, p) => PoolP!Accepted(t, p)
             /\ Pool!AcceptFailed(t, p) => PoolP!AcceptFailed(t, p)
  BY DEF Pool!Accepted, PoolP!Accepted, Pool!AcceptFailed, PoolP!AcceptFailed
<1>7. \A p : Pool!TakeConnect(t, p) => PoolP!TakeConnect(t, p)
  BY DEF Pool!TakeConnect, PoolP!TakeConnect
<1>8. \A p : /\ Pool!TakeRead(t, p) => PoolP!TakeRead(t, p)
             /\ Pool!TakeDisconnect(t, p) => PoolP!TakeDisconnect(t, p)
  BY DEF Pool!TakeRead, PoolP!TakeRead, Pool!TakeDisconnect,
         PoolP!TakeDisconnect
<1>9. Pool!User(t) => PoolP!User(t)
  BY <1>1, <1>2, <1>3, <1>4, <1>5, Zenon DEF Pool!User, PoolP!User
<1>10. Pool!ExecuteIO(t) => PoolP!ExecuteIO(t)
  BY <1>6, <1>7, <1>8, Zenon DEF Pool!ExecuteIO, PoolP!ExecuteIO
<1> QED BY <1>9, <1>10

(* The two instances of PeerPool agree.                                      *)
LEMMA PoolInstances ==
  /\ Pool!ConstantsAllowed => PoolP!ConstantsAllowed
  /\ Pool!Init => PoolP!Init
  /\ Pool!Next => PoolP!Next
  /\ PoolP!PeersInOnePlace => Pool!PeersInOnePlace
  /\ PoolP!KeysMatch => Pool!KeysMatch
<1> USE DEF Pool!None, PoolP!None, Pool!AllThreads, PoolP!AllThreads, Pool!P,
      PoolP!P
<1>1. /\ Pool!ConstantsAllowed => PoolP!ConstantsAllowed
      /\ Pool!Init => PoolP!Init
  BY DEF Pool!ConstantsAllowed, PoolP!ConstantsAllowed, Pool!Init, PoolP!Init,
         Pool!Idle, PoolP!Idle
<1>2. /\ Pool!Raced' = PoolP!Raced' /\ Pool!Overlapped' = PoolP!Overlapped'
      /\ Pool!Reused' = PoolP!Reused'
      /\ Pool!OfOverlapped' = PoolP!OfOverlapped'
  BY DEF Pool!Raced, PoolP!Raced, Pool!Meet, PoolP!Meet, Pool!Closing,
         PoolP!Closing, Pool!Overlapped, PoolP!Overlapped, Pool!Reused,
         PoolP!Reused, Pool!OfOverlapped, PoolP!OfOverlapped
<1>3. ASSUME Pool!Next PROVE PoolP!Next
  <2>1. \/ /\ (\E t \in Pool!AllThreads : Pool!Step(t))
           /\ UNCHANGED <<poolCalls, events>>
        \/ /\ \E t \in Users : Pool!User(t)
           /\ poolCalls < PoolCalls /\ poolCalls + events < MaxEvents
           /\ poolCalls' = poolCalls + 1
           /\ UNCHANGED events
        \/ /\ \E t \in IOThreads : Pool!ExecuteIO(t)
           /\ poolCalls + events < MaxEvents /\ events' = events + 1
           /\ UNCHANGED poolCalls
    BY <1>3, Zenon DEF Pool!Next
  <2>2. ASSUME NEW t \in Pool!AllThreads, Pool!Step(t) PROVE PoolP!Step(t)
    BY <2>2, PoolStepsAgree, Zenon
  <2>3. ASSUME NEW t \in Users, Pool!User(t) PROVE PoolP!User(t)
    BY <2>3, PoolBeginsAgree, Zenon
  <2>4. ASSUME NEW t \in IOThreads, Pool!ExecuteIO(t) PROVE PoolP!ExecuteIO(t)
    BY <2>4, PoolBeginsAgree, Zenon
  <2>5. \/ /\ (\E t \in PoolP!AllThreads : PoolP!Step(t))
           /\ UNCHANGED <<poolCalls, events>>
        \/ /\ \E t \in Users : PoolP!User(t)
           /\ poolCalls < PoolCalls /\ poolCalls + events < MaxEvents
           /\ poolCalls' = poolCalls + 1
           /\ UNCHANGED events
        \/ /\ \E t \in IOThreads : PoolP!ExecuteIO(t)
           /\ poolCalls + events < MaxEvents /\ events' = events + 1
           /\ UNCHANGED poolCalls
    BY <2>1, <2>2, <2>3, <2>4, Zenon
  <2>6. /\ raced' = (raced \cup PoolP!Raced') \ {PoolP!None}
        /\ overlapped' = overlapped \cup PoolP!Overlapped'
        /\ strayed' = (strayed \cup PoolP!Reused' \cup PoolP!OfOverlapped')
                         \ {PoolP!None}
    BY <1>2, <1>3 DEF Pool!Next
  <2> QED BY <2>5, <2>6 DEF PoolP!Next
<1>4. \A S : Pool!Cardinality(S) = PoolP!Cardinality(S)
  BY Zenon DEF Pool!Cardinality, PoolP!Cardinality
<1>5. PoolP!PeersInOnePlace => Pool!PeersInOnePlace
  BY <1>4
  DEF Pool!PeersInOnePlace, PoolP!PeersInOnePlace, Pool!Times, PoolP!Times,
      Pool!Held, PoolP!Held, Pool!Kept, PoolP!Kept, Pool!Known, PoolP!Known
<1>6. PoolP!KeysMatch => Pool!KeysMatch
  BY <1>4
  DEF Pool!KeysMatch, PoolP!KeysMatch, Pool!Times, PoolP!Times,
      Pool!Held, PoolP!Held, Pool!Kept, PoolP!Kept, Pool!Known, PoolP!Known,
      Pool!Cleared, PoolP!Cleared
<1> QED BY <1>1, <1>3, <1>5, <1>6

(* A behaviour of the composition is one of the pool.                        *)
LEMMA ServicesAreAPool == ServicesSpec => PoolP!Spec
<1>1. ServicesInit => PoolP!Init
  BY PoolInstances DEF ServicesInit
<1>2. [ServicesNext]_servicesVars => [PoolP!Next]_PoolP!vars
  BY PoolInstances
  DEF ServicesNext, servicesVars, poolVars, PoolP!vars, PoolP!lists,
      PoolP!tables, PoolP!history
<1> QED BY <1>1, <1>2, PTL DEF ServicesSpec, PoolP!Spec, servicesVars

(* A peer that nobody has disturbed is in use or on one list of closed       *)
(* peers, once, whatever the other parts do.                                 *)
THEOREM PeersStayInOnePlace == ServicesSpec => []PeersInOnePlace
<1>1. PoolP!Spec => []PoolP!PeersInOnePlace
  BY PoolInstances, PoolConstants, PoolP!PeersPlaced
<1>2. PoolP!PeersInOnePlace => PeersInOnePlace
  BY PoolInstances DEF PeersInOnePlace
<1> QED BY <1>1, <1>2, ServicesAreAPool, PTL

(* The tables of clients and of servers and the undisturbed peers agree,     *)
(* whatever the other parts do.                                              *)
THEOREM KeysStayMatched == ServicesSpec => []KeysMatch
<1>1. PoolP!Spec => []PoolP!KeysMatch
  BY PoolInstances, PoolConstants, PoolP!KeysMatched
<1>2. PoolP!KeysMatch => KeysMatch
  BY PoolInstances DEF KeysMatch
<1> QED BY <1>1, <1>2, ServicesAreAPool, PTL

-----------------------------------------------------------------------------
(* An endpoint, for every set of threads and any number of calls.            *)
USE DEF App!None

AppPlaces ==
  {"idle", "connect", "store", "data", "context", "acquired", "clear",
   "reconnect"}

AppCallType == [at : AppPlaces, id : Nat, ok : BOOLEAN]

(* The cookies that the unit has given out are positive.                    *)
AppTypeInv ==
  /\ lastID \in Nat /\ cookie \in Nat
  /\ unit \subseteq Nat \ {0}
  /\ appCrossed \in BOOLEAN
  /\ appCall \in [AppThreads -> AppCallType]

(* Calls that do not overlap: one thread at a time is in one.               *)
AppOneCall ==
  ~appCrossed => \A t, u \in AppThreads :
                   App!At(t, "idle") \/ App!At(u, "idle") \/ t = u

(* What may be open while a thread is at each place of its call.            *)
AppOpened(t) ==
  /\ App!At(t, "connect") => cookie = App!None /\ unit = {}
  /\ App!At(t, "store") => unit \subseteq {appCall[t].id}
  /\ App!At(t, "acquired") => unit \subseteq {appCall[t].id}
  /\ App!At(t, "data") => unit \subseteq {cookie}
  /\ App!At(t, "context") => unit \subseteq {cookie}
  /\ App!At(t, "clear") => unit = {}
  /\ App!At(t, "reconnect") => unit = {}

AppInv ==
  /\ AppTypeInv /\ AppOneCall
  /\ ~appCrossed => \A t \in AppThreads : AppOpened(t)
  /\ App!NothingForgotten

(* Nothing is open before the first call.                                   *)
LEMMA AppInvInit == App!Init => AppInv
<1> SUFFICES ASSUME App!Init PROVE AppInv
  OBVIOUS
<1>1. /\ unit = {}
      /\ \A t \in AppThreads : App!At(t, "idle")
  BY DEF App!Init, App!At, App!Idle
<1>2. AppTypeInv
  BY DEF App!Init, AppTypeInv, App!Idle, AppPlaces, AppCallType
<1> QED
  BY <1>1, <1>2 DEF AppInv, AppOneCall, AppOpened, App!NothingForgotten, App!At

(* A call that is begun.                                                    *)
LEMMA AppBegins ==
  ASSUME AppTypeInv, NEW t \in AppThreads, NEW step \in AppPlaces,
         NEW id \in Nat,
         App!BeginWith(t, step, id)
  PROVE  /\ appCall' = [appCall EXCEPT
               ![t] = [at |-> step, id |-> id, ok |-> FALSE]]
         /\ appCall' \in [AppThreads -> AppCallType]
         /\ appCrossed' \in BOOLEAN
         /\ appCrossed' = (appCrossed \/ ~App!Alone(t))
         /\ appCall[t].at = "idle"
BY DEF App!BeginWith, AppTypeInv, App!At, AppCallType

(* A call that begins finds what NothingForgotten says, and leaves what its *)
(* place says, if no other call runs.                                       *)
LEMMA AppBeginKeeps ==
  ASSUME AppInv, NEW t \in AppThreads, NEW step \in AppPlaces, NEW id \in Nat,
         App!BeginWith(t, step, id), AppTypeInv',
         ~App!Alone(t) \/ appCrossed \/
           (/\ AppOpened(t)'
            /\ step = "idle" => unit' \subseteq {cookie'})
  PROVE  AppInv'
<1>1. /\ appCall' = [appCall EXCEPT
            ![t] = [at |-> step, id |-> id, ok |-> FALSE]]
      /\ appCall \in [AppThreads -> AppCallType]
      /\ appCrossed' = (appCrossed \/ ~App!Alone(t))
  BY AppBegins DEF AppInv, AppTypeInv
<1>2. CASE ~App!Alone(t) \/ appCrossed
  BY <1>1, <1>2 DEF AppInv, AppOneCall, App!NothingForgotten
<1>3. CASE App!Alone(t) /\ ~appCrossed
  <2>1. \A u \in AppThreads \ {t} : appCall'[u].at = "idle"
    BY <1>1, <1>3 DEF App!Alone, App!At
  <2>2. AppOneCall'
    BY <2>1 DEF AppOneCall, App!At
  <2>3. \A u \in AppThreads : AppOpened(u)'
    BY <1>3, <2>1 DEF AppOpened, App!At
  <2>4. App!NothingForgotten'
    BY <1>1, <1>3 DEF App!NothingForgotten, App!At
  <2> QED BY <2>2, <2>3, <2>4 DEF AppInv
<1> QED BY <1>2, <1>3

(* Before a call that begins alone, what is open is what the cookie says.   *)
LEMMA AppBeginFinds ==
  ASSUME AppInv, NEW t \in AppThreads, App!At(t, "idle"), App!Alone(t),
         ~appCrossed
  PROVE  unit \subseteq {cookie}
BY DEF AppInv, App!NothingForgotten, App!Alone

LEMMA AppBeginPreserves ==
  ASSUME AppInv, NEW t \in AppThreads,
         \/ App!Create(t) \/ App!CreateFinal(t) \/ App!AcquirePeer(t)
         \/ App!CreateByAcquiredPeer(t) \/ App!Close(t) \/ App!Lost(t)
  PROVE  AppInv'
<1> USE DEF AppPlaces
<1>0. AppTypeInv
  BY DEF AppInv
<1>1. CASE App!Create(t)
  <2>1. /\ App!BeginWith(t, "connect", App!None)
        /\ UNCHANGED <<cookie, unit, lastID>>
        /\ cookie = App!None
    BY <1>1 DEF App!Create, App!Begin
  <2>2. /\ appCall'[t].at = "connect" /\ appCall[t].at = "idle"
        /\ appCall' \in [AppThreads -> AppCallType] /\ appCrossed' \in BOOLEAN
    BY <1>0, <2>1, AppBegins DEF AppTypeInv
  <2>3. AppTypeInv'
    BY <1>0, <2>1, <2>2 DEF AppTypeInv
  <2>4. ASSUME App!Alone(t), ~appCrossed PROVE AppOpened(t)'
    BY <1>0, <2>1, <2>2, <2>4, AppBeginFinds DEF AppOpened, App!At, AppTypeInv
  <2> QED BY <2>1, <2>3, <2>4, AppBeginKeeps
<1>2. CASE App!CreateFinal(t)
  <2>1. App!BeginWith(t, "data", App!None) /\ UNCHANGED <<cookie, unit, lastID>>
    BY <1>2 DEF App!CreateFinal, App!Begin
  <2>2. /\ appCall'[t].at = "data" /\ appCall[t].at = "idle"
        /\ appCall' \in [AppThreads -> AppCallType] /\ appCrossed' \in BOOLEAN
    BY <1>0, <2>1, AppBegins DEF AppTypeInv
  <2>3. AppTypeInv'
    BY <1>0, <2>1, <2>2 DEF AppTypeInv
  <2>4. ASSUME App!Alone(t), ~appCrossed PROVE AppOpened(t)'
    BY <2>1, <2>2, <2>4, AppBeginFinds DEF AppOpened, App!At
  <2> QED BY <2>1, <2>3, <2>4, AppBeginKeeps
<1>3. CASE App!AcquirePeer(t)
  <2>1. /\ App!BeginWith(t, "acquired", lastID + 1) /\ lastID + 1 \in Nat
        /\ lastID' = lastID + 1 /\ unit' = unit \cup {lastID + 1}
        /\ cookie = App!None /\ UNCHANGED cookie
    BY <1>0, <1>3 DEF App!AcquirePeer, AppTypeInv
  <2>2. /\ appCall'[t].at = "acquired" /\ appCall'[t].id = lastID + 1
        /\ appCall[t].at = "idle"
        /\ appCall' \in [AppThreads -> AppCallType] /\ appCrossed' \in BOOLEAN
    BY <1>0, <2>1, AppBegins DEF AppTypeInv
  <2>3. AppTypeInv'
    BY <1>0, <2>1, <2>2 DEF AppTypeInv
  <2>4. ASSUME App!Alone(t), ~appCrossed PROVE AppOpened(t)'
    <3>1. unit = {}
      BY <1>0, <2>1, <2>2, <2>4, AppBeginFinds DEF App!At, AppTypeInv
    <3> QED BY <2>1, <2>2, <3>1 DEF AppOpened, App!At
  <2> QED BY <2>1, <2>3, <2>4, AppBeginKeeps
<1>4. CASE App!CreateByAcquiredPeer(t)
  <2>1. PICK step \in {"context", "idle"} :
          /\ App!BeginWith(t, step, App!None)
          /\ step = "context" => UNCHANGED unit
          /\ unit' \in {unit, unit \ {cookie}}
          /\ UNCHANGED <<cookie, lastID>>
    BY <1>4 DEF App!CreateByAcquiredPeer, App!Begin
  <2>2. /\ appCall'[t].at = step /\ appCall[t].at = "idle"
        /\ appCall' \in [AppThreads -> AppCallType] /\ appCrossed' \in BOOLEAN
    BY <1>0, <2>1, AppBegins DEF AppTypeInv
  <2>3. AppTypeInv'
    BY <1>0, <2>1, <2>2 DEF AppTypeInv
  <2>4. ASSUME App!Alone(t), ~appCrossed
        PROVE  AppOpened(t)' /\ unit' \subseteq {cookie'}
    BY <2>1, <2>2, <2>4, AppBeginFinds DEF AppOpened, App!At
  <2> QED BY <2>1, <2>3, <2>4, AppBeginKeeps
<1>5. CASE App!Close(t)
  <2>1. /\ App!BeginWith(t, "clear", App!None)
        /\ unit' = unit \ {cookie} /\ UNCHANGED <<cookie, lastID>>
    BY <1>5 DEF App!Close, App!Begin
  <2>2. /\ appCall'[t].at = "clear" /\ appCall[t].at = "idle"
        /\ appCall' \in [AppThreads -> AppCallType] /\ appCrossed' \in BOOLEAN
    BY <1>0, <2>1, AppBegins DEF AppTypeInv
  <2>3. AppTypeInv'
    BY <1>0, <2>1, <2>2 DEF AppTypeInv
  <2>4. ASSUME App!Alone(t), ~appCrossed PROVE AppOpened(t)'
    BY <2>1, <2>2, <2>4, AppBeginFinds DEF AppOpened, App!At
  <2> QED BY <2>1, <2>3, <2>4, AppBeginKeeps
<1>6. CASE App!Lost(t)
  <2>1. /\ App!BeginWith(t, "reconnect", App!None)
        /\ unit' = unit \ {cookie} /\ UNCHANGED <<cookie, lastID>>
    BY <1>6 DEF App!Lost, App!Begin
  <2>2. /\ appCall'[t].at = "reconnect" /\ appCall[t].at = "idle"
        /\ appCall' \in [AppThreads -> AppCallType] /\ appCrossed' \in BOOLEAN
    BY <1>0, <2>1, AppBegins DEF AppTypeInv
  <2>3. AppTypeInv'
    BY <1>0, <2>1, <2>2 DEF AppTypeInv
  <2>4. ASSUME App!Alone(t), ~appCrossed PROVE AppOpened(t)'
    BY <2>1, <2>2, <2>4, AppBeginFinds DEF AppOpened, App!At
  <2> QED BY <2>1, <2>3, <2>4, AppBeginKeeps
<1> QED BY <1>1, <1>2, <1>3, <1>4, <1>5, <1>6

(* A step of a call that is under way: the other threads are idle, if no    *)
(* call was begun in the middle of another one.                             *)
LEMMA AppStepKeeps ==
  ASSUME AppInv, NEW t \in AppThreads, AppTypeInv', UNCHANGED appCrossed,
         ~App!At(t, "idle"),
         \A u \in AppThreads \ {t} : appCall'[u] = appCall[u],
         ~appCrossed =>
           /\ AppOpened(t)'
           /\ App!At(t, "idle")' => unit' \subseteq {cookie'}
  PROVE  AppInv'
<1>1. CASE appCrossed
  BY <1>1 DEF AppInv, AppOneCall, App!NothingForgotten
<1>2. CASE ~appCrossed
  <2>1. \A u \in AppThreads \ {t} : appCall'[u].at = "idle"
    BY <1>2 DEF AppInv, AppOneCall, App!At
  <2>2. AppOneCall'
    BY <2>1 DEF AppOneCall, App!At
  <2>3. \A u \in AppThreads : AppOpened(u)'
    BY <1>2, <2>1 DEF AppOpened, App!At
  <2>4. App!NothingForgotten'
    BY <1>2 DEF App!NothingForgotten, App!At
  <2> QED BY <2>2, <2>3, <2>4 DEF AppInv
<1> QED BY <1>1, <1>2 DEF AppInv, AppTypeInv

LEMMA AppStepPreserves ==
  ASSUME AppInv, NEW t \in AppThreads,
         \/ App!Open(t) \/ App!Store(t) \/ App!Data(t) \/ App!Context(t)
         \/ App!Acquired(t) \/ App!Clear(t) \/ App!Reconnect(t)
  PROVE  AppInv'
<1>1. UNCHANGED appCrossed
  BY DEF App!Open, App!Store, App!Data, App!Context, App!Acquired, App!Clear,
         App!Reconnect, App!Under
<1>2. AppTypeInv
  BY DEF AppInv
<1>3. ~appCrossed => AppOpened(t)
  BY DEF AppInv
<1> SUFFICES /\ AppTypeInv'
             /\ ~App!At(t, "idle")
             /\ \A u \in AppThreads \ {t} : appCall'[u] = appCall[u]
             /\ AppOpened(t) =>
                  /\ AppOpened(t)'
                  /\ App!At(t, "idle")' => unit' \subseteq {cookie'}
  BY <1>1, <1>3, AppStepKeeps
<1> USE <1>1, <1>2 DEF AppTypeInv, AppPlaces, AppCallType, App!At, AppOpened
<1>4. CASE App!Open(t)
  <2>1. CASE /\ lastID' = lastID + 1
             /\ \E ok, open \in BOOLEAN :
                  /\ unit' = IF open THEN unit \cup {lastID'} ELSE unit
                  /\ appCall' = [appCall EXCEPT ![t] = App!Stores(lastID', ok)]
    BY <1>4, <2>1 DEF App!Open, App!Stores, App!Under
  <2>2. CASE /\ appCall' = [appCall EXCEPT ![t] = App!Stores(App!None, FALSE)]
             /\ UNCHANGED <<unit, lastID>>
    BY <1>4, <2>2 DEF App!Open, App!Stores, App!Under
  <2> QED BY <1>4, <2>1, <2>2 DEF App!Open
<1>5. CASE App!Store(t)
  <2>1. cookie' = appCall[t].id /\ cookie' \in Nat /\ UNCHANGED <<unit, lastID>>
    BY <1>5 DEF App!Store
  <2>2. CASE App!Go(t, "data")
    <3>1. appCall' \in [AppThreads -> AppCallType]
      BY <2>2 DEF App!Go
    <3> QED BY <1>5, <2>1, <2>2, <3>1 DEF App!Store, App!Go
  <2>3. CASE App!Return(t)
    <3>1. appCall' \in [AppThreads -> AppCallType]
      BY <2>3 DEF App!Return, App!Idle
    <3> QED BY <1>5, <2>1, <2>3, <3>1 DEF App!Store, App!Return, App!Idle
  <2> QED BY <1>5, <2>2, <2>3 DEF App!Store
<1>6. CASE App!Data(t)
  <2>1. CASE App!Go(t, "context") /\ UNCHANGED <<unit, cookie>>
    <3>1. appCall' \in [AppThreads -> AppCallType]
      BY <2>1 DEF App!Go
    <3> QED BY <1>6, <2>1, <3>1 DEF App!Data, App!Go
  <2>2. CASE /\ unit' = unit \ {cookie}
             /\ cookie' \in {App!None, cookie}
             /\ App!Return(t)
    <3>1. appCall' \in [AppThreads -> AppCallType]
      BY <2>2 DEF App!Return, App!Idle
    <3> QED BY <1>6, <2>2, <3>1 DEF App!Data, App!Return, App!Idle
  <2> QED BY <1>6, <2>1, <2>2 DEF App!Data
<1>7. CASE App!Context(t)
  <2>1. appCall' \in [AppThreads -> AppCallType]
    BY <1>7 DEF App!Context, App!Return, App!Idle
  <2> QED BY <1>7, <2>1 DEF App!Context, App!Return, App!Idle
<1>8. CASE App!Acquired(t)
  <2>1. appCall' \in [AppThreads -> AppCallType]
    BY <1>8 DEF App!Acquired, App!Return, App!Idle
  <2> QED BY <1>8, <2>1 DEF App!Acquired, App!Return, App!Idle
<1>9. CASE App!Clear(t)
  BY <1>9 DEF App!Clear, App!Return, App!Idle, App!Under
<1>10. CASE App!Reconnect(t)
  BY <1>10 DEF App!Reconnect, App!Return, App!Idle
<1> QED BY <1>4, <1>5, <1>6, <1>7, <1>8, <1>9, <1>10

(* The end of a delay either changes nothing or begins with Create().       *)
LEMMA AppDelayedPreserves ==
  ASSUME AppInv, NEW t \in AppThreads, App!Delayed(t)
  PROVE  AppInv'
<1> USE DEF AppInv, AppTypeInv
<1>1. CASE cc /\ cookie = App!None
  <2>1. /\ appCrossed' = (appCrossed \/ ~App!Alone(t))
        /\ appCrossed' \in BOOLEAN
        /\ appCall[t].at = "idle" /\ appCall'[t].at = "connect"
        /\ appCall' \in [AppThreads -> AppCallType]
        /\ \A u \in AppThreads \ {t} : appCall'[u] = appCall[u]
        /\ UNCHANGED <<unit, cookie, lastID>>
    BY <1>1 DEF App!Delayed, App!Go, App!At, AppPlaces, AppCallType
  <2>2. AppTypeInv'
    BY <2>1
  <2>3. CASE ~App!Alone(t) \/ appCrossed
    BY <2>1, <2>2, <2>3 DEF AppOneCall, App!NothingForgotten
  <2>4. CASE App!Alone(t) /\ ~appCrossed
    <3>1. \A u \in AppThreads \ {t} : appCall'[u].at = "idle"
      BY <2>1, <2>4 DEF App!Alone, App!At
    <3>2. unit' = {} /\ cookie' = App!None
      BY <1>1, <2>1, <2>4, AppBeginFinds DEF App!At
    <3>3. AppOneCall'
      BY <3>1 DEF AppOneCall, App!At
    <3>4. \A u \in AppThreads : AppOpened(u)'
      BY <3>2 DEF AppOpened
    <3> QED BY <2>2, <3>2, <3>3, <3>4 DEF App!NothingForgotten
  <2> QED BY <2>3, <2>4
<1>2. CASE ~(cc /\ cookie = App!None)
  BY <1>2 DEF App!Delayed, AppOneCall, AppOpened, App!NothingForgotten, App!At
<1> QED BY <1>1, <1>2

(* Whatever fails half way and whenever a delay is over, what is open is what*)
(* the cookie says, for calls that do not overlap: NothingForgotten for every*)
(* number of threads, of calls and of connections.                           *)
THEOREM EndpointForgetsNothing == ServicesSpec => []NothingForgotten
<1>1. ServicesInit => AppInv
  BY AppInvInit DEF ServicesInit
<1>2. AppInv /\ [ServicesNext]_servicesVars => AppInv'
  <2> SUFFICES ASSUME AppInv, [ServicesNext]_servicesVars PROVE AppInv'
    OBVIOUS
  <2>1. App!Next \/ UNCHANGED appVars
    BY DEF ServicesNext, servicesVars
  <2>2. CASE UNCHANGED appVars
    <3>1. UNCHANGED <<lastID, cookie, unit, appCrossed, appCall>>
      BY <2>2 DEF appVars
    <3> QED
      BY <3>1 DEF AppInv, AppTypeInv, AppOneCall, AppOpened,
                  App!NothingForgotten, App!At
  <2>3. CASE App!Next
    BY <2>3, AppBeginPreserves, AppStepPreserves, AppDelayedPreserves
    DEF App!Next
  <2> QED BY <2>1, <2>2, <2>3
<1>3. AppInv => NothingForgotten
  BY DEF AppInv, NothingForgotten
<1> QED BY <1>1, <1>2, <1>3, PTL DEF ServicesSpec, servicesVars

-----------------------------------------------------------------------------
(* The contexts of a host.  The instance has the constants of HostContext as *)
(* they are, so what follows holds for any of them.                          *)

HostNames == Cookies \cup Keys
HostOps   == {"none", "AddServer", "RemoveServer", "RemoveAllServers",
              "AddClient", "RemoveClient"}
HostSteps == {"idle", "find", "list", "next"} \cup HostOps

HostCallType ==
  [op : HostOps, at : HostSteps, of : HostNames \cup {Host!None},
   ref : Cookies \cup {Host!None}, primary : BOOLEAN, psc : Nat,
   list : SUBSET Cookies, seen : Nat]

HostContexts == [of : HostNames, primary : BOOLEAN, out : BOOLEAN]

HostTypeInv ==
  /\ context \in Seq(HostContexts)
  /\ mapServer \in [Cookies -> Nat] /\ mapMapping \in [Cookies -> Nat]
  /\ mapClient \in [Keys -> Nat]
  /\ changes \in Nat
  /\ hostCall \in [Callers -> HostCallType]

(* A call about one cookie or key is at one of these steps, and its kind    *)
(* says which table it changes.                                             *)
HostOfCall(t) ==
  LET c == hostCall[t] IN
  /\ c.op = "none" <=> c.at = "idle"
  /\ c.op \in {"AddServer", "RemoveServer"} =>
       c.at \in {"find", c.op} /\ c.of \in Cookies
  /\ c.op \in {"AddClient", "RemoveClient"} =>
       c.at \in {"find", c.op} /\ c.of \in Keys
  /\ c.op = "RemoveAllServers" =>
       /\ c.at \in {"list", "next", "find", c.op}
       /\ c.at \in {"find", c.op} => c.of \in Cookies

HostAdding(t)   == hostCall[t].at \in {"AddServer", "AddClient"}
HostRemoving(t) == hostCall[t].at \in {"RemoveServer", "RemoveAllServers",
                               "RemoveClient"}
HostHas(t)      == \/ hostCall[t].at = "find"
                   \/ HostAdding(t) \/ HostRemoving(t)

(* Two calls that have one cookie or key at a time are recorded.            *)
HostApart ==
  \A t, u \in Callers :
    HostHas(t) /\ HostHas(u) /\ t # u /\ Host!Of(t) = Host!Of(u)
        => Host!Of(t) \in hostClashed

(* The tables hold contexts of their own keys.                              *)
HostTablesInv ==
  \A of \in HostNames : Host!Stored(of) # Host!None =>
    Host!Stored(of) \in DOMAIN context /\ context[Host!Stored(of)].of = of

(* What a call has found is still there when it goes on, if it is alone.    *)
HostFoundInv ==
  \A t \in Callers :
    /\ HostAdding(t) /\ Host!Of(t) \notin hostClashed
         => Host!Stored(Host!Of(t)) = Host!None
    /\ HostRemoving(t) =>
         /\ hostCall[t].psc \in DOMAIN context
         /\ context[hostCall[t].psc].of = Host!Of(t)
         /\ Host!Of(t) \notin hostClashed
              => Host!Stored(Host!Of(t)) = hostCall[t].psc

HostInv ==
  /\ HostTypeInv /\ \A t \in Callers : HostOfCall(t)
  /\ HostApart /\ HostTablesInv /\ HostFoundInv
  /\ Host!ContextsKept

(* The end of a call or of one removal: the caller has nothing any more.    *)
LEMMA HostReturns ==
  ASSUME NEW t \in Callers, HostTypeInv, HostOfCall(t), Host!Return(t)
  PROVE  /\ hostCall' \in [Callers -> HostCallType]
         /\ HostOfCall(t)' /\ ~HostHas(t)'
         /\ \A u \in Callers \ {t} : hostCall'[u] = hostCall[u]
<1> DEFINE c == IF hostCall[t].op = "RemoveAllServers"
                  THEN [hostCall[t] EXCEPT !.at = "next", !.of = Host!None]
                  ELSE Host!Idle
<1>1. hostCall' = [hostCall EXCEPT ![t] = c]
        /\ hostCall \in [Callers -> HostCallType]
  BY DEF Host!Return, HostTypeInv
<1>2. c \in HostCallType /\ c.at \in {"idle", "next"}
  BY <1>1 DEF HostCallType, HostSteps, HostOps, Host!Idle, Host!None
<1>3. c.op = IF c.at = "next" THEN "RemoveAllServers" ELSE "none"
  BY <1>1 DEF HostCallType, Host!Idle
<1>4. hostCall'[t] = c
  BY <1>1
<1> HIDE DEF c
<1> QED BY <1>1, <1>2, <1>3, <1>4
           DEF HostOfCall, HostHas, HostAdding, HostRemoving

(* A step that changes no table and leaves the others in their calls.       *)
LEMMA HostCallStep ==
  ASSUME Host!ConstantsAllowed, HostInv, NEW t \in Callers,
         UNCHANGED Host!tables, hostClashed \subseteq hostClashed',
         hostCall' \in [Callers -> HostCallType], HostOfCall(t)',
         \A u \in Callers \ {t} : hostCall'[u] = hostCall[u],
         HostHas(t)' => \A u \in Callers \ {t} :
                      HostHas(u) /\ Host!Of(u) = Host!Of(t)'
                          => Host!Of(t)' \in hostClashed',
         HostAdding(t)' /\ Host!Of(t)' \notin hostClashed'
             => Host!Stored(Host!Of(t)') = Host!None,
         HostRemoving(t)' => /\ Host!Stored(Host!Of(t)') = hostCall'[t].psc
                             /\ hostCall'[t].psc # Host!None
                                  /\ Host!Of(t)' \in HostNames
  PROVE  HostInv'
<1>1. UNCHANGED <<context, mapServer, mapMapping, mapClient, changes>>
  BY DEF Host!tables
<1>2. HostTypeInv'
  BY <1>1 DEF HostInv, HostTypeInv
<1>3. ASSUME NEW u \in Callers \ {t}
      PROVE  /\ HostOfCall(u) /\ HostOfCall(u)'
             /\ HostHas(u)' <=> HostHas(u)
             /\ HostAdding(u)' <=> HostAdding(u)
             /\ HostRemoving(u)' <=> HostRemoving(u)
             /\ Host!Of(u)' = Host!Of(u) /\ hostCall'[u].psc = hostCall[u].psc
  BY DEF HostOfCall, HostHas, HostAdding, HostRemoving, Host!Of, HostInv
<1>4. HostApart'
  BY <1>3 DEF HostApart, HostInv
<1>5. \A of : Host!Stored(of)' = Host!Stored(of)
  BY <1>1 DEF Host!Stored
<1>6. HostTablesInv'
  BY <1>1, <1>5 DEF HostTablesInv, HostInv
<1>7. HostFoundInv'
  BY <1>1, <1>3, <1>5 DEF HostFoundInv, HostTablesInv, HostInv
<1>8. Host!ContextsKept'
  BY <1>1 DEF Host!ContextsKept, Host!Kept, Host!Stored, HostInv
<1> QED BY <1>2, <1>3, <1>4, <1>6, <1>7, <1>8 DEF HostInv

(* Coming to a cookie or key that another call has is recorded.             *)
LEMMA HostClaims ==
  ASSUME NEW t \in Callers, NEW of, Host!Claim(t, of)
  PROVE  /\ hostClashed \subseteq hostClashed'
         /\ \A u \in Callers \ {t} :
              hostCall[u].at # "idle" /\ Host!Of(u) = of
                  => of \in hostClashed'
BY DEF Host!Claim, Host!At

LEMMA HostBeginPreserves ==
  ASSUME Host!ConstantsAllowed, HostInv, NEW t \in Callers,
         NEW op \in HostOps \ {"none"}, NEW of \in HostNames \cup {Host!None},
         NEW ref \in Cookies \cup {Host!None}, NEW primary \in BOOLEAN,
         op \in {"AddServer", "RemoveServer"} => of \in Cookies,
         op \in {"AddClient", "RemoveClient"} => of \in Keys,
         Host!Begin(t, op, of, ref, primary)
  PROVE  HostInv'
<1> DEFINE c == [Host!Idle EXCEPT !.op = op, !.of = of,
                   !.at = IF op = "RemoveAllServers" THEN "list" ELSE "find",
                   !.ref = ref, !.primary = primary]
<1>1. hostCall' = [hostCall EXCEPT ![t] = c]
        /\ hostCall \in [Callers -> HostCallType]
  BY DEF Host!Begin, HostInv, HostTypeInv
<1>2. /\ c \in HostCallType /\ c.op = op /\ c.of = of
      /\ c.at = IF op = "RemoveAllServers" THEN "list" ELSE "find"
  BY DEF Host!Idle, HostCallType, HostSteps, HostOps, Host!None
<1>3. hostCall'[t] = c /\ \A u \in Callers \ {t} : hostCall'[u] = hostCall[u]
  BY <1>1
<1>4. hostCall' \in [Callers -> HostCallType]
  BY <1>1, <1>2
<1> HIDE DEF c
<1>5. HostOfCall(t)' /\ ~HostAdding(t)' /\ ~HostRemoving(t)'
        /\ Host!Of(t)' = of
  BY <1>2, <1>3 DEF HostOfCall, HostAdding, HostRemoving, Host!Of, HostOps
<1>6. \A u \in Callers \ {t} : HostHas(u) => hostCall[u].at # "idle"
  BY DEF HostHas, HostAdding, HostRemoving
<1>7. Host!Claim(t, of) /\ UNCHANGED Host!tables
  BY DEF Host!Begin
<1> QED BY <1>3, <1>4, <1>5, <1>6, <1>7, HostClaims, HostCallStep

LEMMA HostFindPreserves ==
  ASSUME Host!ConstantsAllowed, HostInv, NEW t \in Callers, Host!Find(t),
         UNCHANGED hostClashed
  PROVE  HostInv'
<1> DEFINE op == hostCall[t].op
           found == Host!Stored(Host!Of(t))
<1>1. /\ hostCall[t].at = "find" /\ HostHas(t) /\ UNCHANGED Host!tables
      /\ IF (found = Host!None) = (op \in {"AddServer", "AddClient"})
           THEN hostCall' = [hostCall EXCEPT ![t].psc = found, ![t].at = op]
           ELSE Host!Return(t)
  BY DEF Host!Find, Host!At, HostHas, Host!Stored
<1>2. hostCall \in [Callers -> HostCallType] /\ HostOfCall(t) /\ HostTypeInv
  BY DEF HostInv, HostTypeInv
<1>3. op \in HostOps \ {"none"} /\ Host!Of(t) \in HostNames /\ found \in Nat
  BY <1>1, <1>2
     DEF HostOfCall, HostCallType, HostNames, Host!Of, HostTypeInv,
         Host!Stored, HostOps
<1>4. CASE Host!Return(t)
  BY <1>1, <1>2, <1>4, HostReturns, HostCallStep DEF HostHas
<1>5. CASE /\ (found = Host!None) = (op \in {"AddServer", "AddClient"})
           /\ hostCall' = [hostCall EXCEPT ![t].psc = found, ![t].at = op]
  <2> DEFINE c == [hostCall[t] EXCEPT !.psc = found, !.at = op]
  <2>1. /\ hostCall'[t] = c /\ c \in HostCallType
        /\ \A u \in Callers \ {t} : hostCall'[u] = hostCall[u]
        /\ hostCall' \in [Callers -> HostCallType]
    <3>1. op \in HostSteps /\ found \in Nat
      BY <1>3 DEF HostSteps, HostOps
    <3> HIDE DEF found, op
    <3>2. c \in HostCallType
      BY <1>2, <3>1 DEF HostCallType
    <3> HIDE DEF c
    <3>3. hostCall' = [hostCall EXCEPT ![t] = c]
      BY <1>5 DEF c
    <3> QED BY <1>2, <3>2, <3>3
  <2>2. c.op = op /\ c.at = op /\ c.psc = found /\ c.of = Host!Of(t)
    BY <1>2 DEF Host!Of, HostCallType
  <2> HIDE DEF c
  <2>3. HostOfCall(t)' /\ Host!Of(t)' = Host!Of(t)
    BY <1>1, <1>2, <1>3, <2>1, <2>2 DEF HostOfCall, Host!Of, HostOps
  <2>4. HostAdding(t)' => found = Host!None
    BY <1>5, <2>1, <2>2 DEF HostAdding
  <2>5. HostRemoving(t)' => found # Host!None
    BY <1>5, <2>1, <2>2 DEF HostRemoving
  <2>6. \A u \in Callers \ {t} :
          HostHas(u) /\ Host!Of(u) = Host!Of(t) => Host!Of(t) \in hostClashed
    BY <1>1 DEF HostApart, HostInv
  <2>7. hostCall'[t].psc = found /\ hostClashed' = hostClashed
    BY <2>1, <2>2
  <2> HIDE DEF found
  <2> QED BY <1>1, <1>3, <2>1, <2>3, <2>4, <2>5, <2>6, <2>7, HostCallStep
             DEF found
<1> QED BY <1>1, <1>4, <1>5

LEMMA HostListPreserves ==
  ASSUME Host!ConstantsAllowed, HostInv, NEW t \in Callers, Host!List(t),
         UNCHANGED hostClashed
  PROVE  HostInv'
<1> DEFINE c == [hostCall[t] EXCEPT !.list = Host!Services, !.seen = changes,
                                !.at = "next"]
<1>1. /\ hostCall \in [Callers -> HostCallType] /\ HostOfCall(t)
           /\ changes \in Nat
      /\ hostCall[t].at = "list" /\ Host!Services \in SUBSET Cookies
  BY DEF HostInv, HostTypeInv, Host!List, Host!At, Host!Services
<1>2. /\ hostCall'[t] = c /\ c \in HostCallType
      /\ \A u \in Callers \ {t} : hostCall'[u] = hostCall[u]
      /\ hostCall' \in [Callers -> HostCallType]
  BY <1>1 DEF Host!List, HostCallType, HostSteps
<1>3. c.op = "RemoveAllServers" /\ c.at = "next"
  BY <1>1 DEF HostOfCall, HostCallType, HostOps
<1> HIDE DEF c
<1>4. hostCall'[t].op = "RemoveAllServers" /\ hostCall'[t].at = "next"
  BY <1>2, <1>3
<1>5. HostOfCall(t)' /\ ~HostHas(t)' /\ ~HostAdding(t)' /\ ~HostRemoving(t)'
  BY <1>4 DEF HostOfCall, HostHas, HostAdding, HostRemoving
<1> QED BY <1>2, <1>5, HostCallStep DEF Host!List

LEMMA HostRemoveNextPreserves ==
  ASSUME Host!ConstantsAllowed, HostInv, NEW t \in Callers, Host!RemoveNext(t)
  PROVE  HostInv'
<1>1. /\ hostCall \in [Callers -> HostCallType] /\ HostOfCall(t)
      /\ hostCall[t].at = "next" /\ hostCall[t].op = "RemoveAllServers"
      /\ UNCHANGED Host!tables
  BY DEF HostInv, HostTypeInv, Host!RemoveNext, Host!At, HostOfCall,
     HostCallType, HostOps
<1>2. ASSUME NEW k \in hostCall[t].list,
             hostCall' = [hostCall EXCEPT ![t].of = k, ![t].list = @ \ {k},
                                  ![t].at = "find"],
             Host!Claim(t, k)
      PROVE  HostInv'
  <2> DEFINE c == [hostCall[t] EXCEPT !.of = k, !.list = @ \ {k},
        !.at = "find"]
  <2>1. hostCall[t].list \in SUBSET Cookies
    BY <1>1 DEF HostCallType
  <2>2. /\ hostCall'[t] = c /\ c \in HostCallType
        /\ \A u \in Callers \ {t} : hostCall'[u] = hostCall[u]
        /\ hostCall' \in [Callers -> HostCallType]
    BY <1>1, <1>2, <2>1 DEF HostCallType, HostSteps, HostNames
  <2>3. /\ c.op = "RemoveAllServers" /\ c.at = "find" /\ c.of = k
        /\ k \in Cookies
    BY <1>1, <2>1 DEF HostCallType
  <2> HIDE DEF c
  <2>4. HostOfCall(t)' /\ ~HostAdding(t)' /\ ~HostRemoving(t)'
          /\ Host!Of(t)' = k
    BY <2>2, <2>3 DEF HostOfCall, HostAdding, HostRemoving, Host!Of
  <2>5. \A u \in Callers \ {t} : HostHas(u) => hostCall[u].at # "idle"
    BY DEF HostHas, HostAdding, HostRemoving
  <2> QED BY <1>1, <1>2, <2>2, <2>4, <2>5, HostClaims, HostCallStep
<1>3. CASE hostCall' = [hostCall EXCEPT ![t] = Host!Idle]
        /\ UNCHANGED hostClashed
  <2>1. /\ hostCall'[t] = Host!Idle /\ Host!Idle \in HostCallType
        /\ \A u \in Callers \ {t} : hostCall'[u] = hostCall[u]
        /\ hostCall' \in [Callers -> HostCallType]
    BY <1>1, <1>3 DEF HostCallType, Host!Idle, HostSteps, HostOps, Host!None
  <2>2. Host!Idle.op = "none" /\ Host!Idle.at = "idle"
    BY DEF Host!Idle
  <2>3. HostOfCall(t)' /\ ~HostHas(t)' /\ ~HostAdding(t)' /\ ~HostRemoving(t)'
    BY <2>1, <2>2 DEF HostOfCall, HostHas, HostAdding, HostRemoving
  <2> QED BY <1>1, <1>3, <2>1, <2>3, HostCallStep
<1> QED BY <1>2, <1>3 DEF Host!RemoveNext

(* A context that is created and stored under the key of its call.          *)
LEMMA HostAdded ==
  ASSUME Host!ConstantsAllowed, HostInv, NEW t \in Callers, HostTypeInv',
         HostAdding(t), Host!Of(t) \in HostNames, Host!Create(t),
         Host!Return(t), UNCHANGED hostClashed,
         \A of \in HostNames :
           Host!Stored(of)' = IF of = Host!Of(t) THEN Len(context) + 1
               ELSE Host!Stored(of)
  PROVE  HostInv'
<1> DEFINE n == Len(context) + 1
<1>1. context \in Seq(HostContexts) /\ HostTypeInv /\ HostOfCall(t)
  BY DEF HostInv, HostTypeInv
<1>2. /\ DOMAIN context = 1 .. Len(context) /\ n \in Nat \ {Host!None}
      /\ DOMAIN context' = 1 .. n /\ n \notin DOMAIN context
      /\ \A o \in DOMAIN context : context'[o] = context[o]
      /\ context'[n] = [of |-> Host!Of(t), primary |-> hostCall[t].primary,
                        out |-> FALSE]
  BY <1>1 DEF Host!Create, Host!None
<1>3. context'[n].of = Host!Of(t) /\ context'[n].out = FALSE
  BY <1>2
<1> HIDE DEF n
<1>4. /\ HostOfCall(t)' /\ ~HostHas(t)'
      /\ \A u \in Callers \ {t} : hostCall'[u] = hostCall[u]
  BY <1>1, HostReturns
<1>5. ASSUME NEW u \in Callers \ {t}
      PROVE  /\ HostOfCall(u) /\ HostOfCall(u)'
             /\ HostHas(u)' <=> HostHas(u)
             /\ HostAdding(u)' <=> HostAdding(u)
             /\ HostRemoving(u)' <=> HostRemoving(u)
             /\ Host!Of(u)' = Host!Of(u) /\ hostCall'[u].psc = hostCall[u].psc
  BY <1>4 DEF HostOfCall, HostHas, HostAdding, HostRemoving, Host!Of, HostInv
<1>6. \A u \in Callers \ {t} : HostHas(u) /\ Host!Of(u) = Host!Of(t)
        => Host!Of(t) \in hostClashed
  BY DEF HostApart, HostInv, HostHas
<1>7. HostApart'
  BY <1>4, <1>5 DEF HostApart, HostInv
<1>8. \A of \in HostNames : Host!Stored(of) # Host!None =>
        Host!Stored(of) \in DOMAIN context /\ context[Host!Stored(of)].of = of
  BY DEF HostTablesInv, HostInv
<1>9. \A of \in HostNames : Host!Stored(of)' # Host!None =>
        Host!Stored(of)' \in DOMAIN context'
            /\ (context'[Host!Stored(of)']).of = of
  <2> SUFFICES ASSUME NEW of \in HostNames, Host!Stored(of)' # Host!None
               PROVE  /\ Host!Stored(of)' \in DOMAIN context'
                      /\ (context'[Host!Stored(of)']).of = of
    OBVIOUS
  <2>1. CASE of = Host!Of(t)
    <3>1. Host!Stored(of)' = n
      BY <2>1 DEF n
    <3> QED BY <1>2, <1>3, <2>1, <3>1
  <2>2. CASE of # Host!Of(t)
    <3>1. Host!Stored(of)' = Host!Stored(of)
      BY <2>2
    <3> QED BY <1>2, <1>8, <3>1 DEF n
  <2> QED BY <2>1, <2>2
<1>10. HostFoundInv'
  <2> SUFFICES ASSUME NEW u \in Callers, HostAdding(u)' \/ HostRemoving(u)'
               PROVE  /\ HostAdding(u)' /\ Host!Of(u)' \notin hostClashed' =>
                           Host!Stored(Host!Of(u))' = Host!None
                      /\ HostRemoving(u)' =>
                           /\ hostCall'[u].psc \in DOMAIN context'
                           /\ context'[hostCall'[u].psc].of = Host!Of(u)'
                           /\ Host!Of(u)' \notin hostClashed' =>
                                Host!Stored(Host!Of(u))' = hostCall'[u].psc
    BY DEF HostFoundInv
  <2>1. u # t /\ (HostAdding(u) \/ HostRemoving(u))
    BY <1>4, <1>5 DEF HostHas
  <2>2. HostHas(u) /\ Host!Of(u) \in HostNames
    <3>1. hostCall[u].op \in HostOps
      BY <1>1 DEF HostTypeInv, HostCallType
    <3> QED
      BY <1>5, <2>1, <3>1
         DEF HostOps, HostHas, HostOfCall, HostAdding, HostRemoving,
             HostNames, Host!Of
  <2>3. PICK k \in HostNames : k = Host!Of(u) /\ k = Host!Of(u)'
    BY <1>5, <2>1, <2>2
  <2>4. /\ HostAdding(u) /\ k \notin hostClashed => Host!Stored(k) = Host!None
        /\ HostRemoving(u) =>
             /\ hostCall[u].psc \in DOMAIN context
             /\ context[hostCall[u].psc].of = k
             /\ k \notin hostClashed => Host!Stored(k) = hostCall[u].psc
    BY <2>3 DEF HostFoundInv, HostInv
  <2>5. k \notin hostClashed => Host!Stored(k)' = Host!Stored(k)
    BY <1>6, <2>1, <2>2, <2>3
  <2>6. Host!Stored(Host!Of(u))' = Host!Stored(k)'
    BY <2>3 DEF Host!Stored
  <2> QED BY <1>2, <1>5, <2>1, <2>3, <2>4, <2>5, <2>6 DEF n
<1>11. Host!ContextsKept'
  <2> SUFFICES ASSUME NEW o \in DOMAIN context' PROVE Host!Kept(o)'
    BY DEF Host!ContextsKept
  <2>1. CASE o = n
    <3>1. PICK k \in HostNames : k = Host!Of(t) /\ k = context'[o].of
      BY <1>3, <2>1
    <3>2. Host!Stored(context[o].of)' = Host!Stored(k)'
      BY <3>1 DEF Host!Stored
    <3>3. Host!Stored(k)' = n
      BY <3>1 DEF n
    <3> QED BY <1>3, <2>1, <3>2, <3>3 DEF Host!Kept
  <2>2. CASE o # n
    <3>1. /\ o \in DOMAIN context /\ context'[o] = context[o]
          /\ context[o].of \in HostNames
      <4>1. o \in 1 .. Len(context)
        BY <1>1, <1>2, <2>2 DEF n
      <4>2. context[o] \in HostContexts
        BY <1>1, <4>1, ElementOfSeq
      <4> QED BY <1>2, <4>1, <4>2 DEF HostContexts
    <3>2. PICK k \in HostNames : k = context[o].of /\ k = context'[o].of
      BY <3>1
    <3>3. Host!Stored(context[o].of)' = Host!Stored(k)'
      BY <3>2 DEF Host!Stored
    <3>4. Host!Kept(o)
      BY <3>1 DEF Host!ContextsKept, HostInv
    <3>5. CASE k = Host!Of(t)
      <4>1. k \in hostClashed \/ Host!Stored(k) = Host!None
        BY <3>5 DEF HostFoundInv, HostInv
      <4>2. o # Host!None
        BY <1>1, <3>1 DEF Host!None
      <4>3. Host!Stored(k)' = n
        BY <3>5 DEF n
      <4> QED BY <2>2, <3>1, <3>2, <3>3, <3>4, <4>1, <4>2, <4>3 DEF Host!Kept
    <3>6. CASE k # Host!Of(t)
      <4>1. Host!Stored(k)' = Host!Stored(k)
        BY <3>6
      <4> QED BY <3>1, <3>2, <3>3, <3>4, <4>1 DEF Host!Kept
    <3> QED BY <3>5, <3>6
  <2> QED BY <2>1, <2>2
<1> QED BY <1>4, <1>5, <1>7, <1>9, <1>10, <1>11 DEF HostInv, HostTablesInv

(* A context that is removed under the key of its call, and handed out.     *)
LEMMA HostRemoved ==
  ASSUME Host!ConstantsAllowed, HostInv, NEW t \in Callers, HostTypeInv',
         HostRemoving(t),
         Host!Of(t) \in HostNames, Host!Return(t), UNCHANGED hostClashed,
         context' = [context EXCEPT ![hostCall[t].psc].out = TRUE],
         \A of \in HostNames :
           Host!Stored(of)' = IF of = Host!Of(t) THEN Host!None
               ELSE Host!Stored(of)
  PROVE  HostInv'
<1> DEFINE psc == hostCall[t].psc
<1>1. /\ context \in Seq(HostContexts) /\ HostTypeInv /\ HostOfCall(t)
      /\ psc \in DOMAIN context /\ context[psc].of = Host!Of(t)
      /\ Host!Of(t) \notin hostClashed => Host!Stored(Host!Of(t)) = psc
  BY DEF HostInv, HostTypeInv, HostFoundInv
<1>2. /\ DOMAIN context' = DOMAIN context
      /\ \A o \in DOMAIN context :
           /\ o # psc => context'[o] = context[o]
           /\ context'[o].of = context[o].of
           /\ context[o].of \in HostNames
  <2>1. \A o \in DOMAIN context : context[o] \in HostContexts
    BY <1>1, ElementOfSeq
  <2> HIDE DEF psc
  <2> QED BY <1>1, <2>1 DEF HostContexts, psc
<1>3. context'[psc].out = TRUE
  <2>1. context[psc] \in HostContexts
    BY <1>1, ElementOfSeq
  <2>2. context'[psc] = [context[psc] EXCEPT !.out = TRUE]
    BY <1>1
  <2> QED BY <2>1, <2>2 DEF HostContexts
<1> HIDE DEF psc
<1>4. /\ HostOfCall(t)' /\ ~HostHas(t)'
      /\ \A u \in Callers \ {t} : hostCall'[u] = hostCall[u]
  BY <1>1, HostReturns
<1>5. ASSUME NEW u \in Callers \ {t}
      PROVE  /\ HostOfCall(u) /\ HostOfCall(u)'
             /\ HostHas(u)' <=> HostHas(u)
             /\ HostAdding(u)' <=> HostAdding(u)
             /\ HostRemoving(u)' <=> HostRemoving(u)
             /\ Host!Of(u)' = Host!Of(u) /\ hostCall'[u].psc = hostCall[u].psc
  BY <1>4 DEF HostOfCall, HostHas, HostAdding, HostRemoving, Host!Of, HostInv
<1>6. \A u \in Callers \ {t} : HostHas(u) /\ Host!Of(u) = Host!Of(t)
        => Host!Of(t) \in hostClashed
  BY DEF HostApart, HostInv, HostHas
<1>7. HostApart'
  BY <1>4, <1>5 DEF HostApart, HostInv
<1>8. \A of \in HostNames : Host!Stored(of) # Host!None =>
        Host!Stored(of) \in DOMAIN context /\ context[Host!Stored(of)].of = of
  BY DEF HostTablesInv, HostInv
<1>9. HostTablesInv'
  <2> SUFFICES ASSUME NEW of \in HostNames, Host!Stored(of)' # Host!None
               PROVE  /\ Host!Stored(of)' \in DOMAIN context'
                      /\ (context'[Host!Stored(of)']).of = of
    BY DEF HostTablesInv
  <2>1. Host!Stored(of)' = Host!Stored(of)
    OBVIOUS
  <2> QED BY <1>2, <1>8, <2>1
<1>10. HostFoundInv'
  <2> SUFFICES ASSUME NEW u \in Callers, HostAdding(u)' \/ HostRemoving(u)'
               PROVE  /\ HostAdding(u)' /\ Host!Of(u)' \notin hostClashed' =>
                           Host!Stored(Host!Of(u))' = Host!None
                      /\ HostRemoving(u)' =>
                           /\ hostCall'[u].psc \in DOMAIN context'
                           /\ context'[hostCall'[u].psc].of = Host!Of(u)'
                           /\ Host!Of(u)' \notin hostClashed' =>
                                Host!Stored(Host!Of(u))' = hostCall'[u].psc
    BY DEF HostFoundInv
  <2>1. u # t /\ (HostAdding(u) \/ HostRemoving(u))
    BY <1>4, <1>5 DEF HostHas
  <2>2. HostHas(u) /\ Host!Of(u) \in HostNames
    <3>1. hostCall[u].op \in HostOps
      BY <1>1 DEF HostTypeInv, HostCallType
    <3> QED
      BY <1>5, <2>1, <3>1
         DEF HostOps, HostHas, HostOfCall, HostAdding, HostRemoving,
             HostNames, Host!Of
  <2>3. PICK k \in HostNames : k = Host!Of(u) /\ k = Host!Of(u)'
    BY <1>5, <2>1, <2>2
  <2>4. /\ HostAdding(u) /\ k \notin hostClashed => Host!Stored(k) = Host!None
        /\ HostRemoving(u) =>
             /\ hostCall[u].psc \in DOMAIN context
             /\ context[hostCall[u].psc].of = k
             /\ k \notin hostClashed => Host!Stored(k) = hostCall[u].psc
    BY <2>3 DEF HostFoundInv, HostInv
  <2>5. k \notin hostClashed => Host!Stored(k)' = Host!Stored(k)
    BY <1>6, <2>1, <2>2, <2>3
  <2>6. Host!Stored(Host!Of(u))' = Host!Stored(k)'
    BY <2>3 DEF Host!Stored
  <2> QED BY <1>2, <1>5, <2>1, <2>3, <2>4, <2>5, <2>6
<1>11. Host!ContextsKept'
  <2> SUFFICES ASSUME NEW o \in DOMAIN context PROVE Host!Kept(o)'
    BY <1>2 DEF Host!ContextsKept
  <2>1. PICK k \in HostNames : k = context[o].of /\ k = context'[o].of
    BY <1>2
  <2>2. Host!Stored(context[o].of)' = Host!Stored(k)'
    BY <2>1 DEF Host!Stored
  <2>3. Host!Kept(o) /\ o # Host!None
    BY <1>1 DEF Host!ContextsKept, HostInv, Host!None
  <2>4. CASE k = Host!Of(t)
    <3>1. Host!Stored(k)' = Host!None
      BY <2>4
    <3>2. CASE o = psc
      BY <1>3, <2>1, <2>2, <2>3, <3>1, <3>2 DEF Host!Kept
    <3>3. CASE o # psc
      <4>1. context'[o] = context[o]
        BY <1>2, <3>3
      <4> QED BY <1>1, <2>1, <2>2, <2>3, <2>4, <3>1, <3>3, <4>1 DEF Host!Kept
    <3> QED BY <3>2, <3>3
  <2>5. CASE k # Host!Of(t)
    <3>1. Host!Stored(k)' = Host!Stored(k)
      BY <2>5
    <3>2. o # psc /\ context'[o] = context[o]
      BY <1>1, <1>2, <2>1, <2>5
    <3>3. k \in hostClashed \/ (context[o].out <=> Host!Stored(k) # o)
      BY <2>1, <2>3 DEF Host!Kept
    <3>4. k \in hostClashed' \/ (context'[o].out <=> Host!Stored(k)' # o)
      BY <3>1, <3>2, <3>3
    <3> QED BY <2>1, <2>2, <3>4, Zenon DEF Host!Kept
  <2> QED BY <2>4, <2>5
<1> QED BY <1>4, <1>5, <1>7, <1>9, <1>10, <1>11 DEF HostInv

LEMMA HostAddServerPreserves ==
  ASSUME Host!ConstantsAllowed, HostInv, NEW t \in Callers, Host!AddServer(t),
         UNCHANGED hostClashed
  PROVE  HostInv'
<1> DEFINE n == Len(context) + 1
           r == [of |-> Host!Of(t), primary |-> hostCall[t].primary,
               out |-> FALSE]
<1>1. /\ HostTypeInv /\ HostOfCall(t) /\ hostCall[t].at = "AddServer"
      /\ hostCall[t] \in HostCallType /\ hostCall[t].op \in HostOps
  BY DEF HostInv, HostTypeInv, Host!AddServer, Host!At, HostCallType
<1>2. Host!Of(t) \in Cookies /\ Host!Of(t) \in HostNames
        /\ Host!Of(t) \notin Keys /\ HostAdding(t)
  BY <1>1 DEF HostOfCall, Host!Of, HostNames, HostAdding,
     Host!ConstantsAllowed, HostOps
<1>3. /\ hostCall' \in [Callers -> HostCallType] /\ Host!Return(t)
  BY <1>1, HostReturns DEF Host!AddServer
<1>4. r \in HostContexts /\ context' = Append(context, r)
  BY <1>1, <1>2 DEF HostContexts, Host!AddServer, Host!Create, HostCallType
<1>5. context' \in Seq(HostContexts) /\ n \in Nat
  BY <1>1, <1>4 DEF HostTypeInv
<1>6. /\ mapServer' = [mapServer EXCEPT ![Host!Of(t)] = n]
      /\ mapMapping' = [mapMapping EXCEPT ![Host!Of(t)] =
                          IF hostCall[t].ref = Host!None THEN Host!Of(t)
                              ELSE hostCall[t].ref]
      /\ changes' = changes + 1 /\ UNCHANGED mapClient
  BY DEF Host!AddServer
<1>7. (IF hostCall[t].ref = Host!None THEN Host!Of(t)
        ELSE hostCall[t].ref) \in Nat
  BY <1>1, <1>2 DEF HostCallType, Host!ConstantsAllowed, Host!None
<1>8. HostTypeInv'
  <2>1. mapServer' \in [Cookies -> Nat]
    BY <1>1, <1>5, <1>6 DEF HostTypeInv
  <2>2. mapMapping' \in [Cookies -> Nat]
    BY <1>1, <1>6, <1>7 DEF HostTypeInv
  <2>3. changes' \in Nat /\ mapClient' \in [Keys -> Nat]
    BY <1>1, <1>6 DEF HostTypeInv
  <2> QED BY <1>3, <1>5, <2>1, <2>2, <2>3 DEF HostTypeInv
<1>9. \A of \in HostNames :
        Host!Stored(of)' = IF of = Host!Of(t) THEN n ELSE Host!Stored(of)
  BY <1>1, <1>2, <1>6 DEF Host!Stored, HostTypeInv, HostNames
<1> QED BY <1>2, <1>3, <1>8, <1>9, HostAdded DEF Host!AddServer

LEMMA HostAddClientPreserves ==
  ASSUME Host!ConstantsAllowed, HostInv, NEW t \in Callers, Host!AddClient(t),
         UNCHANGED hostClashed
  PROVE  HostInv'
<1> DEFINE n == Len(context) + 1
           r == [of |-> Host!Of(t), primary |-> hostCall[t].primary,
               out |-> FALSE]
<1>1. /\ HostTypeInv /\ HostOfCall(t) /\ hostCall[t].at = "AddClient"
      /\ hostCall[t] \in HostCallType /\ hostCall[t].op \in HostOps
  BY DEF HostInv, HostTypeInv, Host!AddClient, Host!At, HostCallType
<1>2. Host!Of(t) \in Keys /\ Host!Of(t) \in HostNames /\ HostAdding(t)
  BY <1>1 DEF HostOfCall, Host!Of, HostNames, HostAdding, HostOps
<1>3. /\ hostCall' \in [Callers -> HostCallType] /\ Host!Return(t)
  BY <1>1, HostReturns DEF Host!AddClient
<1>4. r \in HostContexts /\ context' = Append(context, r)
  BY <1>1, <1>2 DEF HostContexts, Host!AddClient, Host!Create, HostCallType
<1>5. context' \in Seq(HostContexts) /\ n \in Nat
  BY <1>1, <1>4 DEF HostTypeInv
<1>6. /\ mapClient' = [mapClient EXCEPT ![Host!Of(t)] = n]
      /\ UNCHANGED <<mapServer, mapMapping, changes>>
  BY DEF Host!AddClient
<1>7. HostTypeInv'
  BY <1>1, <1>3, <1>5, <1>6 DEF HostTypeInv
<1>8. \A of \in HostNames :
        Host!Stored(of)' = IF of = Host!Of(t) THEN n ELSE Host!Stored(of)
  BY <1>1, <1>2, <1>6 DEF Host!Stored, HostTypeInv, HostNames
<1> QED BY <1>2, <1>3, <1>7, <1>8, HostAdded DEF Host!AddClient

(* The context that a removal hands out is marked and stays a context.      *)
LEMMA HostMarked ==
  ASSUME context \in Seq(HostContexts), NEW o \in DOMAIN context,
         context' = [context EXCEPT ![o].out = TRUE]
  PROVE  context' \in Seq(HostContexts)
<1>1. context[o] \in HostContexts
  BY ElementOfSeq
<1>2. [context[o] EXCEPT !.out = TRUE] \in HostContexts
  BY <1>1 DEF HostContexts
<1>3. context' = [context EXCEPT ![o] = [context[o] EXCEPT !.out = TRUE]]
  OBVIOUS
<1> QED BY <1>2, <1>3, ExceptSeq

LEMMA HostRemoveServerPreserves ==
  ASSUME Host!ConstantsAllowed, HostInv, NEW t \in Callers,
           Host!RemoveServer(t),
         UNCHANGED hostClashed
  PROVE  HostInv'
<1>1. /\ HostTypeInv /\ HostOfCall(t)
      /\ hostCall[t].at \in {"RemoveServer", "RemoveAllServers"}
      /\ hostCall[t] \in HostCallType /\ hostCall[t].op \in HostOps
      /\ Host!Return(t) /\ UNCHANGED mapClient
  BY DEF HostInv, HostTypeInv, Host!RemoveServer, Host!At, HostCallType
<1>2. /\ Host!Of(t) \in Cookies /\ Host!Of(t) \in HostNames
           /\ Host!Of(t) \notin Keys
      /\ HostRemoving(t)
  BY <1>1 DEF HostOfCall, Host!Of, HostNames, HostRemoving,
     Host!ConstantsAllowed, HostOps
<1>3. hostCall' \in [Callers -> HostCallType]
  BY <1>1, HostReturns
<1>4. CASE Host!Erase(t)
  <2>1. /\ mapServer' = [mapServer EXCEPT ![Host!Of(t)] = Host!None]
        /\ mapMapping' = [mapMapping EXCEPT ![Host!Of(t)] = Host!None]
        /\ changes' = changes + 1
        /\ context' = [context EXCEPT ![hostCall[t].psc].out = TRUE]
    BY <1>4 DEF Host!Erase
  <2>2. context' \in Seq(HostContexts)
    BY <1>1, <1>2, <2>1, HostMarked DEF HostFoundInv, HostInv, HostTypeInv
  <2>3. HostTypeInv'
    <3>1. mapServer' \in [Cookies -> Nat] /\ mapMapping' \in [Cookies -> Nat]
      BY <1>1, <2>1 DEF HostTypeInv, Host!None
    <3>2. changes' \in Nat /\ mapClient' \in [Keys -> Nat]
      BY <1>1, <2>1 DEF HostTypeInv
    <3> QED BY <1>3, <2>2, <3>1, <3>2 DEF HostTypeInv
  <2>4. \A of \in HostNames :
          Host!Stored(of)' = IF of = Host!Of(t) THEN Host!None
              ELSE Host!Stored(of)
    BY <1>1, <1>2, <2>1 DEF Host!Stored, HostTypeInv, HostNames
  <2> QED BY <1>1, <1>2, <2>1, <2>3, <2>4, HostRemoved
<1>5. CASE UNCHANGED <<context, mapServer, mapMapping, changes>>
  <2>1. UNCHANGED Host!tables
    BY <1>1, <1>5 DEF Host!tables
  <2> QED BY <1>1, <1>3, <2>1, HostReturns, HostCallStep DEF HostHas
<1> QED BY <1>4, <1>5 DEF Host!RemoveServer

LEMMA HostRemoveClientPreserves ==
  ASSUME Host!ConstantsAllowed, HostInv, NEW t \in Callers,
           Host!RemoveClient(t),
         UNCHANGED hostClashed
  PROVE  HostInv'
<1>1. /\ HostTypeInv /\ HostOfCall(t) /\ hostCall[t].at = "RemoveClient"
      /\ hostCall[t] \in HostCallType /\ hostCall[t].op \in HostOps
           /\ Host!Return(t)
  BY DEF HostInv, HostTypeInv, Host!RemoveClient, Host!At, HostCallType
<1>2. Host!Of(t) \in Keys /\ Host!Of(t) \in HostNames /\ HostRemoving(t)
  BY <1>1 DEF HostOfCall, Host!Of, HostNames, HostRemoving, HostOps
<1>3. hostCall' \in [Callers -> HostCallType]
  BY <1>1, HostReturns
<1>4. /\ mapClient' = [mapClient EXCEPT ![Host!Of(t)] = Host!None]
      /\ context' = [context EXCEPT ![hostCall[t].psc].out = TRUE]
      /\ UNCHANGED <<mapServer, mapMapping, changes>>
  BY DEF Host!RemoveClient
<1>5. context' \in Seq(HostContexts)
  BY <1>1, <1>2, <1>4, HostMarked DEF HostFoundInv, HostInv, HostTypeInv
<1>6. HostTypeInv'
  BY <1>1, <1>3, <1>4, <1>5 DEF HostTypeInv, Host!None
<1>7. \A of \in HostNames :
        Host!Stored(of)' = IF of = Host!Of(t) THEN Host!None
            ELSE Host!Stored(of)
  BY <1>1, <1>2, <1>4 DEF Host!Stored, HostTypeInv, HostNames
<1> QED BY <1>1, <1>2, <1>4, <1>6, <1>7, HostRemoved

LEMMA HostInductive ==
  ASSUME Host!ConstantsAllowed
  PROVE  /\ Host!Init => HostInv
         /\ HostInv /\ [Host!Next]_Host!vars => HostInv'
<1>1. Host!Init => HostInv
  <2> SUFFICES ASSUME Host!Init PROVE HostInv
    OBVIOUS
  <2>1. \A t \in Callers : hostCall[t] = Host!Idle
    BY DEF Host!Init
  <2>2. Host!Idle \in HostCallType
    BY DEF Host!Idle, HostCallType, HostSteps, HostOps, Host!None
  <2>3. Host!Idle.op = "none" /\ Host!Idle.at = "idle"
    BY DEF Host!Idle
  <2>4. \A t \in Callers : HostOfCall(t) /\ ~HostHas(t) /\ ~HostAdding(t)
          /\ ~HostRemoving(t)
    BY <2>1, <2>3 DEF HostOfCall, HostHas, HostAdding, HostRemoving
  <2>5. HostTypeInv
    BY <2>2 DEF Host!Init, HostTypeInv, Host!None
  <2>6. \A of \in HostNames : Host!Stored(of) = Host!None
    BY DEF Host!Init, Host!Stored, HostNames
  <2>7. Host!ContextsKept
    BY DEF Host!Init, Host!ContextsKept
  <2> QED BY <2>4, <2>5, <2>6, <2>7
             DEF HostInv, HostApart, HostTablesInv, HostFoundInv
<1>2. HostInv /\ [Host!Next]_Host!vars => HostInv'
  <2> SUFFICES ASSUME HostInv, [Host!Next]_Host!vars PROVE HostInv'
    OBVIOUS
  <2>1. CASE UNCHANGED Host!vars
    <3>1. UNCHANGED <<context, mapServer, mapMapping, mapClient, changes,
                      hostCall, hostClashed>>
      BY <2>1 DEF Host!vars, Host!tables
    <3> QED
      BY <3>1 DEF HostInv, HostTypeInv, HostOfCall, HostApart, HostTablesInv,
                  HostFoundInv, HostHas, HostAdding, HostRemoving, Host!Of,
                  Host!Stored, Host!ContextsKept, Host!Kept
  <2>2. ASSUME NEW t \in Callers, Host!Step(t) PROVE HostInv'
    BY <2>2, HostFindPreserves, HostAddServerPreserves,
       HostRemoveServerPreserves, HostListPreserves, HostAddClientPreserves,
       HostRemoveClientPreserves
    DEF Host!Step
  <2>3. ASSUME NEW t \in Callers, Host!RemoveNext(t) PROVE HostInv'
    BY <2>3, HostRemoveNextPreserves
  <2>4. ASSUME NEW t \in Callers, NEW c \in Cookies,
               NEW ref \in Cookies \cup {Host!None}, NEW primary \in BOOLEAN,
               Host!Begin(t, "AddServer", c, ref, primary)
        PROVE  HostInv'
    BY <2>4, HostBeginPreserves DEF HostOps, HostNames
  <2>5. ASSUME NEW t \in Callers, NEW c \in Cookies,
               Host!Begin(t, "RemoveServer", c, Host!None, FALSE)
        PROVE  HostInv'
    BY <2>5, HostBeginPreserves DEF HostOps, HostNames
  <2>6. ASSUME NEW t \in Callers,
               Host!Begin(t, "RemoveAllServers", Host!None, Host!None, FALSE)
        PROVE  HostInv'
    BY <2>6, HostBeginPreserves DEF HostOps
  <2>7. ASSUME NEW t \in Callers, NEW k \in Keys,
               NEW op \in {"AddClient", "RemoveClient"},
               Host!Begin(t, op, k, Host!None, FALSE)
        PROVE  HostInv'
    BY <2>7, HostBeginPreserves DEF HostOps, HostNames
  <2>8. ASSUME Host!Next PROVE HostInv'
    BY <2>2, <2>3, <2>4, <2>5, <2>6, <2>7, <2>8, Zenon DEF Host!Next, Host!None
  <2> QED BY <2>1, <2>8
<1> QED BY <1>1, <1>2

(* A behaviour of the composition keeps the invariant of a host.             *)
LEMMA ServicesKeepHostInv == ServicesSpec => []HostInv
<1>1. ServicesInit => HostInv
  BY HostInductive, HostConstants DEF ServicesInit
<1>2. HostInv /\ [ServicesNext]_servicesVars => HostInv'
  <2>1. [ServicesNext]_servicesVars => [Host!Next]_Host!vars
    BY DEF ServicesNext, servicesVars, hostVars, Host!vars, Host!tables
  <2>2. HostInv /\ [Host!Next]_Host!vars => HostInv'
    BY HostInductive, HostConstants
  <2> QED BY <2>1, <2>2
<1> QED BY <1>1, <1>2, PTL DEF ServicesSpec, servicesVars

(* No context of a host is lost as long as its cookie or key is never in two *)
(* calls at a time (nhostctxt.cpp): for any callers, cookies, keys and number*)
(* of calls, whatever the other parts do.                                    *)
THEOREM HostLosesNoContext == ServicesSpec => []ContextsKept
<1>1. HostInv => ContextsKept
  BY DEF HostInv, ContextsKept
<1> QED BY <1>1, ServicesKeepHostInv, PTL

(* A primary service stays in the table while another service is mapped to  *)
(* it, unless two calls have had its cookie at a time: PrimaryStays, from the*)
(* same invariant.                                                           *)
THEOREM HostKeepsPrimaries == ServicesSpec => PrimaryStays
<1> DEFINE Stays == \A c \in Host!Services \ hostClashed :
                      context[mapServer[c]].primary
                      /\ (\E d \in Cookies : mapMapping[d] = c)
                        => mapServer'[c] = mapServer[c]
<1>1. HostInv /\ [Host!Next]_Host!vars => [Stays]_Host!vars
  <2> SUFFICES ASSUME HostInv, Host!Next,
                      NEW c \in Host!Services \ hostClashed,
                      context[mapServer[c]].primary,
                      \E d \in Cookies : mapMapping[d] = c
               PROVE  mapServer'[c] = mapServer[c]
    OBVIOUS
  <2>0. c \in Cookies /\ mapServer[c] # Host!None /\ c \notin hostClashed
    BY DEF Host!Services
  <2>1. /\ c \in Cookies /\ mapServer[c] # Host!None /\ c \notin hostClashed
        /\ c \notin Keys /\ Host!Stored(c) = mapServer[c]
        /\ mapServer \in [Cookies -> Nat]
    BY <2>0, HostConstants
    DEF Host!Stored, Host!ConstantsAllowed, HostInv, HostTypeInv
  <2>2. ASSUME NEW t \in Callers, Host!AddServer(t)
        PROVE  mapServer'[c] = mapServer[c]
    <3>1. Host!Of(t) # c
      BY <2>1, <2>2
         DEF Host!AddServer, Host!At, HostFoundInv, HostInv, HostAdding
    <3> QED BY <2>1, <2>2, <3>1 DEF Host!AddServer
  <2>3. ASSUME NEW t \in Callers, Host!RemoveServer(t)
        PROVE  mapServer'[c] = mapServer[c]
    <3>1. CASE Host!Of(t) = c
      <4>1. hostCall[t].psc = mapServer[c]
        BY <2>1, <2>3, <3>1
           DEF Host!RemoveServer, Host!At, HostFoundInv, HostInv, HostRemoving
      <4>2. ~Host!Removable(t)
        BY <3>1, <4>1 DEF Host!Removable
      <4> QED BY <2>3, <4>2 DEF Host!RemoveServer
    <3>2. CASE Host!Of(t) # c
      BY <2>1, <2>3, <3>2 DEF Host!RemoveServer, Host!Erase
    <3> QED BY <3>1, <3>2
  <2>4. ASSUME UNCHANGED mapServer
        PROVE  mapServer'[c] = mapServer[c]
    BY <2>4
  <2>5. ASSUME NEW t \in Callers, Host!Step(t)
        PROVE  mapServer'[c] = mapServer[c]
    BY <2>2, <2>3, <2>4, <2>5
       DEF Host!Step, Host!Find, Host!List, Host!AddClient, Host!RemoveClient,
           Host!tables
  <2>6. ASSUME NEW t \in Callers, Host!RemoveNext(t)
        PROVE  UNCHANGED mapServer
    BY <2>6, Zenon DEF Host!RemoveNext, Host!tables
  <2>7. ASSUME NEW t, NEW op, NEW of, NEW ref, NEW primary,
               Host!Begin(t, op, of, ref, primary)
        PROVE  UNCHANGED mapServer
    BY <2>7 DEF Host!Begin, Host!tables
  <2> QED BY <2>4, <2>5, <2>6, <2>7 DEF Host!Next
<1>2. [ServicesNext]_servicesVars => [Host!Next]_Host!vars
  BY DEF ServicesNext, servicesVars, hostVars, Host!vars, Host!tables
<1>3. HostInv /\ [ServicesNext]_servicesVars => [Stays]_Host!vars
  BY <1>1, <1>2
<1> QED
  BY <1>3, ServicesKeepHostInv, PTL
  DEF ServicesSpec, PrimaryStays, Host!PrimaryStays, servicesVars

-----------------------------------------------------------------------------
(* BCountedSufficer, for every set of calling threads and every bound on the *)
(* counters.                                                                 *)
USE SufficingAssumption

(* The operations of the class keep the type of its state.                  *)
LEMMA MutatorTyped ==
  ASSUME suf \in SufficerType, NEW t \in Threads,
         \/ Give(t) \/ Take(t) \/ ClearMax(t)
         \/ \E n \in Int : AddMax(t, n) \/ SetMax(t, n)
  PROVE  suf' \in SufficerType
<1> USE DEF SufficerType, Places
<1>1. CASE Give(t)
  <2>1. suf.current + 1 \in Int OBVIOUS
  <2> QED BY <1>1, <2>1 DEF Give
<1>2. CASE Take(t)
  <2>1. suf.current - 1 \in Int OBVIOUS
  <2> QED BY <1>2, <2>1 DEF Take
<1>3. CASE ClearMax(t)
  <2>1. 0 \in Int OBVIOUS
  <2> QED BY <1>3, <2>1 DEF ClearMax
<1>4. ASSUME NEW n \in Int, AddMax(t, n) PROVE suf' \in SufficerType
  <2>1. suf.max + n \in Int OBVIOUS
  <2> QED BY <1>4, <2>1 DEF AddMax
<1>5. ASSUME NEW n \in Int, SetMax(t, n) PROVE suf' \in SufficerType
  BY <1>5 DEF SetMax
<1> QED BY <1>1, <1>2, <1>3, <1>4, <1>5

(* So do the steps of Suffice().                                           *)
LEMMA SufficeTyped ==
  ASSUME suf \in SufficerType, NEW t \in Threads,
         ClearCurrent(t) \/ ClearSet(t) \/ Suffice(t)
  PROVE  suf' \in SufficerType
<1> USE DEF SufficerType, Places
<1>0. 0 \in Int OBVIOUS
<1>1. CASE ClearCurrent(t) BY <1>0, <1>1 DEF ClearCurrent
<1>2. CASE ClearSet(t) BY <1>2 DEF ClearSet
<1>3. CASE LoadMax(t) BY <1>3 DEF LoadMax
<1>4. CASE Compare(t) BY <1>0, <1>4 DEF Compare
<1>5. CASE ProbeEqual(t) BY <1>5 DEF ProbeEqual
<1>6. CASE SetEvt(t) BY <1>6 DEF SetEvt
<1>7. CASE ProbeUnequal(t) BY <1>7 DEF ProbeUnequal
<1>8. CASE ResetEvt(t) BY <1>8 DEF ResetEvt
<1> QED BY <1>1, <1>2, <1>3, <1>4, <1>5, <1>6, <1>7, <1>8 DEF Suffice

(* The invariant holds before any call: nobody is inside.                   *)
LEMMA SettleInvInit == Init => SettleInv
<1> SUFFICES ASSUME Init PROVE SettleInv
  OBVIOUS
<1> USE DEF Init
<1>1. suf \in SufficerType
  BY DEF SufInit, SufficerType, Places
<1>2. TypeOK
  BY <1>1 DEF TypeOK
<1>3. LoneCallerKnows /\ NobodyInsideWhenSettled /\ LoneCallSettles
  BY DEF LoneCallerKnows, NobodyInsideWhenSettled, LoneCallSettles
<1> QED BY <1>2, <1>3 DEF SettleInv

(* A mutator's first step: the caller is alone, or nobody is lone any more. *)
LEMMA EnterPreserves ==
  ASSUME SettleInv, NEW t \in Threads, Enter(t)
  PROVE  SettleInv'
<1> USE DEF SettleInv, TypeOK, SufficerType, Places, Outside
<1>1. \/ Give(t) \/ Take(t) \/ ClearMax(t)
      \/ \E n \in Int : AddMax(t, n) \/ SetMax(t, n)
  BY DEF Enter
<1>2. /\ suf'.at[t] \in {"load", "clearCurrent"}
      /\ suf'.at[t] = "clearCurrent" => suf'.max = 0
      /\ \A u \in Threads \ {t} : suf'.at[u] = suf.at[u]
  <2>1. CASE Give(t) BY <2>1 DEF Give
  <2>2. CASE Take(t) BY <2>2 DEF Take
  <2>3. CASE ClearMax(t) BY <2>3 DEF ClearMax
  <2>4. ASSUME NEW n \in Int, AddMax(t, n) \/ SetMax(t, n)
        PROVE  suf'.at = [suf.at EXCEPT ![t] = "load"]
    BY <2>4 DEF AddMax, SetMax
  <2> QED BY <1>1, <2>1, <2>2, <2>3, <2>4
<1>3. TypeOK'
  BY <1>1, MutatorTyped DEF Enter
<1>4. LoneCallerKnows'
  BY <1>2 DEF Enter, LoneCallerKnows, IsEqual
<1>5. NobodyInsideWhenSettled' /\ LoneCallSettles'
  BY DEF Enter, NobodyInsideWhenSettled, LoneCallSettles
<1> QED BY <1>3, <1>4, <1>5

(* A later step.  If the caller is lone, the step acts on what it knows;    *)
(* otherwise somebody else may be inside and nothing is claimed.            *)
LEMMA StepPreserves ==
  ASSUME SettleInv, NEW t \in Threads, Step(t)
  PROVE  SettleInv'
<1> USE DEF SettleInv, TypeOK, SufficerType, Places, Outside
<1>1. suf' \in SufficerType
  BY SufficeTyped DEF Step
<1>2. /\ suf.at[t] # "out"
      /\ \A u \in Threads \ {t} : suf'.at[u] = suf.at[u]
  <2>1. CASE ClearCurrent(t) BY <2>1 DEF ClearCurrent
  <2>2. CASE ClearSet(t) BY <2>2 DEF ClearSet
  <2>3. CASE LoadMax(t) BY <2>3 DEF LoadMax
  <2>4. CASE Compare(t) BY <2>4 DEF Compare
  <2>5. CASE ProbeEqual(t) BY <2>5 DEF ProbeEqual
  <2>6. CASE SetEvt(t) BY <2>6 DEF SetEvt
  <2>7. CASE ProbeUnequal(t) BY <2>7 DEF ProbeUnequal
  <2>8. CASE ResetEvt(t) BY <2>8 DEF ResetEvt
  <2> QED
    BY <2>1, <2>2, <2>3, <2>4, <2>5, <2>6, <2>7, <2>8 DEF Step, Suffice
<1>3. TypeOK'
  BY <1>1 DEF Step
<1>4. \A u \in lone : u = t
  BY <1>2 DEF LoneCallerKnows
<1>5. ASSUME lone = {t}
      PROVE  /\ suf'.at[t] = "compare" => suf'.seen[t] = suf'.max
             /\ suf'.at[t] \in {"probeEqual", "set"} => IsEqual'
             /\ suf'.at[t] \in {"probeUnequal", "reset"} => ~IsEqual'
             /\ suf'.at[t] \in {"clearCurrent", "clearSet"} => suf'.max = 0
             /\ suf'.at[t] = "clearSet" => suf'.current = 0
             /\ suf'.at[t] = "out" => (Signalled' <=> IsEqual')
  <2> USE <1>5 DEF LoneCallerKnows, IsEqual, Signalled
  <2>1. CASE ClearCurrent(t) BY <2>1 DEF ClearCurrent
  <2>2. CASE ClearSet(t) BY <2>2 DEF ClearSet
  <2>3. CASE LoadMax(t) BY <2>3 DEF LoadMax
  <2>4. CASE Compare(t) BY <2>4 DEF Compare
  <2>5. CASE ProbeEqual(t) BY <2>5 DEF ProbeEqual
  <2>6. CASE SetEvt(t) BY <2>6 DEF SetEvt
  <2>7. CASE ProbeUnequal(t) BY <2>7 DEF ProbeUnequal
  <2>8. CASE ResetEvt(t) BY <2>8 DEF ResetEvt
  <2> QED
    BY <2>1, <2>2, <2>3, <2>4, <2>5, <2>6, <2>7, <2>8 DEF Step, Suffice
<1>6. CASE suf'.at[t] = "out" /\ lone = {t}
  <2>1. lone' = {} /\ settled' = TRUE
    BY <1>6 DEF Step
  <2>2. \A u \in Threads : suf'.at[u] = "out"
    BY <1>6, <1>2 DEF LoneCallerKnows
  <2> QED
    BY <1>3, <1>5, <1>6, <2>1, <2>2
    DEF LoneCallerKnows, NobodyInsideWhenSettled, LoneCallSettles
<1>7. CASE suf'.at[t] = "out" /\ lone # {t}
  BY <1>3, <1>7
  DEF Step, LoneCallerKnows, NobodyInsideWhenSettled, LoneCallSettles
<1>8. CASE suf'.at[t] # "out"
  <2>1. lone' = lone /\ settled' = settled
    BY <1>8 DEF Step
  <2>2. ~settled
    BY <1>2 DEF NobodyInsideWhenSettled
  <2>3. LoneCallerKnows'
    BY <1>2, <1>4, <1>5, <1>8, <2>1 DEF LoneCallerKnows
  <2> QED
    BY <1>3, <2>1, <2>2, <2>3 DEF NobodyInsideWhenSettled, LoneCallSettles
<1> QED BY <1>6, <1>7, <1>8

(* The invariant of Sufficing holds in every reachable state.               *)
THEOREM SettleInvariant == Spec => []SettleInv
<1>1. SettleInv /\ [Next]_vars => SettleInv'
  <2> SUFFICES ASSUME SettleInv, [Next]_vars PROVE SettleInv'
    OBVIOUS
  <2>1. CASE UNCHANGED vars
    BY <2>1 DEF vars, SettleInv, TypeOK, LoneCallerKnows, Outside, IsEqual,
                NobodyInsideWhenSettled, LoneCallSettles, Signalled
  <2>2. CASE Next
    BY <2>2, EnterPreserves, StepPreserves DEF Next
  <2> QED BY <2>1, <2>2
<1> QED BY SettleInvInit, <1>1, PTL DEF Spec

(* Once a mutator that nobody overlapped has returned, the event is set if  *)
(* and only if the counters are equal, for any number of callers.           *)
THEOREM LoneCallSettlesTheEvent == Spec => []LoneCallSettles
<1>1. SettleInv => LoneCallSettles
  BY DEF SettleInv
<1> QED BY SettleInvariant, <1>1, PTL
=============================================================================
