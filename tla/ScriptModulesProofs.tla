-------------------------- MODULE ScriptModulesProofs --------------------------
(***************************************************************************)
(* Proofs about functions of the script modules: urlEncode and urlDecode   *)
(* for texts of any bytes and any length, requests for answers of any      *)
(* number of responses and header lines, json.dumps for values of any size *)
(* and depth, and the logger.                                              *)
(***************************************************************************)
EXTENDS UrlCodec, HttpRequest, JsonWriter, ScriptLogger, SequenceTheorems, FiniteSetTheorems, WellFoundedInduction, TLAPS

-----------------------------------------------------------------------------
(* What urlEncode writes. *)

(* The first n bytes of the text p are written in d, one behind the other, *)
(* byte i from off[i] on.                                                  *)
Starts(off, p, d, n) ==
  /\ off \in [1 .. n + 1 -> Nat]
  /\ off[1] = 1 /\ off[n + 1] = Len(d) + 1
  /\ \A i \in 1 .. n : off[i + 1] = off[i] + Len(Encoded(p[i]))
  /\ \A i \in 1 .. n + 1 : 1 <= off[i] /\ off[i] <= Len(d) + 1
  /\ \A i \in 1 .. n : \A j \in 1 .. Len(Encoded(p[i])) : d[off[i] + j - 1] = Encoded(p[i])[j]

(* A byte is written as itself, as a plus, or as an escape. *)
LEMMA EncodedShape ==
  ASSUME NEW c \in Byte
  PROVE  /\ Encoded(c) \in Seq(Byte)
         /\ \/ c \in Unreserved /\ Len(Encoded(c)) = 1 /\ Encoded(c)[1] = c
            \/ c = Space /\ Len(Encoded(c)) = 1 /\ Encoded(c)[1] = Plus
            \/ /\ Len(Encoded(c)) = 3 /\ Encoded(c)[1] = Percent
               /\ Encoded(c)[2] = HexDigit(c \div 16) /\ Encoded(c)[3] = HexDigit(c % 16)
<1>1. CASE c \in Unreserved
  <2>1. Encoded(c) = <<c>>
    BY <1>1 DEF Encoded
  <2> QED  BY <1>1, <2>1
<1>2. CASE c \notin Unreserved /\ c = Space
  <2>1. Encoded(c) = <<Plus>> /\ Plus \in Byte
    BY <1>2 DEF Encoded, Plus, Byte
  <2> QED  BY <1>2, <2>1
<1>3. CASE c \notin Unreserved /\ c # Space
  <2>1. HexDigit(c \div 16) \in Byte /\ HexDigit(c % 16) \in Byte /\ Percent \in Byte
    BY DEF HexDigit, Byte, Percent
  <2>2. Encoded(c) = <<Percent, HexDigit(c \div 16), HexDigit(c % 16)>>
    BY <1>3 DEF Encoded
  <2> QED  BY <2>1, <2>2
<1> QED  BY <1>1, <1>2, <1>3

(* The two digits of an escape give the byte back. *)
LEMMA DigitsBack ==
  ASSUME NEW c \in Byte
  PROVE  HexValue(HexDigit(c \div 16)) * 16 + HexValue(HexDigit(c % 16)) = c
<1>1. \A n \in 0 .. 15 : HexValue(HexDigit(n)) = n
  BY DEF HexValue, HexDigit, Digits
<1>2. c \div 16 \in 0 .. 15 /\ c % 16 \in 0 .. 15 /\ c = (c \div 16) * 16 + (c % 16)
  BY DEF Byte
<1>3. HexValue(HexDigit(c \div 16)) = c \div 16 /\ HexValue(HexDigit(c % 16)) = c % 16
  BY <1>1, <1>2
<1> QED  BY <1>2, <1>3

(* One byte more is written behind the others. *)
LEMMA StartsMore ==
  ASSUME NEW p, NEW n \in Nat, p[n + 1] \in Byte,
         NEW d \in Seq(Byte), NEW off, Starts(off, p, d, n)
  PROVE  \E o : Starts(o, p, d \o Encoded(p[n + 1]), n + 1)
<1> DEFINE e == Encoded(p[n + 1])
           t == d \o e
           l == Len(d)
           k == Len(e)
           o == [i \in 1 .. n + 2 |-> IF i = n + 2 THEN l + k + 1 ELSE off[i]]
<1>1. e \in Seq(Byte) /\ k \in Nat /\ k >= 1 /\ l \in Nat
  <2>1. e \in Seq(Byte) /\ (k = 1 \/ k = 3)
    BY EncodedShape
  <2>2. l \in Nat
    BY LenProperties
  <2> HIDE DEF e, l, k
  <2> QED  BY <2>1, <2>2
<1>2. /\ t \in Seq(Byte) /\ Len(t) = l + k
      /\ \A i \in 1 .. l : t[i] = d[i]
      /\ \A j \in 1 .. k : t[l + j] = e[j]
  <2> HIDE DEF e
  <2>1. /\ t \in Seq(Byte) /\ Len(t) = l + k
        /\ \A i \in 1 .. l + k : t[i] = IF i <= l THEN d[i] ELSE e[i - l]
    BY <1>1, ConcatProperties
  <2> HIDE DEF t, l, k
  <2>2. ASSUME NEW i \in 1 .. l PROVE t[i] = d[i]
    <3>1. i \in 1 .. l + k /\ i <= l
      BY <1>1
    <3> QED  BY <2>1, <3>1
  <2>3. ASSUME NEW j \in 1 .. k PROVE t[l + j] = e[j]
    <3> DEFINE i == l + j
    <3>1. i \in 1 .. l + k /\ ~(i <= l) /\ i - l = j
      BY <1>1
    <3> HIDE DEF i
    <3>2. t[i] = e[j]
      BY <2>1, <3>1
    <3> QED  BY <3>2 DEF i
  <2> QED  BY <2>1, <2>2, <2>3
<1>3. /\ off \in [1 .. n + 1 -> Nat]
      /\ off[1] = 1 /\ off[n + 1] = l + 1
      /\ \A i \in 1 .. n : off[i + 1] = off[i] + Len(Encoded(p[i]))
      /\ \A i \in 1 .. n + 1 : 1 <= off[i] /\ off[i] <= l + 1
      /\ \A i \in 1 .. n : \A j \in 1 .. Len(Encoded(p[i])) : d[off[i] + j - 1] = Encoded(p[i])[j]
  BY DEF Starts
<1> HIDE DEF t, l, k
<1>4. /\ \A i \in 1 .. n + 1 : o[i] = off[i]
      /\ o[n + 2] = l + k + 1
      /\ o \in [1 .. n + 2 -> Nat]
  BY <1>1, <1>3
<1> HIDE DEF o
<1>5. \A i \in 1 .. n + 1 : o[i + 1] = o[i] + Len(Encoded(p[i]))
  <2> TAKE i \in 1 .. n + 1
  <2>1. CASE i = n + 1
    BY <2>1, <1>1, <1>3, <1>4 DEF k
  <2>2. CASE i # n + 1
    <3>1. i \in 1 .. n /\ i + 1 \in 1 .. n + 1
      BY <2>2
    <3> QED  BY <3>1, <1>3, <1>4
  <2> QED  BY <2>1, <2>2
<1>6. \A i \in 1 .. n + 2 : 1 <= o[i] /\ o[i] <= l + k + 1
  <2> TAKE i \in 1 .. n + 2
  <2>1. CASE i = n + 2
    BY <2>1, <1>1, <1>4
  <2>2. CASE i # n + 2
    <3>1. i \in 1 .. n + 1
      BY <2>2
    <3>2. o[i] = off[i] /\ off[i] \in Nat
      BY <3>1, <1>3, <1>4
    <3> QED  BY <3>1, <3>2, <1>1, <1>3
  <2> QED  BY <2>1, <2>2
<1>7. ASSUME NEW i \in 1 .. n + 1, NEW j \in 1 .. Len(Encoded(p[i]))
      PROVE  t[o[i] + j - 1] = Encoded(p[i])[j]
  <2>1. CASE i = n + 1
    <3>1. o[i] + j - 1 = l + j /\ j \in 1 .. k
      BY <2>1, <1>1, <1>3, <1>4, <1>7 DEF k
    <3> QED  BY <2>1, <3>1, <1>2
  <2>2. CASE i # n + 1
    <3>1. i \in 1 .. n /\ i + 1 \in 1 .. n + 1
      BY <2>2
    <3>2. /\ o[i] = off[i] /\ off[i] \in Nat /\ off[i] >= 1 /\ off[i + 1] \in Nat
          /\ off[i + 1] <= l + 1 /\ off[i + 1] = off[i] + Len(Encoded(p[i]))
          /\ d[off[i] + j - 1] = Encoded(p[i])[j]
      BY <3>1, <1>3, <1>4, <1>7
    <3>3. Len(Encoded(p[i])) \in Int
      BY <1>7
    <3>4. off[i] + j - 1 \in 1 .. l
      <4> DEFINE start == off[i]
                 size == Len(Encoded(p[i]))
      <4>1. /\ start \in Nat /\ start >= 1 /\ start + size <= l + 1
            /\ size \in Int /\ l \in Nat /\ j \in 1 .. size
        BY <3>2, <3>3, <1>1, <1>7
      <4> HIDE DEF start, size
      <4>2. start + j - 1 \in 1 .. l
        BY <4>1
      <4> QED  BY <4>2 DEF start
    <3>5. t[off[i] + j - 1] = d[off[i] + j - 1]
      BY <3>4, <1>2
    <3> QED  BY <3>2, <3>5
  <2> QED  BY <2>1, <2>2
<1>8. n + 1 + 1 = n + 2 /\ o[1] = 1 /\ n + 1 \in Nat
  BY <1>3, <1>4
<1>9. Starts(o, p, t, n + 1)
  BY <1>2, <1>4, <1>5, <1>6, <1>7, <1>8 DEF Starts
<1> QED  BY <1>9 DEF t, e

(* A position where a byte is written, and what the decoder finds there.   *)
LEMMA Written ==
  ASSUME NEW p, NEW n \in Nat, NEW d, Len(d) \in Nat, NEW off, Starts(off, p, d, n),
         NEW i \in 1 .. n, p[i] \in Byte
  PROVE  /\ off[i] \in 1 .. Len(d)
         /\ off[i + 1] = off[i] + Len(Encoded(p[i]))
         /\ \/ p[i] \in Unreserved /\ off[i + 1] = off[i] + 1 /\ d[off[i]] = p[i]
            \/ p[i] = Space /\ off[i + 1] = off[i] + 1 /\ d[off[i]] = Plus
            \/ /\ off[i + 1] = off[i] + 3 /\ off[i] + 2 <= Len(d) /\ d[off[i]] = Percent
               /\ HexValue(d[off[i] + 1]) * 16 + HexValue(d[off[i] + 2]) = p[i]
<1> DEFINE e == Encoded(p[i])
           h == off[i]
<1>1. /\ \/ p[i] \in Unreserved /\ Len(e) = 1 /\ e[1] = p[i]
         \/ p[i] = Space /\ Len(e) = 1 /\ e[1] = Plus
         \/ /\ Len(e) = 3 /\ e[1] = Percent
            /\ e[2] = HexDigit(p[i] \div 16) /\ e[3] = HexDigit(p[i] % 16)
      /\ HexValue(HexDigit(p[i] \div 16)) * 16 + HexValue(HexDigit(p[i] % 16)) = p[i]
  BY EncodedShape, DigitsBack
<1>2. /\ h \in Nat /\ h >= 1 /\ off[i + 1] = h + Len(e)
      /\ off[i + 1] <= Len(d) + 1
      /\ \A j \in 1 .. Len(e) : d[h + j - 1] = e[j]
  <2>1. i \in 1 .. n + 1 /\ i + 1 \in 1 .. n + 1
    OBVIOUS
  <2>2. off[i] \in Nat /\ off[i] >= 1 /\ off[i + 1] <= Len(d) + 1
    BY <2>1 DEF Starts
  <2>3. off[i + 1] = off[i] + Len(Encoded(p[i]))
    BY DEF Starts
  <2>4. \A j \in 1 .. Len(Encoded(p[i])) : d[off[i] + j - 1] = Encoded(p[i])[j]
    BY DEF Starts
  <2> QED  BY <2>2, <2>3, <2>4
<1> HIDE DEF e, h
<1>3. CASE Len(e) = 1
  <2>1. 1 \in 1 .. Len(e) /\ h + 1 - 1 = h
    BY <1>2, <1>3
  <2>2. d[h] = e[1]
    BY <1>2, <2>1
  <2> QED  BY <1>1, <1>2, <1>3, <2>2 DEF e, h
<1>4. CASE Len(e) = 3
  <2>1. 1 \in 1 .. Len(e) /\ 2 \in 1 .. Len(e) /\ 3 \in 1 .. Len(e)
    BY <1>4
  <2>2. d[h + 1 - 1] = e[1] /\ d[h + 2 - 1] = e[2] /\ d[h + 3 - 1] = e[3]
    BY <1>2, <2>1
  <2>3. h + 1 - 1 = h /\ h + 2 - 1 = h + 1 /\ h + 3 - 1 = h + 2
    BY <1>2
  <2>4. d[h] = e[1] /\ d[h + 1] = e[2] /\ d[h + 2] = e[3]
    BY <2>2, <2>3
  <2>5. h \in 1 .. Len(d) /\ h + 2 <= Len(d)
    BY <1>2, <1>4
  <2> QED  BY <1>1, <1>2, <1>4, <2>4, <2>5 DEF e, h
<1> QED  BY <1>1, <1>3, <1>4

-----------------------------------------------------------------------------
(* The decoder's iterator stands where the next byte of the encoded text   *)
(* starts, and what it has decoded are the bytes before.                   *)
CodecTypes ==
  /\ plain # NoText => plain \in Seq(Byte)
  /\ data \in Seq(Byte)
  /\ it \in Nat /\ it >= 1
  /\ result \in Seq(Byte)
  /\ state \in {"encode", "decode", "done", "undefined"}

EncodeInv ==
  state = "encode" =>
    /\ plain # NoText /\ it <= Len(plain) + 1 /\ result = <<>>
    /\ \E off : Starts(off, plain, data, it - 1)

DecodeInv ==
  state = "decode" /\ plain # NoText =>
    /\ Len(result) <= Len(plain)
    /\ \A i \in 1 .. Len(result) : result[i] = plain[i]
    /\ \E off : Starts(off, plain, data, Len(plain)) /\ it = off[Len(result) + 1]

CodecInv == CodecTypes /\ EncodeInv /\ DecodeInv /\ RoundTrip /\ OverrunOnlyCut

LEMMA CodecInit == Init => CodecInv
<1> SUFFICES ASSUME Init PROVE CodecInv
  OBVIOUS
<1>1. /\ it = 1 /\ result = <<>>
      /\ \/ plain \in Plains /\ plain # NoText /\ data = <<>> /\ state = "encode"
         \/ plain = NoText /\ data \in Texts /\ state = "decode"
  BY TextsAssumption DEF Init
<1>2. CodecTypes
  <2>1. data \in Seq(Byte) /\ result \in Seq(Byte)
    BY <1>1, TextsAssumption, EmptySeq
  <2>2. plain # NoText => plain \in Seq(Byte)
    BY <1>1, TextsAssumption
  <2> QED  BY <1>1, <2>1, <2>2 DEF CodecTypes
<1>3. EncodeInv
  <2> SUFFICES ASSUME state = "encode" PROVE EncodeInv
    BY DEF EncodeInv
  <2>1. plain \in Plains /\ plain # NoText /\ data = <<>> /\ Len(plain) \in Nat
    BY <1>1, TextsAssumption, LenProperties
  <2>2. Starts([i \in 1 .. 1 |-> 1], plain, data, 0)
    <3>1. Len(data) = 0
      BY <2>1, EmptySeq
    <3> QED  BY <3>1 DEF Starts
  <2>3. it - 1 = 0 /\ it <= Len(plain) + 1
    BY <1>1, <2>1
  <2> QED  BY <1>1, <2>1, <2>2, <2>3 DEF EncodeInv
<1> QED  BY <1>1, <1>2, <1>3 DEF CodecInv, DecodeInv, RoundTrip, OverrunOnlyCut

LEMMA EncodeKeeps == ASSUME CodecInv, Encode PROVE CodecInv'
<1>1. /\ CodecTypes /\ EncodeInv
      /\ state = "encode" /\ it <= Len(plain)
      /\ data' = data \o Encoded(plain[it]) /\ it' = it + 1
      /\ UNCHANGED <<plain, result, state>>
  BY DEF CodecInv, Encode
<1>2. /\ plain # NoText /\ plain \in Seq(Byte) /\ data \in Seq(Byte) /\ result = <<>>
      /\ it \in Nat /\ it >= 1 /\ Len(plain) \in Nat
  BY <1>1, LenProperties DEF CodecTypes, EncodeInv
<1>3. it - 1 \in Nat /\ it - 1 + 1 = it /\ it \in 1 .. Len(plain) /\ it' - 1 = it
  BY <1>1, <1>2
<1>4. plain[it] \in Byte
  BY <1>2, <1>3, ElementOfSeq
<1>5. PICK off : Starts(off, plain, data, it - 1)
  BY <1>1 DEF EncodeInv
<1>6. \E o : Starts(o, plain, data \o Encoded(plain[it - 1 + 1]), it - 1 + 1)
  BY <1>2, <1>3, <1>4, <1>5, StartsMore
<1>7. \E o : Starts(o, plain, data', it)
  BY <1>1, <1>3, <1>6
<1>8. data' \in Seq(Byte)
  BY <1>1, <1>2, <1>4, EncodedShape, ConcatProperties
<1>9. CodecTypes'
  BY <1>1, <1>2, <1>8 DEF CodecTypes
<1>10. EncodeInv'
  <2>1. it' <= Len(plain') + 1 /\ plain' # NoText /\ result' = <<>>
    BY <1>1, <1>2
  <2>2. \E o : Starts(o, plain', data', it' - 1)
    BY <1>1, <1>3, <1>7
  <2> QED  BY <2>1, <2>2 DEF EncodeInv
<1> QED  BY <1>1, <1>9, <1>10 DEF CodecInv, DecodeInv, RoundTrip, OverrunOnlyCut

LEMMA EncodeReturnKeeps == ASSUME CodecInv, EncodeReturn PROVE CodecInv'
<1>1. /\ CodecTypes /\ EncodeInv
      /\ state = "encode" /\ it = Len(plain) + 1
      /\ state' = "decode" /\ it' = 1
      /\ UNCHANGED <<plain, data, result>>
  BY DEF CodecInv, EncodeReturn
<1>2. plain # NoText /\ plain \in Seq(Byte) /\ result = <<>> /\ Len(plain) \in Nat
  BY <1>1, LenProperties DEF CodecTypes, EncodeInv
<1>3. PICK off : Starts(off, plain, data, it - 1)
  BY <1>1 DEF EncodeInv
<1>4. Starts(off, plain, data, Len(plain)) /\ off[1] = 1
  <2>1. it - 1 = Len(plain)
    BY <1>1, <1>2
  <2> QED  BY <1>3, <2>1 DEF Starts
<1>5. CodecTypes'
  BY <1>1 DEF CodecTypes
<1>6. DecodeInv'
  <2>1. Len(result') = 0 /\ Len(result') + 1 = 1
    BY <1>1, <1>2, EmptySeq
  <2>2. Len(result') <= Len(plain')
    BY <1>1, <1>2, <2>1
  <2>3. Starts(off, plain', data', Len(plain')) /\ it' = off[Len(result') + 1]
    BY <1>1, <1>4, <2>1
  <2> QED  BY <2>1, <2>2, <2>3 DEF DecodeInv
<1> QED  BY <1>1, <1>5, <1>6 DEF CodecInv, EncodeInv, RoundTrip, OverrunOnlyCut

(* In the middle of an encoded text: the byte the iterator stands at.      *)
LEMMA DecodeAt ==
  ASSUME CodecInv, state = "decode", plain # NoText, it <= Len(data)
  PROVE  LET r == Len(result) + 1
         IN  /\ r \in 1 .. Len(plain) /\ plain[r] \in Byte
             /\ \E off :
                  /\ Starts(off, plain, data, Len(plain))
                  /\ it = off[r]
                  /\ \/ plain[r] \in Unreserved /\ off[r + 1] = it + 1 /\ data[it] = plain[r]
                     \/ plain[r] = Space /\ off[r + 1] = it + 1 /\ data[it] = Plus
                     \/ /\ off[r + 1] = it + 3 /\ it + 2 <= Len(data) /\ data[it] = Percent
                        /\ HexValue(data[it + 1]) * 16 + HexValue(data[it + 2]) = plain[r]
<1> DEFINE r == Len(result) + 1
<1>1. PICK off : Starts(off, plain, data, Len(plain)) /\ it = off[r]
  BY DEF CodecInv, DecodeInv
<1>2. /\ plain \in Seq(Byte) /\ Len(plain) \in Nat /\ Len(data) \in Nat
      /\ Len(result) \in Nat /\ Len(result) <= Len(plain)
  BY LenProperties DEF CodecInv, CodecTypes, DecodeInv
<1>3. off[Len(plain) + 1] = Len(data) + 1
  BY <1>1 DEF Starts
<1>4. r \in 1 .. Len(plain)
  <2>1. r # Len(plain) + 1
    BY <1>1, <1>2, <1>3
  <2> QED  BY <1>2, <2>1
<1>5. plain[r] \in Byte
  BY <1>2, <1>4, ElementOfSeq
<1> HIDE DEF r
<1>6. \/ plain[r] \in Unreserved /\ off[r + 1] = it + 1 /\ data[it] = plain[r]
      \/ plain[r] = Space /\ off[r + 1] = it + 1 /\ data[it] = Plus
      \/ /\ off[r + 1] = it + 3 /\ it + 2 <= Len(data) /\ data[it] = Percent
         /\ HexValue(data[it + 1]) * 16 + HexValue(data[it + 2]) = plain[r]
  BY <1>1, <1>2, <1>4, <1>5, Written
<1> QED  BY <1>1, <1>4, <1>5, <1>6 DEF r

(* A turn that decodes byte r and goes on behind it.                       *)
LEMMA DecodeStep ==
  ASSUME CodecInv, state = "decode", UNCHANGED <<plain, data, state>>,
         NEW c \in Byte, result' = Append(result, c), it' \in Nat, it' >= 1,
         plain # NoText =>
           /\ Len(result) + 1 \in 1 .. Len(plain) /\ c = plain[Len(result) + 1]
           /\ \E off : Starts(off, plain, data, Len(plain)) /\ it' = off[Len(result) + 1 + 1]
  PROVE  CodecInv'
<1>1. CodecTypes /\ DecodeInv /\ result \in Seq(Byte)
  BY DEF CodecInv, CodecTypes
<1>2. /\ result' \in Seq(Byte) /\ Len(result) \in Nat /\ Len(result') = Len(result) + 1
      /\ \A i \in 1 .. Len(result) : result'[i] = result[i]
      /\ result'[Len(result) + 1] = c
  BY <1>1, AppendProperties, LenProperties
<1>3. CodecTypes'
  BY <1>1, <1>2 DEF CodecTypes
<1>4. DecodeInv'
  <2> SUFFICES ASSUME plain # NoText PROVE DecodeInv'
    BY DEF DecodeInv
  <2>1. Len(result') <= Len(plain')
    BY <1>2
  <2>2. \A i \in 1 .. Len(result') : result'[i] = plain'[i]
    <3> TAKE i \in 1 .. Len(result')
    <3>1. CASE i = Len(result) + 1
      BY <3>1, <1>2
    <3>2. CASE i # Len(result) + 1
      <4>1. i \in 1 .. Len(result)
        BY <3>2, <1>2
      <4> QED  BY <4>1, <1>1, <1>2 DEF DecodeInv
    <3> QED  BY <3>1, <3>2
  <2>3. \E off : Starts(off, plain', data', Len(plain')) /\ it' = off[Len(result') + 1]
    BY <1>2
  <2> QED  BY <2>1, <2>2, <2>3 DEF DecodeInv
<1> QED  BY <1>3, <1>4 DEF CodecInv, EncodeInv, RoundTrip, OverrunOnlyCut

LEMMA CopyKeeps == ASSUME CodecInv, Copy PROVE CodecInv'
<1>1. PICK c \in Unreserved : Reads(c) /\ result' = Append(result, c)
  BY DEF Copy
<1>2. /\ state = "decode" /\ it <= Len(data) /\ data[it] = c
      /\ it' = it + 1 /\ UNCHANGED <<plain, data, state>>
  BY <1>1 DEF Reads, Copy
<1>3. it \in Nat /\ it >= 1 /\ c \in Byte /\ c # Plus /\ c # Percent
  BY DEF CodecInv, CodecTypes, Unreserved, Digits, UpperCase, LowerCase, Byte, Plus, Percent
<1>4. ASSUME plain # NoText
      PROVE  /\ Len(result) + 1 \in 1 .. Len(plain) /\ c = plain[Len(result) + 1]
             /\ \E off : Starts(off, plain, data, Len(plain)) /\ it' = off[Len(result) + 1 + 1]
  BY <1>2, <1>3, <1>4, DecodeAt
<1> QED  BY <1>1, <1>2, <1>3, <1>4, DecodeStep

LEMMA DecodePlusKeeps == ASSUME CodecInv, DecodePlus PROVE CodecInv'
<1>1. /\ state = "decode" /\ it <= Len(data) /\ data[it] = Plus
      /\ it' = it + 1 /\ UNCHANGED <<plain, data, state>> /\ result' = Append(result, Space)
  BY DEF Reads, DecodePlus
<1>2. /\ it \in Nat /\ it >= 1 /\ Space \in Byte /\ Plus # Percent
      /\ Plus \notin Unreserved
  BY DEF CodecInv, CodecTypes, Unreserved, Digits, UpperCase, LowerCase, Byte, Plus, Percent, Space
<1>3. ASSUME plain # NoText
      PROVE  /\ Len(result) + 1 \in 1 .. Len(plain) /\ Space = plain[Len(result) + 1]
             /\ \E off : Starts(off, plain, data, Len(plain)) /\ it' = off[Len(result) + 1 + 1]
  BY <1>1, <1>2, <1>3, DecodeAt
<1> QED  BY <1>1, <1>2, <1>3, DecodeStep

LEMMA DecodePercentKeeps == ASSUME CodecInv, DecodePercent PROVE CodecInv'
<1> DEFINE c == HexValue(data[it + 1]) * 16 + HexValue(data[it + 2])
<1>1. /\ state = "decode" /\ it <= Len(data) /\ data[it] = Percent /\ ~Cut
      /\ it' = it + 3 /\ UNCHANGED <<plain, data, state>> /\ result' = Append(result, c)
  BY DEF Reads, DecodePercent
<1>2. /\ it \in Nat /\ it >= 1 /\ Plus # Percent /\ Percent \notin Unreserved
  BY DEF CodecInv, CodecTypes, Unreserved, Digits, UpperCase, LowerCase, Plus, Percent
<1>3. c \in Byte
  <2>1. \A b \in Byte : HexValue(b) \in 0 .. 15
    BY DEF Byte, HexValue, Digits
  <2>2. data \in Seq(Byte) /\ Len(data) \in Nat
    BY LenProperties DEF CodecInv, CodecTypes
  <2>3. it + 1 \in 1 .. Len(data) /\ it + 2 \in 1 .. Len(data)
    BY <1>1, <1>2, <2>2 DEF Cut
  <2>4. data[it + 1] \in Byte /\ data[it + 2] \in Byte
    BY <2>2, <2>3, ElementOfSeq
  <2>5. HexValue(data[it + 1]) \in 0 .. 15 /\ HexValue(data[it + 2]) \in 0 .. 15
    BY <2>1, <2>4
  <2> QED  BY <2>5 DEF Byte
<1>4. ASSUME plain # NoText
      PROVE  /\ Len(result) + 1 \in 1 .. Len(plain) /\ c = plain[Len(result) + 1]
             /\ \E off : Starts(off, plain, data, Len(plain)) /\ it' = off[Len(result) + 1 + 1]
  BY <1>1, <1>2, <1>4, DecodeAt
<1> HIDE DEF c
<1> QED  BY <1>1, <1>2, <1>3, <1>4, DecodeStep

(* An encoded text has no byte that is dropped. *)
LEMMA DropKeeps == ASSUME CodecInv, Drop PROVE CodecInv'
<1>1. PICK c \in Byte \ (Unreserved \cup {Plus, Percent}) : Reads(c)
  BY DEF Drop
<1>2. /\ state = "decode" /\ it <= Len(data) /\ data[it] = c
      /\ it' = it + 1 /\ UNCHANGED <<plain, data, result, state>>
  BY <1>1 DEF Reads, Drop
<1>3. plain = NoText
  BY <1>1, <1>2, DecodeAt
<1>4. CodecTypes'
  BY <1>2 DEF CodecInv, CodecTypes
<1> QED  BY <1>2, <1>3, <1>4 DEF CodecInv, EncodeInv, DecodeInv, RoundTrip, OverrunOnlyCut

(* No encoded text ends in the middle of an escape. *)
LEMMA OverrunKeeps == ASSUME CodecInv, Overrun PROVE CodecInv'
<1>1. /\ state = "decode" /\ it <= Len(data) /\ data[it] = Percent /\ it + 2 > Len(data)
      /\ state' = "undefined" /\ UNCHANGED <<plain, data, it, result>>
  BY DEF Reads, Overrun, Cut
<1>2. /\ it \in Nat /\ it >= 1 /\ data \in Seq(Byte) /\ Len(data) \in Nat
      /\ DOMAIN data = 1 .. Len(data)
  BY LenProperties DEF CodecInv, CodecTypes
<1>3. Percent # Plus /\ Percent \notin Unreserved
  BY DEF Unreserved, Digits, UpperCase, LowerCase, Plus, Percent
<1>4. plain = NoText
  BY <1>1, <1>2, <1>3, DecodeAt
<1>5. it \in DOMAIN data /\ it >= Len(data) - 1
  BY <1>1, <1>2
<1>6. OverrunOnlyCut'
  BY <1>1, <1>4, <1>5 DEF OverrunOnlyCut
<1>7. CodecTypes'
  BY <1>1 DEF CodecInv, CodecTypes
<1> QED  BY <1>1, <1>6, <1>7 DEF CodecInv, EncodeInv, DecodeInv, RoundTrip

(* At the end of an encoded text every byte has been decoded. *)
LEMMA ReturnKeeps == ASSUME CodecInv, Return PROVE CodecInv'
<1>1. /\ state = "decode" /\ it = Len(data) + 1
      /\ state' = "done" /\ UNCHANGED <<plain, data, it, result>>
  BY DEF Return
<1>2. CodecTypes /\ result \in Seq(Byte) /\ Len(result) \in Nat /\ Len(data) \in Nat
  BY LenProperties DEF CodecInv, CodecTypes
<1>3. ASSUME plain # NoText PROVE result = plain
  <2>1. PICK off : Starts(off, plain, data, Len(plain)) /\ it = off[Len(result) + 1]
    BY <1>1, <1>3 DEF CodecInv, DecodeInv
  <2>2. /\ plain \in Seq(Byte) /\ Len(plain) \in Nat /\ Len(result) <= Len(plain)
        /\ \A i \in 1 .. Len(result) : result[i] = plain[i]
    BY <1>1, <1>3, LenProperties DEF CodecInv, CodecTypes, DecodeInv
  <2>3. Len(result) = Len(plain)
    <3> SUFFICES ASSUME Len(result) # Len(plain) PROVE FALSE
      OBVIOUS
    <3>1. Len(result) + 1 \in 1 .. Len(plain)
      BY <1>2, <2>2
    <3>2. plain[Len(result) + 1] \in Byte
      BY <2>2, <3>1, ElementOfSeq
    <3>3. off[Len(result) + 1] \in 1 .. Len(data)
      BY <1>2, <2>1, <2>2, <3>1, <3>2, Written
    <3> QED  BY <1>1, <1>2, <2>1, <3>3
  <2> QED  BY <1>2, <2>2, <2>3, SeqEqual
<1>4. CodecTypes'
  BY <1>1, <1>2 DEF CodecTypes
<1> QED  BY <1>1, <1>3, <1>4 DEF CodecInv, EncodeInv, DecodeInv, RoundTrip, OverrunOnlyCut

LEMMA CodecStep == CodecInv /\ [Next]_vars => CodecInv'
<1> SUFFICES ASSUME CodecInv, [Next]_vars PROVE CodecInv'
  OBVIOUS
<1>1. CASE UNCHANGED vars
  BY <1>1 DEF vars, CodecInv, CodecTypes, EncodeInv, DecodeInv, RoundTrip, OverrunOnlyCut
<1> QED  BY <1>1, EncodeKeeps, EncodeReturnKeeps, CopyKeeps, DecodePlusKeeps, DropKeeps,
            DecodePercentKeeps, OverrunKeeps, ReturnKeeps DEF Next

LEMMA CodecAlways == Spec => []CodecInv
  BY CodecInit, CodecStep, PTL DEF Spec

(* urlDecode gives back every text that urlEncode has written, of any      *)
(* bytes: what the encoder's two branches write (lines 377-398) is what    *)
(* the decoder's three read (lines 414-455).                               *)
THEOREM DecodingInverts == Spec => []RoundTrip
<1>1. CodecInv => RoundTrip
  BY DEF CodecInv
<1> QED  BY <1>1, CodecAlways, PTL

(* urlDecode reads behind its argument only if that ends in the middle of  *)
(* an escape (line 433); of an encoded text it never does.                 *)
THEOREM OverrunsExplained == Spec => []OverrunOnlyCut
<1>1. CodecInv => OverrunOnlyCut
  BY DEF CodecInv
<1> QED  BY <1>1, CodecAlways, PTL

-----------------------------------------------------------------------------
(* What a request is announced as. *)

TypeNames == {"Content-Type", "content-type"}

Typed(sent, body) ==
  LET types == {l \in sent : l.name \in TypeNames}
      given == {l \in types : l.by = "script"}
  IN  IF given = {} THEN {l.by : l \in types} = {body} \ {"none"}
      ELSE types = given \/ (body = "json" /\ {l.name : l \in given} = {"content-type"})

LEMMA SentTyped ==
  ASSUME NEW given \in SUBSET Names, NEW body \in {"none", "json", "form"}
  PROVE  Typed(Sent(given, body), body)
<1> DEFINE scripts == {Line(name, "script") : name \in given}
           all == scripts \cup Defaults(given, body)
           own == OwnLine(all, body)
           types == {l \in Sent(given, body) : l.name \in TypeNames}
           theirs == {l \in types : l.by = "script"}
<1>1. Sent(given, body) = all \cup own
  BY DEF Sent
<1>2. \A l : l \in scripts /\ l.name \in TypeNames <=>
               \E name \in given \cap TypeNames : l = Line(name, "script")
  BY DEF Line, TypeNames
<1>3. /\ \A name, by : Line(name, by).name = name /\ Line(name, by).by = by
      /\ "Content-Type " \notin TypeNames /\ "Accept" \notin TypeNames
      /\ "Content-Type" \in TypeNames
  BY DEF Line, TypeNames
<1>4. Defaults(given, body) =
        (IF "Accept" \in given THEN {} ELSE {Line("Accept", "default")})
        \cup IF body = "none" \/ "Content-Type" \in given THEN {}
             ELSE {Line(IF body = "json" THEN "Content-Type" ELSE "Content-Type ", body)}
  BY DEF Defaults
<1>5. own = IF body = "none" \/ \E l \in all : l.name \in TypeNames THEN {}
            ELSE {Line("Content-Type", "form")}
  BY DEF OwnLine, TypeNames
<1>6. \A l \in Defaults(given, body) :
        l.name \in TypeNames <=>
          /\ body = "json" /\ "Content-Type" \notin given
          /\ l = Line("Content-Type", "json")
  <2> TAKE l \in Defaults(given, body)
  <2>1. CASE l = Line("Accept", "default")
    BY <2>1 DEF Line, TypeNames
  <2>2. CASE /\ body # "none" /\ "Content-Type" \notin given
             /\ l = Line(IF body = "json" THEN "Content-Type" ELSE "Content-Type ", body)
    <3>1. CASE body = "json"
      BY <2>2, <3>1 DEF Line, TypeNames
    <3>2. CASE body # "json"
      BY <2>2, <3>2 DEF Line, TypeNames
    <3> QED  BY <3>1, <3>2
  <2> QED  BY <2>1, <2>2, <1>4
<1>7. body = "json" /\ "Content-Type" \notin given =>
        Line("Content-Type", "json") \in Defaults(given, body)
  BY <1>4
<1>8. types = {l \in all : l.name \in TypeNames} \cup {l \in own : l.name \in TypeNames}
  BY <1>1
<1> SUFFICES IF theirs = {} THEN {l.by : l \in types} = {body} \ {"none"}
             ELSE types = theirs \/ (body = "json" /\ {l.name : l \in theirs} = {"content-type"})
  BY DEF Typed
<1> HIDE DEF scripts, all, own, types, theirs
<1>9. CASE given \cap TypeNames = {}
  <2>1. \A l \in scripts : l.name \notin TypeNames
    BY <1>2, <1>9
  <2>2. "Content-Type" \notin given
    BY <1>3, <1>9
  <2>3. CASE body = "none"
    <3>1. types = {}
      BY <2>1, <2>3, <1>5, <1>6, <1>8 DEF all
    <3> QED  BY <3>1, <2>3 DEF theirs
  <2>4. CASE body = "json"
    <3>1. {l \in all : l.name \in TypeNames} = {Line("Content-Type", "json")}
      BY <2>1, <2>2, <2>4, <1>3, <1>6, <1>7 DEF all
    <3>2. own = {}
      BY <3>1, <1>5
    <3>3. types = {Line("Content-Type", "json")}
      BY <3>1, <3>2, <1>8
    <3>4. theirs = {} /\ {l.by : l \in types} = {"json"}
      BY <3>3 DEF theirs, Line
    <3> QED  BY <3>4, <2>4
  <2>5. CASE body = "form"
    <3>1. {l \in all : l.name \in TypeNames} = {}
      BY <2>1, <2>5, <1>6 DEF all
    <3>2. own = {Line("Content-Type", "form")}
      BY <3>1, <2>5, <1>5
    <3>3. types = {Line("Content-Type", "form")}
      BY <3>1, <3>2, <1>3, <1>8
    <3>4. theirs = {} /\ {l.by : l \in types} = {"form"}
      <4>1. Line("Content-Type", "form").by = "form"
        BY DEF Line
      <4> QED  BY <3>3, <4>1 DEF theirs
    <3> QED  BY <3>4, <2>5
  <2> QED  BY <2>3, <2>4, <2>5
<1>10. ASSUME NEW name \in given \cap TypeNames
       PROVE  types = theirs \/ (body = "json" /\ {l.name : l \in theirs} = {"content-type"})
  <2>1. Line(name, "script") \in all
    BY DEF all, scripts
  <2>2. own = {}
    BY <2>1, <1>3, <1>5, <1>10
  <2>3. types = {l \in all : l.name \in TypeNames}
    BY <2>2, <1>8
  <2>4. \A l \in scripts : l.by = "script"
    BY DEF scripts, Line
  <2>5. CASE body # "json" \/ "Content-Type" \in given
    <3>1. \A l \in types : l \in scripts
      BY <2>3, <2>5, <1>6 DEF all
    <3> QED  BY <3>1, <2>4 DEF theirs
  <2>6. CASE body = "json" /\ "Content-Type" \notin given
    <3>1. name = "content-type"
      BY <2>6, <1>10 DEF TypeNames
    <3>2. Line(name, "script") \in theirs
      <4>1. Line(name, "script") \in types
        BY <2>1, <2>3, <1>3, <1>10
      <4> QED  BY <4>1, <1>3 DEF theirs
    <3>3. \A l \in theirs : l = Line("content-type", "script")
      <4> TAKE l \in theirs
      <4>1. l \in types /\ l.by = "script"
        BY DEF theirs
      <4>2. l # Line("Content-Type", "json")
        BY <4>1 DEF Line
      <4>3. l \in scripts /\ l.name \in TypeNames
        BY <4>1, <4>2, <2>3, <1>6 DEF all
      <4>4. PICK other \in given \cap TypeNames : l = Line(other, "script")
        BY <4>3, <1>2
      <4>5. other = "content-type"
        BY <2>6, <4>4 DEF TypeNames
      <4> QED  BY <4>4, <4>5
    <3>4. theirs = {Line("content-type", "script")}
      BY <3>1, <3>2, <3>3
    <3> QED  BY <3>4, <2>6, <1>3
  <2> QED  BY <2>5, <2>6
<1>11. CASE given \cap TypeNames # {}
  <2>1. PICK name \in given \cap TypeNames : TRUE
    BY <1>11
  <2>2. Line(name, "script") \in theirs
    BY <2>1, <1>3, <1>8 DEF all, scripts, theirs
  <2> QED  BY <2>1, <2>2, <1>10
<1> QED  BY <1>9, <1>11

LEMMA CallTyped ==
  ASSUME NEW method \in Methods, NEW count, NEW argument, NEW isDataJson,
         Call(method, count, argument, isDataJson)
  PROVE  /\ call = "call" /\ call' \in {"raised", "perform"}
         /\ RequestTyped'
         /\ UNCHANGED <<responses, lines, answer>>
<1>1. call = "call" /\ UNCHANGED <<responses, lines, answer>>
  BY DEF Call
<1>2. PICK isTable \in BOOLEAN :
        IF Refused(method, count, isTable)
        THEN call' = "raised"
        ELSE \E given \in SUBSET Names, proxy \in BOOLEAN, redirect \in BOOLEAN :
               /\ call' = "perform"
               /\ request' = [method |-> method, body |-> Body(method, argument, isDataJson),
                              redirect |-> redirect, proxy |-> proxy,
                              sent |-> Sent(given, Body(method, argument, isDataJson))]
  BY DEF Call
<1>3. CASE call' = "raised"
  BY <1>1, <1>3 DEF RequestTyped
<1>4. ASSUME NEW given \in SUBSET Names, NEW proxy, NEW redirect,
             call' = "perform",
             request' = [method |-> method, body |-> Body(method, argument, isDataJson),
                         redirect |-> redirect, proxy |-> proxy,
                         sent |-> Sent(given, Body(method, argument, isDataJson))]
      PROVE  RequestTyped'
  <2>1. Body(method, argument, isDataJson) \in {"none", "json", "form"}
    BY DEF Body
  <2>2. Typed(request'.sent, request'.body)
    BY <1>4, <2>1, SentTyped
  <2> QED  BY <2>2 DEF RequestTyped, Typed, TypeNames
<1> QED  BY <1>1, <1>2, <1>3, <1>4

-----------------------------------------------------------------------------
(* What the header callback makes of the lines. *)

HeaderLine == [line : HeaderLines, response : Nat]

Cookies(h) == IF "Set-Cookie" \in DOMAIN h THEN h["Set-Cookie"] ELSE <<>>

(* The headers h after the lines s: under Set-Cookie every line that       *)
(* mentions it, in order, and under any other name its first line.         *)
HeadersOf(h, s) ==
  /\ \A name \in DOMAIN h : h[name] \in Seq(1 .. Len(s)) /\ h[name] # <<>>
  /\ \A i \in 1 .. Len(s) : ~s[i].line.mentions => s[i].line.name \in DOMAIN h
  /\ \A x \in DOMAIN Cookies(h) : s[Cookies(h)[x]].line.mentions
  /\ \A i \in 1 .. Len(s) : s[i].line.mentions => \E x \in DOMAIN Cookies(h) : Cookies(h)[x] = i
  /\ \A x, y \in DOMAIN Cookies(h) : x < y => Cookies(h)[x] < Cookies(h)[y]
  /\ \A name \in DOMAIN h \ {"Set-Cookie"} :
       LET i == h[name][1]
       IN  /\ s[i].line.name = name /\ ~s[i].line.mentions
           /\ \A j \in 1 .. i - 1 : s[j].line.name = name => s[j].line.mentions

LEMMA CookiesAre ==
  ASSUME NEW s \in Seq(HeaderLine), NEW h, HeadersOf(h, s)
  PROVE  /\ Cookies(h) \in Seq(1 .. Len(s))
         /\ Len(Cookies(h)) \in Nat /\ DOMAIN Cookies(h) = 1 .. Len(Cookies(h))
         /\ \A x \in DOMAIN Cookies(h) : Cookies(h)[x] \in 1 .. Len(s)
<1>1. Cookies(h) \in Seq(1 .. Len(s))
  BY EmptySeq DEF Cookies, HeadersOf
<1> QED  BY <1>1, LenProperties, ElementOfSeq

(* The case of a line with a cookie, and that of any other line. *)
LEMMA CookieMerged ==
  ASSUME NEW s \in Seq(HeaderLine), NEW h, HeadersOf(h, s),
         NEW line \in HeaderLines, line.mentions
  PROVE  LET g == Merged(h, line, Len(s) + 1)
         IN  /\ DOMAIN g = DOMAIN h \cup {"Set-Cookie"}
             /\ \A name \in DOMAIN h \ {"Set-Cookie"} : g[name] = h[name]
             /\ Cookies(g) = Append(Cookies(h), Len(s) + 1)
<1> DEFINE n == Len(s) + 1
           g == Merged(h, line, n)
<1>1. CASE "Set-Cookie" \in DOMAIN h
  <2>1. g = [h EXCEPT !["Set-Cookie"] = Append(@, n)]
    BY <1>1 DEF Merged
  <2>2. g["Set-Cookie"] = Append(h["Set-Cookie"], n)
    BY <1>1, <2>1
  <2> QED  BY <1>1, <2>1, <2>2 DEF Cookies
<1>2. CASE "Set-Cookie" \notin DOMAIN h
  <2>1. g = [x \in DOMAIN h \cup {"Set-Cookie"} |-> IF x = "Set-Cookie" THEN <<n>> ELSE h[x]]
    BY <1>2 DEF Merged, Emplace
  <2>2. Cookies(g) = <<n>> /\ Cookies(h) = <<>>
    BY <1>2, <2>1 DEF Cookies
  <2>3. Append(<<>>, n) = <<n>>
    OBVIOUS
  <2> QED  BY <1>2, <2>1, <2>2, <2>3
<1> QED  BY <1>1, <1>2

LEMMA OtherMerged ==
  ASSUME NEW h, NEW n, NEW line \in HeaderLines, ~line.mentions
  PROVE  LET g == Merged(h, line, n)
         IN  /\ line.name # "Set-Cookie"
             /\ DOMAIN g = DOMAIN h \cup {line.name}
             /\ \A name \in DOMAIN h : g[name] = h[name]
             /\ line.name \notin DOMAIN h => g[line.name] = <<n>>
             /\ Cookies(g) = Cookies(h)
<1> DEFINE g == Merged(h, line, n)
<1>1. line.name # "Set-Cookie"
  <2> SUFFICES ASSUME line.name = "Set-Cookie" PROVE FALSE
    OBVIOUS
  <2>1. line \in [name : {"Set-Cookie", "set-cookie", "Other"}, mentions : BOOLEAN]
    BY DEF HeaderLines
  <2>2. line.mentions \in BOOLEAN
    BY <2>1
  <2>3. line.mentions = FALSE
    BY <2>2
  <2>4. line \in [name : {"Set-Cookie"}, mentions : {FALSE}]
    BY <2>1, <2>3
  <2> QED  BY <2>4 DEF HeaderLines
<1>2. g = IF line.name \in DOMAIN h THEN h
          ELSE [x \in DOMAIN h \cup {line.name} |-> IF x = line.name THEN <<n>> ELSE h[x]]
  BY DEF Merged, Emplace
<1>3. CASE line.name \in DOMAIN h
  BY <1>1, <1>2, <1>3
<1>4. CASE line.name \notin DOMAIN h
  <2>1. g = [x \in DOMAIN h \cup {line.name} |-> IF x = line.name THEN <<n>> ELSE h[x]]
    BY <1>2, <1>4
  <2> HIDE DEF g
  <2> QED  BY <1>1, <1>4, <2>1 DEF Cookies, g
<1> QED  BY <1>3, <1>4

LEMMA MergedKeeps ==
  ASSUME NEW s \in Seq(HeaderLine), NEW h, HeadersOf(h, s),
         NEW line \in HeaderLines, NEW r \in Nat
  PROVE  HeadersOf(Merged(h, line, Len(s) + 1), Append(s, [line |-> line, response |-> r]))
<1> DEFINE l == Len(s)
           t == Append(s, [line |-> line, response |-> r])
           g == Merged(h, line, l + 1)
           c == Cookies(h)
<1>1. /\ l \in Nat /\ Len(t) = l + 1
      /\ \A i \in 1 .. l : t[i] = s[i]
      /\ t[l + 1].line = line
  <2>1. [line |-> line, response |-> r] \in HeaderLine
    BY DEF HeaderLine
  <2>2. /\ l \in Nat /\ Len(t) = l + 1 /\ \A i \in 1 .. l : t[i] = s[i]
        /\ t[l + 1] = [line |-> line, response |-> r]
    BY <2>1, AppendProperties, LenProperties
  <2> HIDE DEF t
  <2> QED  BY <2>2
<1>2. /\ c \in Seq(1 .. l) /\ Len(c) \in Nat /\ DOMAIN c = 1 .. Len(c)
      /\ \A x \in DOMAIN c : c[x] \in 1 .. l
  BY CookiesAre
<1>3. /\ \A name \in DOMAIN h : h[name] \in Seq(1 .. l) /\ h[name] # <<>>
      /\ \A i \in 1 .. l : ~s[i].line.mentions => s[i].line.name \in DOMAIN h
      /\ \A x \in DOMAIN c : s[c[x]].line.mentions
      /\ \A i \in 1 .. l : s[i].line.mentions => \E x \in DOMAIN c : c[x] = i
      /\ \A x, y \in DOMAIN c : x < y => c[x] < c[y]
      /\ \A name \in DOMAIN h \ {"Set-Cookie"} :
           /\ s[h[name][1]].line.name = name /\ ~s[h[name][1]].line.mentions
           /\ \A j \in 1 .. h[name][1] - 1 : s[j].line.name = name => s[j].line.mentions
  BY DEF HeadersOf
<1>4. \A S : S \in Seq(1 .. l) => S \in Seq(1 .. l + 1)
  BY <1>1, SeqMonotonic
<1>5. \A name \in DOMAIN h : h[name][1] \in 1 .. l
  <2> TAKE name \in DOMAIN h
  <2>1. h[name] \in Seq(1 .. l) /\ Len(h[name]) \in Nat /\ Len(h[name]) # 0
    BY <1>3, LenProperties, EmptySeq
  <2> QED  BY <2>1, ElementOfSeq
<1>6. l + 1 \in 1 .. l + 1
  BY <1>1
<1> SUFFICES HeadersOf(g, t)
  OBVIOUS
<1>7. ASSUME NEW name \in DOMAIN h \ {"Set-Cookie"}, g[name] = h[name]
      PROVE  LET i == g[name][1]
             IN  /\ t[i].line.name = name /\ ~t[i].line.mentions
                 /\ \A j \in 1 .. i - 1 : t[j].line.name = name => t[j].line.mentions
  <2>1. h[name][1] \in 1 .. l
    BY <1>5
  <2> HIDE DEF l, t, g
  <2>2. \A j \in 1 .. h[name][1] : t[j] = s[j]
    BY <2>1, <1>1
  <2>3. h[name][1] \in 1 .. h[name][1]
    BY <2>1, <1>1
  <2>4. \A j \in 1 .. h[name][1] - 1 : j \in 1 .. h[name][1]
    BY <2>1, <1>1
  <2>5. /\ s[h[name][1]].line.name = name /\ ~s[h[name][1]].line.mentions
        /\ \A j \in 1 .. h[name][1] - 1 : s[j].line.name = name => s[j].line.mentions
    BY <1>3
  <2>6. PICK i : i = h[name][1]
    OBVIOUS
  <2>7. g[name][1] = i
    BY <1>7, <2>6
  <2>8. t[i].line.name = name /\ ~t[i].line.mentions
    BY <2>2, <2>3, <2>5, <2>6
  <2>9. \A j \in 1 .. i - 1 : t[j].line.name = name => t[j].line.mentions
    BY <2>2, <2>4, <2>5, <2>6
  <2> QED  BY <2>7, <2>8, <2>9
<1>8. CASE line.mentions
  <2>1. /\ DOMAIN g = DOMAIN h \cup {"Set-Cookie"}
        /\ \A name \in DOMAIN h \ {"Set-Cookie"} : g[name] = h[name]
        /\ Cookies(g) = Append(c, l + 1)
    BY <1>8, CookieMerged
  <2> DEFINE d == Cookies(g)
  <2>2. /\ d \in Seq(1 .. l + 1) /\ d # <<>>
        /\ Len(c) \in Nat /\ Len(d) = Len(c) + 1 /\ DOMAIN d = 1 .. Len(c) + 1
        /\ \A x \in 1 .. Len(c) : d[x] = c[x]
        /\ d[Len(c) + 1] = l + 1
    <3>1. c \in Seq(1 .. l + 1)
      BY <1>2, <1>4
    <3>2. /\ d \in Seq(1 .. l + 1) /\ Len(d) = Len(c) + 1
          /\ \A x \in 1 .. Len(c) : d[x] = c[x]
          /\ d[Len(c) + 1] = l + 1
      <4> DEFINE e == l + 1
      <4>1. d = Append(c, e) /\ e \in 1 .. e /\ c \in Seq(1 .. e)
        BY <3>1, <2>1, <1>6
      <4> HIDE DEF d, c, e
      <4>2. /\ d \in Seq(1 .. e) /\ Len(d) = Len(c) + 1
            /\ \A x \in 1 .. Len(c) : d[x] = c[x]
            /\ d[Len(c) + 1] = e
        BY <4>1, AppendProperties
      <4> QED  BY <4>2 DEF e
    <3> HIDE DEF d, c
    <3>3. DOMAIN d = 1 .. Len(d)
      BY <3>2, LenProperties
    <3>4. Len(d) # 0
      BY <3>2, <1>2
    <3> QED  BY <3>2, <3>3, <3>4, <1>2, EmptySeq
  <2>3. g["Set-Cookie"] = d
    BY <2>1 DEF Cookies
  <2> HIDE DEF l, t, g, c, d
  <2>4. \A name \in DOMAIN g : g[name] \in Seq(1 .. Len(t)) /\ g[name] # <<>>
    BY <2>1, <2>2, <2>3, <1>1, <1>3, <1>4
  <2>5. ASSUME NEW i \in 1 .. Len(t), ~t[i].line.mentions PROVE t[i].line.name \in DOMAIN g
    <3>1. i \in 1 .. l
      BY <2>5, <1>1, <1>8
    <3> QED  BY <3>1, <2>1, <2>5, <1>1, <1>3
  <2>6. ASSUME NEW x \in DOMAIN d PROVE t[d[x]].line.mentions
    <3>1. CASE x = Len(c) + 1
      BY <3>1, <2>2, <1>1, <1>8
    <3>2. CASE x # Len(c) + 1
      <4>1. x \in DOMAIN c /\ d[x] = c[x] /\ c[x] \in 1 .. l
        BY <3>2, <2>2, <1>2
      <4> QED  BY <4>1, <1>1, <1>3
    <3> QED  BY <3>1, <3>2
  <2>7. ASSUME NEW i \in 1 .. Len(t), t[i].line.mentions PROVE \E x \in DOMAIN d : d[x] = i
    <3>1. CASE i = l + 1
      <4>1. Len(c) + 1 \in DOMAIN d
        BY <2>2
      <4> QED  BY <4>1, <3>1, <2>2
    <3>2. CASE i # l + 1
      <4>1. i \in 1 .. l /\ s[i].line.mentions
        BY <3>2, <2>7, <1>1
      <4>2. PICK x \in DOMAIN c : c[x] = i
        BY <4>1, <1>3
      <4>3. x \in DOMAIN d /\ d[x] = i
        BY <4>2, <2>2, <1>2
      <4> QED  BY <4>3
    <3> QED  BY <3>1, <3>2
  <2>8. ASSUME NEW x \in DOMAIN d, NEW y \in DOMAIN d, x < y PROVE d[x] < d[y]
    <3>1. x \in DOMAIN c /\ d[x] = c[x] /\ c[x] \in 1 .. l
      BY <2>2, <2>8, <1>2
    <3>2. CASE y = Len(c) + 1
      BY <3>1, <3>2, <2>2, <1>1
    <3>3. CASE y # Len(c) + 1
      <4>1. y \in DOMAIN c /\ d[y] = c[y]
        BY <3>3, <2>2, <1>2
      <4> QED  BY <3>1, <4>1, <2>8, <1>3
    <3> QED  BY <3>2, <3>3
  <2>9. \A name \in DOMAIN g \ {"Set-Cookie"} : name \in DOMAIN h \ {"Set-Cookie"} /\ g[name] = h[name]
    BY <2>1
  <2> QED  BY <2>4, <2>5, <2>6, <2>7, <2>8, <2>9, <1>7 DEF HeadersOf, d
<1>9. CASE ~line.mentions
  <2>1. /\ line.name # "Set-Cookie"
        /\ DOMAIN g = DOMAIN h \cup {line.name}
        /\ \A name \in DOMAIN h : g[name] = h[name]
        /\ line.name \notin DOMAIN h => g[line.name] = <<l + 1>>
        /\ Cookies(g) = c
    BY <1>9, OtherMerged
  <2> HIDE DEF l, t, g, c
  <2>2. ASSUME NEW name \in DOMAIN g PROVE g[name] \in Seq(1 .. Len(t)) /\ g[name] # <<>>
    <3>1. CASE name \in DOMAIN h
      BY <3>1, <2>1, <1>1, <1>3, <1>4
    <3>2. CASE name \notin DOMAIN h
      <4>1. g[name] = <<l + 1>>
        BY <3>2, <2>1, <2>2
      <4> QED  BY <4>1, <1>1, <1>6
    <3> QED  BY <3>1, <3>2
  <2>3. ASSUME NEW i \in 1 .. Len(t), ~t[i].line.mentions PROVE t[i].line.name \in DOMAIN g
    <3>1. CASE i = l + 1
      BY <3>1, <2>1, <1>1
    <3>2. CASE i # l + 1
      <4>1. i \in 1 .. l
        BY <3>2, <1>1
      <4> QED  BY <4>1, <2>1, <2>3, <1>1, <1>3
    <3> QED  BY <3>1, <3>2
  <2>4. \A x \in DOMAIN c : t[c[x]].line.mentions
    BY <1>1, <1>2, <1>3
  <2>5. ASSUME NEW i \in 1 .. Len(t), t[i].line.mentions PROVE \E x \in DOMAIN c : c[x] = i
    <3>1. i \in 1 .. l
      BY <2>5, <1>1, <1>9
    <3> QED  BY <3>1, <2>5, <1>1, <1>3
  <2>6. ASSUME NEW name \in DOMAIN g \ {"Set-Cookie"}
        PROVE  LET i == g[name][1]
               IN  /\ t[i].line.name = name /\ ~t[i].line.mentions
                   /\ \A j \in 1 .. i - 1 : t[j].line.name = name => t[j].line.mentions
    <3>1. CASE name \in DOMAIN h
      <4>1. name \in DOMAIN h \ {"Set-Cookie"} /\ g[name] = h[name]
        BY <3>1, <2>1, <2>6
      <4> QED  BY <4>1, <1>7
    <3>2. CASE name \notin DOMAIN h
      <4>1. name = line.name /\ g[name] = <<l + 1>>
        BY <3>2, <2>1, <2>6
      <4>2. g[name][1] = l + 1
        BY <4>1
      <4>3. ASSUME NEW j \in 1 .. l, t[j].line.name = name PROVE t[j].line.mentions
        <5>1. ~s[j].line.mentions => s[j].line.name \in DOMAIN h
          BY <1>3
        <5>2. s[j].line.name = name /\ t[j] = s[j]
          BY <4>3, <1>1
        <5> QED  BY <5>1, <5>2, <3>2
      <4>4. l + 1 - 1 = l
        BY <1>1
      <4> QED  BY <4>1, <4>2, <4>3, <4>4, <1>1, <1>9
    <3> QED  BY <3>1, <3>2
  <2> QED  BY <2>1, <2>2, <2>3, <2>4, <2>5, <2>6, <1>3 DEF HeadersOf
<1> QED  BY <1>8, <1>9

-----------------------------------------------------------------------------
(* What has been received is the headers of the lines so far, and a body   *)
(* only of the final response, behind which no other one follows.          *)
AnswerTypes ==
  /\ lines \in Seq(HeaderLine)
  /\ responses \in Seq({"connect", "interim", "redirect", "final"})
  /\ DOMAIN answer = {"success", "errorMessage", "code", "headers", "content"}

Finished == responses # <<>> /\ Last(responses) = "final"

BodyInv == answer.content = <<>> \/ (Finished /\ answer.content = <<Len(responses)>>)

CodeInv == call = "returned" /\ answer.success => Finished /\ answer.code = Len(responses)

AnswerInv == AnswerTypes /\ HeadersOf(answer.headers, lines) /\ BodyInv /\ CodeInv

LEMMA AnswerSays == AnswerInv => AnswerMerged
<1> SUFFICES ASSUME AnswerInv PROVE AnswerMerged
  OBVIOUS
<1>1. lines \in Seq(HeaderLine) /\ DOMAIN lines = 1 .. Len(lines)
  BY LenProperties DEF AnswerInv, AnswerTypes
<1> DEFINE h == answer.headers
           c == Cookies(h)
<1>2. HeadersOf(h, lines)
  BY DEF AnswerInv
<1> HIDE DEF h
<1>3. DOMAIN c = 1 .. Len(c) /\ \A x \in DOMAIN c : c[x] \in 1 .. Len(lines)
  BY <1>1, <1>2, CookiesAre
<1>4. CookiesKept
  <2>1. {c[x] : x \in DOMAIN c} = {i \in DOMAIN lines : lines[i].line.mentions}
    BY <1>1, <1>2, <1>3 DEF HeadersOf
  <2>2. \A x, y \in DOMAIN c : x < y => c[x] < c[y]
    BY <1>2 DEF HeadersOf
  <2>3. "Set-Cookie" \in DOMAIN h => c # <<>>
    BY <1>2 DEF HeadersOf, Cookies
  <2> QED  BY <2>1, <2>2, <2>3 DEF CookiesKept, Range, Cookies, h
<1>5. OthersOfFirst
  BY <1>2 DEF HeadersOf, OthersOfFirst, h
<1>6. call = "returned" =>
        /\ answer.success => answer.code = Len(responses) /\ Last(responses) = "final"
        /\ \A i \in DOMAIN answer.content : answer.content[i] = Len(responses)
  BY DEF AnswerInv, BodyInv, CodeInv, Finished
<1> QED  BY <1>4, <1>5, <1>6 DEF AnswerMerged

LEMMA AnswerInit == RequestInit => AnswerInv /\ RequestTyped
<1> SUFFICES ASSUME RequestInit PROVE AnswerInv /\ RequestTyped
  OBVIOUS
<1>1. /\ call = "call" /\ lines = <<>> /\ responses = <<>>
      /\ answer = [success |-> FALSE, errorMessage |-> "", code |-> 0,
                   headers |-> NoHeaders, content |-> <<>>]
  BY DEF RequestInit
<1>2. Len(lines) = 0 /\ DOMAIN NoHeaders = {} /\ DOMAIN Cookies(NoHeaders) = {}
  <2>1. Len(lines) = 0
    BY <1>1, EmptySeq
  <2>2. DOMAIN NoHeaders = {}
    BY DEF NoHeaders
  <2>3. Cookies(NoHeaders) = <<>>
    BY <2>2 DEF Cookies
  <2>4. DOMAIN Cookies(NoHeaders) = {}
    BY <2>3
  <2> QED  BY <2>1, <2>2, <2>4
<1>3. HeadersOf(NoHeaders, lines)
  BY <1>2 DEF HeadersOf
<1>4. AnswerTypes
  BY <1>1, EmptySeq DEF AnswerTypes
<1> QED  BY <1>1, <1>3, <1>4 DEF AnswerInv, BodyInv, CodeInv, RequestTyped

LEMMA HeaderKeeps ==
  ASSUME AnswerInv, NEW line \in HeaderLines, ReceiveHeader(line)
  PROVE  AnswerInv'
<1>1. /\ AnswerTypes /\ HeadersOf(answer.headers, lines) /\ lines \in Seq(HeaderLine)
      /\ Len(responses) \in Nat
  BY LenProperties DEF AnswerInv, AnswerTypes
<1>2. /\ lines' = Append(lines, [line |-> line, response |-> Len(responses)])
      /\ answer' = [answer EXCEPT !.headers = Merged(@, line, Len(lines'))]
      /\ call = "perform" /\ UNCHANGED <<call, responses>>
  BY DEF ReceiveHeader
<1>3. lines' \in Seq(HeaderLine) /\ Len(lines') = Len(lines) + 1
  <2>1. [line |-> line, response |-> Len(responses)] \in HeaderLine
    BY <1>1 DEF HeaderLine
  <2> QED  BY <2>1, <1>1, <1>2, AppendProperties
<1>4. /\ DOMAIN answer' = DOMAIN answer
      /\ answer'.headers = Merged(answer.headers, line, Len(lines) + 1)
      /\ answer'.content = answer.content
  BY <1>1, <1>2, <1>3 DEF AnswerTypes
<1>5. HeadersOf(Merged(answer.headers, line, Len(lines) + 1), lines')
  BY <1>1, <1>2, MergedKeeps
<1>6. HeadersOf(answer.headers, lines)'
  BY <1>4, <1>5 DEF HeadersOf, Cookies
<1> QED  BY <1>1, <1>2, <1>3, <1>4, <1>6
         DEF AnswerInv, AnswerTypes, BodyInv, CodeInv, Finished

LEMMA AnswerStep ==
  AnswerInv /\ RequestTyped /\ [RequestNext]_requestVars => AnswerInv' /\ RequestTyped'
<1> SUFFICES ASSUME AnswerInv, RequestTyped, [RequestNext]_requestVars
             PROVE  AnswerInv' /\ RequestTyped'
  OBVIOUS
<1>1. ASSUME UNCHANGED <<responses, lines, answer>>, call' = call \/ call' # "returned"
      PROVE  AnswerInv'
  BY <1>1 DEF AnswerInv, AnswerTypes, BodyInv, CodeInv, Finished, HeadersOf, Cookies
<1>0. ASSUME lines' = lines, answer'.headers = answer.headers, AnswerTypes', BodyInv', CodeInv'
      PROVE  AnswerInv'
  BY <1>0 DEF AnswerInv, HeadersOf, Cookies
<1>2. ASSUME UNCHANGED request, call' = call \/ call' # "perform"
      PROVE  RequestTyped'
  BY <1>2 DEF RequestTyped
<1>3. ASSUME NEW method \in Methods, NEW count, NEW argument, NEW isDataJson,
             Call(method, count, argument, isDataJson)
      PROVE  AnswerInv' /\ RequestTyped'
  BY <1>3, <1>1, CallTyped
<1>4. ASSUME NEW method \in Methods, NEW count \in 0 .. 6, NEW argument \in Data,
             \/ LuaCall(method, count, argument)
             \/ PythonCall(method, count, argument)
             \/ JavaScriptCall(method, count, argument)
      PROVE  AnswerInv' /\ RequestTyped'
  <2>1. CASE /\ call = "call" /\ call' = "raised"
             /\ UNCHANGED <<request, responses, lines, answer>>
    BY <2>1, <1>1, <1>2
  <2> QED  BY <2>1, <1>3, <1>4 DEF LuaCall, PythonCall, JavaScriptCall
<1>5. ASSUME NEW kind \in {"connect", "interim", "redirect", "final"}, Respond(kind)
      PROVE  AnswerInv' /\ RequestTyped'
  <2>1. /\ call = "perform" /\ (responses # <<>> => Last(responses) # "final")
        /\ responses' = Append(responses, kind)
        /\ UNCHANGED <<call, request, lines, answer>>
    BY <1>5 DEF Respond
  <2>2. answer.content = <<>>
    BY <2>1 DEF AnswerInv, BodyInv, Finished
  <2>3. responses' \in Seq({"connect", "interim", "redirect", "final"})
    BY <2>1, AppendProperties DEF AnswerInv, AnswerTypes
  <2>4. AnswerTypes' /\ BodyInv' /\ CodeInv'
    BY <2>1, <2>2, <2>3 DEF AnswerInv, AnswerTypes, BodyInv, CodeInv
  <2> QED  BY <2>1, <2>4, <1>0, <1>2
<1>6. ASSUME NEW line \in HeaderLines, ReceiveHeader(line)
      PROVE  AnswerInv' /\ RequestTyped'
  BY <1>6, <1>2, HeaderKeeps DEF ReceiveHeader
<1>7. CASE ReceiveBody
  <2>1. /\ call = "perform" /\ Finished
        /\ answer' = [answer EXCEPT !.content = <<Len(responses)>>]
        /\ UNCHANGED <<call, request, responses, lines>>
    BY <1>7 DEF ReceiveBody, Finished
  <2>2. /\ DOMAIN answer' = DOMAIN answer /\ answer'.headers = answer.headers
        /\ answer'.content = <<Len(responses)>>
    BY <2>1 DEF AnswerInv, AnswerTypes
  <2>3. AnswerTypes' /\ BodyInv' /\ CodeInv'
    BY <2>1, <2>2 DEF AnswerInv, AnswerTypes, BodyInv, CodeInv, Finished
  <2> QED  BY <2>1, <2>2, <2>3, <1>0, <1>2
<1>8. ASSUME NEW status \in {"ok", "error"}, PerformReturn(status)
      PROVE  AnswerInv' /\ RequestTyped'
  <2>1. /\ call = "perform" /\ (status = "ok" => Finished) /\ call' = "returned"
        /\ UNCHANGED <<request, responses, lines>>
    BY <1>8 DEF PerformReturn, Finished
  <2>2. /\ DOMAIN answer' = DOMAIN answer /\ answer'.headers = answer.headers
        /\ answer'.content = answer.content
        /\ answer'.success = (status = "ok")
        /\ answer'.code = IF responses # <<>> /\ Last(responses) # "connect"
                          THEN Len(responses) ELSE 0
    BY <1>8 DEF PerformReturn, AnswerInv, AnswerTypes
  <2>3. AnswerTypes' /\ BodyInv' /\ CodeInv'
    BY <2>1, <2>2 DEF AnswerInv, AnswerTypes, BodyInv, CodeInv, Finished
  <2> QED  BY <2>1, <2>2, <2>3, <1>0, <1>2
<1>9. CASE UNCHANGED requestVars
  BY <1>9, <1>1, <1>2 DEF requestVars
<1> QED  BY <1>4, <1>5, <1>6, <1>7, <1>8, <1>9 DEF RequestNext

LEMMA AnswerAlways == RequestSpec => [](AnswerInv /\ RequestTyped)
  BY AnswerInit, AnswerStep, PTL DEF RequestSpec

(* A body is announced as what it is, and nothing else is announced, where *)
(* the script gives no type of its own: by the default of lines 18-23 or,  *)
(* where that is misspelt, by libcurl.                                     *)
THEOREM RequestsTyped == RequestSpec => []RequestTyped
  BY AnswerAlways, PTL

(* For answers of any number of responses and header lines: the script     *)
(* gets every cookie in the order of the lines, any other header as the    *)
(* first line that has it (line 84), and code and content of the last one. *)
THEOREM AnswersMerged == RequestSpec => []AnswerMerged
  BY AnswerAlways, AnswerSays, PTL
-----------------------------------------------------------------------------
(* What json.dumps writes.  A value is a sequence of nodes, so that what    *)
(* is said of a node can rest on what is said of those behind it.           *)

LEMMA LeastNumber ==
  ASSUME NEW T, T \subseteq Nat, T # {}
  PROVE  \E m \in T : \A k \in T : m <= k
<1> DEFINE R == OpToRel(<, Nat)
<1>1. \A k, m \in Nat : k < m => <<k, m>> \in R
  BY DEF OpToRel
<1> HIDE DEF R
<1>2. PICK m \in T : \A k \in T : <<k, m>> \notin R
  BY WFMin, NatLessThanWellFounded DEF R
<1>3. \A k \in T : ~(k < m)
  BY <1>1, <1>2
<1>4. \A k \in T : m <= k
  BY <1>3
<1> QED  BY <1>4

(* A set that the number before each of its members but the first belongs  *)
(* to, too.                                                                *)
LEMMA Downward ==
  ASSUME NEW l \in Nat, NEW T, l + 1 \in T,
         \A k \in 1 .. l : k + 1 \in T => k \in T
  PROVE  1 \in T
<1> DEFINE U == {k \in 1 .. l + 1 : k \in T}
<1>1. PICK m \in U : \A k \in U : m <= k
  <2>1. U \subseteq Nat /\ l + 1 \in U
    OBVIOUS
  <2> HIDE DEF U
  <2> QED  BY <2>1, LeastNumber
<1>2. SUFFICES ASSUME m > 1 PROVE FALSE
  BY <1>1
<1>3. m - 1 \in 1 .. l /\ (m - 1) + 1 = m
  BY <1>2
<1>4. m - 1 \in U
  BY <1>3
<1> QED  BY <1>1, <1>4

(* A recursive function exists whose value at a number depends on values   *)
(* at greater numbers only.                                                *)
LooksBehind(F, l, S) ==
  /\ l \in Nat /\ S # {}
  /\ F \in [1 .. l -> [[1 .. l -> S] -> S]]
  /\ \A n \in 1 .. l : \A g, h \in [1 .. l -> S] :
       (\A m \in n + 1 .. l : g[m] = h[m]) => F[n][g] = F[n][h]

HasSolution(F, l, S) == \E f \in [1 .. l -> S] : \A n \in 1 .. l : f[n] = F[n][f]

LEMMA DownwardFunction ==
  ASSUME NEW F, NEW l, NEW S, LooksBehind(F, l, S)
  PROVE  HasSolution(F, l, S)
<1> USE DEF LooksBehind
<1> DEFINE T == {k \in 1 .. l + 1 : \E f \in [1 .. l -> S] : \A n \in k .. l : f[n] = F[n][f]}
<1>1. l + 1 \in T
  <2>1. PICK s \in S : TRUE
    OBVIOUS
  <2>2. [n \in 1 .. l |-> s] \in [1 .. l -> S]
    OBVIOUS
  <2>3. l + 1 \in 1 .. l + 1 /\ \A n \in l + 1 .. l : FALSE
    OBVIOUS
  <2> QED  BY <2>2, <2>3
<1>2. ASSUME NEW k \in 1 .. l, k + 1 \in T PROVE k \in T
  <2>1. PICK f \in [1 .. l -> S] : \A n \in k + 1 .. l : f[n] = F[n][f]
    BY <1>2
  <2> DEFINE g == [f EXCEPT ![k] = F[k][f]]
  <2>2. g \in [1 .. l -> S] /\ g[k] = F[k][f]
    OBVIOUS
  <2>3. \A m \in k + 1 .. l : g[m] = f[m]
    OBVIOUS
  <2> HIDE DEF g
  <2>4. ASSUME NEW n \in k .. l PROVE g[n] = F[n][g]
    <3>1. n \in 1 .. l /\ \A m \in n + 1 .. l : g[m] = f[m]
      BY <2>3
    <3>2. F[n][g] = F[n][f]
      BY <2>2, <3>1
    <3>3. CASE n = k
      BY <2>2, <3>2, <3>3
    <3>4. CASE n \in k + 1 .. l
      BY <2>1, <2>3, <3>2, <3>4
    <3> QED  BY <3>3, <3>4
  <2> QED  BY <2>2, <2>4
<1> HIDE DEF T
<1>3. 1 \in T
  BY <1>1, <1>2, Downward
<1> QED  BY <1>3 DEF T, HasSolution

SameFromBehind(f, g, l) ==
  \A n \in 1 .. l : (\A m \in n + 1 .. l : f[m] = g[m]) => f[n] = g[n]

LEMMA DownwardSame ==
  ASSUME NEW l \in Nat, NEW f, NEW g, SameFromBehind(f, g, l)
  PROVE  \A n \in 1 .. l : f[n] = g[n]
<1> USE DEF SameFromBehind
<1> DEFINE T == {k \in 1 .. l + 1 : \A m \in k .. l : f[m] = g[m]}
<1>1. l + 1 \in T
  OBVIOUS
<1>2. ASSUME NEW k \in 1 .. l, k + 1 \in T PROVE k \in T
  <2>1. \A m \in k + 1 .. l : f[m] = g[m]
    BY <1>2
  <2>2. f[k] = g[k]
    BY <2>1
  <2>3. k \in 1 .. l + 1 /\ \A m \in k .. l : m = k \/ m \in k + 1 .. l
    OBVIOUS
  <2>4. \A m \in k .. l : f[m] = g[m]
    BY <2>1, <2>2, <2>3
  <2> QED  BY <2>3, <2>4
<1> HIDE DEF T
<1>3. 1 \in T
  BY <1>1, <1>2, Downward
<1> QED  BY <1>3 DEF T

(* Texts one behind the other, from the last on. *)
RestJoined(parts, rest, i) == IF i > Len(parts) THEN <<>> ELSE parts[i] \o rest[i + 1]

Rests(parts) == CHOOSE rest : rest = [i \in 1 .. Len(parts) + 1 |-> RestJoined(parts, rest, i)]

LEMMA JoinedIsRest == \A parts : Joined(parts) = Rests(parts)[1]
  BY DEF Joined, Rests, RestJoined

LEMMA RestsAre ==
  ASSUME NEW S, NEW parts \in Seq(Seq(S))
  PROVE  /\ Rests(parts) \in [1 .. Len(parts) + 1 -> Seq(S)]
         /\ Rests(parts)[Len(parts) + 1] = <<>>
         /\ \A i \in 1 .. Len(parts) : Rests(parts)[i] = parts[i] \o Rests(parts)[i + 1]
<1>1. Len(parts) \in Nat /\ \A i \in 1 .. Len(parts) : parts[i] \in Seq(S)
  BY LenProperties, ElementOfSeq
<1>2. PICK l \in Nat : l = Len(parts) + 1
  BY <1>1
<1>3. <<>> \in Seq(S)
  BY EmptySeq
<1>4. ASSUME NEW i \in 1 .. l, NEW rest \in [1 .. l -> Seq(S)]
      PROVE  RestJoined(parts, rest, i) \in Seq(S)
  <2>1. CASE i > Len(parts)
    BY <1>3, <2>1 DEF RestJoined
  <2>2. CASE ~(i > Len(parts))
    <3>1. i \in 1 .. Len(parts) /\ i + 1 \in 1 .. l
      BY <1>1, <1>2, <2>2
    <3>2. parts[i] \in Seq(S) /\ rest[i + 1] \in Seq(S)
      BY <1>1, <3>1
    <3>3. parts[i] \o rest[i + 1] \in Seq(S)
      BY <3>2, ConcatProperties
    <3> QED  BY <2>2, <3>3 DEF RestJoined
  <2> QED  BY <2>1, <2>2
<1>5. ASSUME NEW i \in 1 .. l, NEW g, NEW h, \A m \in i + 1 .. l : g[m] = h[m]
      PROVE  RestJoined(parts, g, i) = RestJoined(parts, h, i)
  <2>1. i > Len(parts) \/ i + 1 \in i + 1 .. l
    BY <1>1, <1>2
  <2> QED  BY <1>5, <2>1 DEF RestJoined
<1>6. PICK F : F = [i \in 1 .. l |-> [rest \in [1 .. l -> Seq(S)] |-> RestJoined(parts, rest, i)]]
  OBVIOUS
<1>7. PICK rest \in [1 .. l -> Seq(S)] : \A i \in 1 .. l : rest[i] = F[i][rest]
  <2>1. F \in [1 .. l -> [[1 .. l -> Seq(S)] -> Seq(S)]]
    BY <1>4, <1>6
  <2>2. \A i \in 1 .. l : \A g, h \in [1 .. l -> Seq(S)] :
          (\A m \in i + 1 .. l : g[m] = h[m]) => F[i][g] = F[i][h]
    <3> SUFFICES ASSUME NEW i \in 1 .. l, NEW g \in [1 .. l -> Seq(S)], NEW h \in [1 .. l -> Seq(S)],
                        \A m \in i + 1 .. l : g[m] = h[m]
                 PROVE  F[i][g] = F[i][h]
      OBVIOUS
    <3>1. F[i][g] = RestJoined(parts, g, i) /\ F[i][h] = RestJoined(parts, h, i)
      BY <1>6
    <3>2. RestJoined(parts, g, i) = RestJoined(parts, h, i)
      BY <1>5
    <3> QED  BY <3>1, <3>2
  <2>3. Seq(S) # {}
    BY <1>3
  <2>4. LooksBehind(F, l, Seq(S))
    BY <2>1, <2>2, <2>3 DEF LooksBehind
  <2>5. HasSolution(F, l, Seq(S))
    BY <2>4, DownwardFunction
  <2> QED  BY <2>5 DEF HasSolution
<1>8. rest = [i \in 1 .. l |-> RestJoined(parts, rest, i)]
  BY <1>6, <1>7
<1>9. Rests(parts) = [i \in 1 .. l |-> RestJoined(parts, Rests(parts), i)]
  BY <1>2, <1>8 DEF Rests
<1>10. ASSUME NEW i \in 1 .. l, \A m \in i + 1 .. l : Rests(parts)[m] = rest[m]
       PROVE  Rests(parts)[i] = rest[i]
  <2>1. RestJoined(parts, Rests(parts), i) = RestJoined(parts, rest, i)
    BY <1>5, <1>10
  <2>2. Rests(parts)[i] = RestJoined(parts, Rests(parts), i)
    BY <1>9
  <2>3. rest[i] = RestJoined(parts, rest, i)
    BY <1>8
  <2> QED  BY <2>1, <2>2, <2>3
<1>11. \A i \in 1 .. l : Rests(parts)[i] = rest[i]
  <2>1. SameFromBehind(Rests(parts), rest, l)
    BY <1>10 DEF SameFromBehind
  <2> QED  BY <2>1, DownwardSame
<1>12. Rests(parts) = rest
  BY <1>8, <1>9, <1>11
<1>13. l \in 1 .. l /\ l > Len(parts) /\ \A i \in 1 .. Len(parts) : i \in 1 .. l /\ ~(i > Len(parts))
  BY <1>1, <1>2
<1>14. rest[l] = <<>> /\ \A i \in 1 .. Len(parts) : rest[i] = parts[i] \o rest[i + 1]
  <2>1. \A i \in 1 .. l : rest[i] = RestJoined(parts, rest, i)
    BY <1>8
  <2> QED  BY <1>13, <2>1 DEF RestJoined
<1> QED  BY <1>2, <1>12, <1>14

(* The tokens, and texts made of them. *)
Tokens == Words \cup Keys

LEMMA FunctionIsSeq ==
  ASSUME NEW S, NEW k \in Nat, NEW f \in [1 .. k -> S]
  PROVE  f \in Seq(S) /\ Len(f) = k /\ DOMAIN f = 1 .. k
<1>1. f \in Seq(S)
  <2>1. Seq(S) = UNION {[1 .. n -> S] : n \in Nat}
    BY SeqDef
  <2>2. [1 .. k -> S] \in {[1 .. n -> S] : n \in Nat}
    OBVIOUS
  <2> QED  BY <2>1, <2>2
<1>2. DOMAIN f = 1 .. k /\ DOMAIN f = 1 .. Len(f) /\ Len(f) \in Nat
  BY <1>1, LenProperties
<1>3. Len(f) = k
  <2>1. CASE k < Len(f)
    BY <1>2, <2>1
  <2>2. CASE Len(f) < k
    BY <1>2, <2>2
  <2> QED  BY <1>2, <2>1, <2>2
<1> QED  BY <1>1, <1>2, <1>3

LEMMA JoinedTyped ==
  ASSUME NEW k \in Nat, NEW parts \in [1 .. k -> Seq(Tokens)]
  PROVE  Joined(parts) \in Seq(Tokens)
<1>1. parts \in Seq(Seq(Tokens)) /\ Len(parts) = k
  BY FunctionIsSeq
<1>2. Rests(parts) \in [1 .. k + 1 -> Seq(Tokens)]
  BY <1>1, RestsAre
<1>3. 1 \in 1 .. k + 1
  OBVIOUS
<1> QED  BY <1>2, <1>3, JoinedIsRest

LEMMA ConcatTyped ==
  ASSUME NEW s \in Seq(Tokens), NEW t \in Seq(Tokens)
  PROVE  s \o t \in Seq(Tokens)
  BY ConcatProperties

(* What is written between the values. *)
LEMMA SmallTexts ==
  /\ <<>> \in Seq(Tokens)
  /\ \A t \in Tokens : << t >> \in Seq(Tokens) /\ Quote(t) \in Seq(Tokens)
  /\ \A i : Separator(i) \in Seq(Tokens)
  /\ \A key \in Keys : /\ LuaKey(key) \in Seq(Tokens)
                       /\ AfterLuaKey(key) \in Seq(Tokens)
                       /\ DictKey(key) \in Seq(Tokens)
                       /\ Quote(key) \o <<":">> \in Seq(Tokens)
<1>1. <<>> \in Seq(Tokens)
  BY EmptySeq
<1>2. ASSUME NEW t \in Tokens PROVE << t >> \in Seq(Tokens) /\ Quote(t) \in Seq(Tokens)
  <2>1. "'" \in Tokens
    BY DEF Tokens, Words
  <2> QED  BY <2>1 DEF Quote
<1>3. << "," >> \in Seq(Tokens) /\ << ":" >> \in Seq(Tokens) /\ << "raise" >> \in Seq(Tokens)
  BY <1>2 DEF Tokens, Words
<1>4. <<"'", "fail">> \in Seq(Tokens)
  <2>1. "'" \in Tokens /\ "fail" \in Tokens
    BY DEF Tokens, Words
  <2> QED  BY <2>1
<1>5. ASSUME NEW i PROVE Separator(i) \in Seq(Tokens)
  BY <1>1, <1>3 DEF Separator
<1>6. ASSUME NEW key \in Keys
      PROVE  /\ LuaKey(key) \in Seq(Tokens)
             /\ AfterLuaKey(key) \in Seq(Tokens)
             /\ DictKey(key) \in Seq(Tokens)
             /\ Quote(key) \o <<":">> \in Seq(Tokens)
  <2>1. Quote(key) \in Seq(Tokens)
    BY <1>2 DEF Tokens
  <2>2. Quote(key) \o <<":">> \in Seq(Tokens)
    BY <2>1, <1>3, ConcatTyped
  <2>3. LuaKey(key) \in Seq(Tokens)
    BY <2>2, <1>4 DEF LuaKey
  <2>4. AfterLuaKey(key) \in Seq(Tokens) /\ DictKey(key) \in Seq(Tokens)
    BY <2>2, <1>1, <1>3 DEF AfterLuaKey, DictKey
  <2> QED  BY <2>2, <2>3, <2>4
<1> QED  BY <1>1, <1>2, <1>5, <1>6

LEMMA FailingCuts ==
  ASSUME NEW s \in Seq(Tokens)
  PROVE  /\ Failing(s) \in Seq(Tokens)
         /\ ToSet(Failing(s)) \subseteq ToSet(s)
         /\ "raise" \in ToSet(s) \/ "fail" \notin ToSet(s) => Failing(s) = s
<1>1. CASE "raise" \in ToSet(s) \/ "fail" \notin ToSet(s)
  BY <1>1 DEF Failing
<1>2. CASE "fail" \in ToSet(s) /\ "raise" \notin ToSet(s)
  <2> DEFINE I == {i \in 1 .. Len(s) : s[i] = "fail"}
  <2>1. Len(s) \in Nat /\ DOMAIN s = 1 .. Len(s) /\ \A i \in 1 .. Len(s) : s[i] \in Tokens
    BY LenProperties, ElementOfSeq
  <2>2. I \subseteq Nat /\ I # {}
    BY <1>2, <2>1 DEF ToSet
  <2>3. PICK p \in I : \A q \in I : p <= q
    <3> HIDE DEF I
    <3> QED  BY <2>2, LeastNumber
  <2>4. Min(I) \in I
    <3> HIDE DEF I
    <3> QED  BY <2>3 DEF Min
  <2>5. PICK m \in 1 .. Len(s) : m = Min(I)
    BY <2>4
  <2>6. Failing(s) = SubSeq(s, 1, m - 1)
    <3>1. Failing(s) = SubSeq(s, 1, (IF I # {} THEN Min(I) ELSE 0) - 1)
      BY <1>2 DEF Failing, SelectInSeq
    <3> HIDE DEF I
    <3> QED  BY <3>1, <2>2, <2>5
  <2>7. 1 \in Int /\ m - 1 \in Int /\ \A i \in 1 .. m - 1 : i \in 1 .. Len(s)
    BY <2>1
  <2>8. \A i \in 1 .. m - 1 : s[i] \in Tokens /\ s[i] \in ToSet(s)
    BY <2>1, <2>7 DEF ToSet
  <2>9. SubSeq(s, 1, m - 1) \in Seq(Tokens)
    BY <2>7, <2>8, SubSeqProperties
  <2>10. SubSeq(s, 1, m - 1) \in Seq(ToSet(s))
    BY <2>7, <2>8, SubSeqProperties
  <2>11. ToSet(SubSeq(s, 1, m - 1)) \subseteq ToSet(s)
    BY <2>10, ElementOfSeq, LenProperties DEF ToSet
  <2> QED  BY <1>2, <2>6, <2>9, <2>11
<1> QED  BY <1>1, <1>2

(* A value: what the parts of its nodes are. *)
LEMMA ValueFacts ==
  ASSUME NEW kinds, NEW value, IsValue(value, kinds)
  PROVE  /\ Len(value) \in Nat \ {0} /\ DOMAIN value = 1 .. Len(value)
         /\ \A n \in 1 .. Len(value) :
              /\ value[n].kind \in kinds /\ value[n].counted \in BOOLEAN
              /\ Len(value[n].members) \in Nat
              /\ DOMAIN value[n].members = 1 .. Len(value[n].members)
              /\ \A i \in 1 .. Len(value[n].members) :
                   /\ value[n].members[i].key \in Keys
                   /\ value[n].members[i].id \in n + 1 .. Len(value)
<1>1. value \in Seq(Nodes(kinds)) /\ value # <<>>
  BY DEF IsValue
<1>2. Len(value) \in Nat \ {0} /\ DOMAIN value = 1 .. Len(value)
  BY <1>1, LenProperties, EmptySeq
<1>3. ASSUME NEW n \in 1 .. Len(value)
      PROVE  /\ value[n].kind \in kinds /\ value[n].counted \in BOOLEAN
             /\ Len(value[n].members) \in Nat
             /\ DOMAIN value[n].members = 1 .. Len(value[n].members)
             /\ \A i \in 1 .. Len(value[n].members) :
                  /\ value[n].members[i].key \in Keys
                  /\ value[n].members[i].id \in n + 1 .. Len(value)
  <2>1. value[n] \in Nodes(kinds)
    BY <1>1, ElementOfSeq
  <2>2. /\ value[n].kind \in kinds /\ value[n].counted \in BOOLEAN
        /\ value[n].members \in Seq([key : Keys, id : Nat])
    BY <2>1 DEF Nodes
  <2>3. /\ Len(value[n].members) \in Nat
        /\ DOMAIN value[n].members = 1 .. Len(value[n].members)
    BY <2>2, LenProperties
  <2>4. ASSUME NEW i \in 1 .. Len(value[n].members)
        PROVE  /\ value[n].members[i].key \in Keys
               /\ value[n].members[i].id \in n + 1 .. Len(value)
    <3>1. value[n].members[i] \in [key : Keys, id : Nat]
      BY <2>2, ElementOfSeq
    <3>2. value[n].members[i].id \in n + 1 .. Len(value)
      BY <1>2, <2>3 DEF IsValue
    <3> QED  BY <3>1, <3>2
  <2> QED  BY <2>2, <2>3, <2>4
<1> QED  BY <1>2, <1>3

(* The parts of the text of a node. *)
LuaPart(table, text, i) ==
  LET m == table.members[i] IN
  IF table.counted THEN Separator(i) \o text[m.id]
  ELSE Separator(i) \o LuaKey(m.key) \o text[m.id] \o AfterLuaKey(m.key)

LuaParts(table, text) == [i \in DOMAIN table.members |-> LuaPart(table, text, i)]

LuaTable(table, text) ==
  LET all == Joined(LuaParts(table, text)) IN
  IF table.counted THEN <<"[">> \o all \o <<"]">> ELSE <<"{">> \o all \o <<"}">>

DictPart(value, node, text, i) ==
  LET m == node.members[i] IN
  Separator(i) \o DictKey(m.key) \o DictValue(value[m.id], text[m.id])

DictParts(value, node, text) == [i \in DOMAIN node.members |-> DictPart(value, node, text, i)]

ListPart(node, text, i) == ListSeparator(i) \o text[node.members[i].id]

ListParts(node, text) == [i \in DOMAIN node.members |-> ListPart(node, text, i)]

JsonPart(node, json, i) ==
  LET m == node.members[i] IN
  IF IsArray(node) THEN Separator(i) \o json[m.id]
  ELSE Separator(i) \o Quote(m.key) \o <<":">> \o json[m.id]

JsonParts(node, json) == [i \in DOMAIN node.members |-> JsonPart(node, json, i)]

JsonNode(node, json) ==
  LET all == Joined(JsonParts(node, json)) IN
  IF IsArray(node) THEN <<"[">> \o all \o <<"]">> ELSE <<"{">> \o all \o <<"}">>

LEMMA NodeTexts ==
  /\ \A table, text : luaTableToJson(table, text) = Failing(LuaTable(table, text))
  /\ \A value, node, text :
       pythonDictToJson(value, node, text) = <<"{">> \o Joined(DictParts(value, node, text)) \o <<"}">>
  /\ \A node, text : pythonListToJson(node, text) = <<"[">> \o Joined(ListParts(node, text)) \o <<"]">>
  /\ \A node, json :
       node.kind \notin {"opaque", "bytes", "special", "text", "number", "double", "unfit", "boolean"} =>
         JsonOf(node, json) = JsonNode(node, json)
<1>1. \A table, text : luaTableToJson(table, text) = Failing(LuaTable(table, text))
  BY DEF luaTableToJson, LuaTable, LuaParts, LuaPart
<1>2. \A value, node, text :
        pythonDictToJson(value, node, text) = <<"{">> \o Joined(DictParts(value, node, text)) \o <<"}">>
  BY DEF pythonDictToJson, DictParts, DictPart
<1>3. \A node, text : pythonListToJson(node, text) = <<"[">> \o Joined(ListParts(node, text)) \o <<"]">>
  BY DEF pythonListToJson, ListParts, ListPart
<1>4. \A node, json :
       node.kind \notin {"opaque", "bytes", "special", "text", "number", "double", "unfit", "boolean"} =>
         JsonOf(node, json) = JsonNode(node, json)
  BY DEF JsonOf, JsonNode, JsonParts, JsonPart
<1> QED  BY <1>1, <1>2, <1>3, <1>4

(* One node of a value, and the texts of the nodes behind it. *)
Behind(value, n, text) == \A m \in n + 1 .. Len(value) : text[m] \in Seq(Tokens)

LEMMA PartsTyped ==
  ASSUME NEW kinds, NEW value, IsValue(value, kinds), NEW n \in 1 .. Len(value),
         NEW text, Behind(value, n, text)
  PROVE  /\ LuaParts(value[n], text) \in [1 .. Len(value[n].members) -> Seq(Tokens)]
         /\ DictParts(value, value[n], text) \in [1 .. Len(value[n].members) -> Seq(Tokens)]
         /\ ListParts(value[n], text) \in [1 .. Len(value[n].members) -> Seq(Tokens)]
         /\ JsonParts(value[n], text) \in [1 .. Len(value[n].members) -> Seq(Tokens)]
<1>1. DOMAIN value[n].members = 1 .. Len(value[n].members)
  BY ValueFacts
<1>2. ASSUME NEW i \in 1 .. Len(value[n].members)
      PROVE  /\ LuaPart(value[n], text, i) \in Seq(Tokens)
             /\ DictPart(value, value[n], text, i) \in Seq(Tokens)
             /\ ListPart(value[n], text, i) \in Seq(Tokens)
             /\ JsonPart(value[n], text, i) \in Seq(Tokens)
  <2>1. PICK key \in Keys : key = value[n].members[i].key
    BY ValueFacts
  <2>2. PICK t \in Seq(Tokens) : t = text[value[n].members[i].id]
    BY ValueFacts DEF Behind
  <2>3. Separator(i) \in Seq(Tokens) /\ LuaKey(key) \in Seq(Tokens) /\ AfterLuaKey(key) \in Seq(Tokens)
    BY SmallTexts
  <2>4. /\ DictKey(key) \in Seq(Tokens) /\ Quote(key) \in Seq(Tokens)
        /\ <<":">> \in Seq(Tokens) /\ <<>> \in Seq(Tokens)
    BY SmallTexts DEF Tokens, Words
  <2>5. DictValue(value[value[n].members[i].id], t) \in Seq(Tokens)
    BY SmallTexts DEF DictValue, Tokens, Words
  <2>6. /\ Separator(i) \o t \in Seq(Tokens)
        /\ Separator(i) \o LuaKey(key) \o t \o AfterLuaKey(key) \in Seq(Tokens)
    BY <2>3, ConcatTyped
  <2>7. Separator(i) \o DictKey(key) \o DictValue(value[value[n].members[i].id], t) \in Seq(Tokens)
    BY <2>3, <2>4, <2>5, ConcatTyped
  <2>8. <<>> \o t \in Seq(Tokens)
    BY <2>4, ConcatTyped
  <2>9. Separator(i) \o Quote(key) \o <<":">> \o t \in Seq(Tokens)
    BY <2>3, <2>4, ConcatTyped
  <2>10. LuaPart(value[n], text, i) \in Seq(Tokens)
    BY <2>1, <2>2, <2>6 DEF LuaPart
  <2>11. DictPart(value, value[n], text, i) \in Seq(Tokens)
    BY <2>1, <2>2, <2>7 DEF DictPart
  <2>12. ListPart(value[n], text, i) \in Seq(Tokens)
    BY <2>2, <2>8 DEF ListPart, ListSeparator
  <2>13. JsonPart(value[n], text, i) \in Seq(Tokens)
    BY <2>1, <2>2, <2>6, <2>9 DEF JsonPart
  <2> QED  BY <2>10, <2>11, <2>12, <2>13
<1> QED  BY <1>1, <1>2 DEF LuaParts, DictParts, ListParts, JsonParts

LEMMA NodeTyped ==
  ASSUME NEW kinds, NEW value, IsValue(value, kinds), NEW n \in 1 .. Len(value),
         NEW text, Behind(value, n, text)
  PROVE  /\ LuaTable(value[n], text) \in Seq(Tokens)
         /\ luaTableToJson(value[n], text) \in Seq(Tokens)
         /\ pythonDictToJson(value, value[n], text) \in Seq(Tokens)
         /\ pythonListToJson(value[n], text) \in Seq(Tokens)
         /\ JsonNode(value[n], text) \in Seq(Tokens)
<1>1. Len(value[n].members) \in Nat
  BY ValueFacts
<1>2. /\ Joined(LuaParts(value[n], text)) \in Seq(Tokens)
      /\ Joined(DictParts(value, value[n], text)) \in Seq(Tokens)
      /\ Joined(ListParts(value[n], text)) \in Seq(Tokens)
      /\ Joined(JsonParts(value[n], text)) \in Seq(Tokens)
  BY <1>1, PartsTyped, JoinedTyped
<1>3. ASSUME NEW all \in Seq(Tokens)
      PROVE  <<"[">> \o all \o <<"]">> \in Seq(Tokens) /\ <<"{">> \o all \o <<"}">> \in Seq(Tokens)
  <2>1. /\ <<"[">> \in Seq(Tokens) /\ <<"]">> \in Seq(Tokens)
        /\ <<"{">> \in Seq(Tokens) /\ <<"}">> \in Seq(Tokens)
    BY SmallTexts DEF Tokens, Words
  <2> QED  BY <2>1, ConcatTyped
<1>4. LuaTable(value[n], text) \in Seq(Tokens) /\ JsonNode(value[n], text) \in Seq(Tokens)
  BY <1>2, <1>3 DEF LuaTable, JsonNode
<1>5. luaTableToJson(value[n], text) \in Seq(Tokens)
  BY <1>4, NodeTexts, FailingCuts
<1>6. /\ pythonDictToJson(value, value[n], text) \in Seq(Tokens)
      /\ pythonListToJson(value[n], text) \in Seq(Tokens)
  BY <1>2, <1>3, NodeTexts
<1> QED  BY <1>4, <1>5, <1>6

(* The three ways to write a node. *)
NodeText(mode, value, n, text) ==
  CASE mode = "lua" -> LuaValue(value[n], text)
    [] mode = "python" -> PythonValue(value, value[n], text)
    [] OTHER -> JsonOf(value[n], text)

LEMMA NodeTextTyped ==
  ASSUME NEW kinds, NEW value, IsValue(value, kinds), NEW n \in 1 .. Len(value),
         NEW text, Behind(value, n, text), NEW mode
  PROVE  NodeText(mode, value, n, text) \in Seq(Tokens)
<1>1. /\ <<>> \in Seq(Tokens)
      /\ \A t \in Words : << t >> \in Seq(Tokens) /\ Quote(t) \in Seq(Tokens)
  BY SmallTexts DEF Tokens
<1>2. LuaValue(value[n], text) \in Seq(Tokens)
  <2>1. luaTableToJson(value[n], text) \in Seq(Tokens)
    BY NodeTyped
  <2>2. {"number", "rounded", "boolean", "text", "special"} \subseteq Words
    BY DEF Words
  <2> QED  BY <1>1, <2>1, <2>2 DEF LuaValue
<1>3. PythonValue(value, value[n], text) \in Seq(Tokens)
  <2>1. /\ pythonDictToJson(value, value[n], text) \in Seq(Tokens)
        /\ pythonListToJson(value[n], text) \in Seq(Tokens)
    BY NodeTyped
  <2>2. {"number", "rounded", "text", "special", "bytes", "raise"} \subseteq Words
    BY DEF Words
  <2>3. CASE value[n].kind \in {"text", "special"}
    BY <1>1, <2>2, <2>3 DEF PythonValue
  <2>4. CASE value[n].kind \notin {"text", "special"}
    BY <1>1, <2>1, <2>2, <2>4 DEF PythonValue
  <2> QED  BY <2>3, <2>4
<1>4. JsonOf(value[n], text) \in Seq(Tokens)
  <2>1. CASE value[n].kind \notin {"opaque", "bytes", "special", "text", "number", "double", "unfit", "boolean"}
    <3>1. JsonOf(value[n], text) = JsonNode(value[n], text)
      BY <2>1, NodeTexts
    <3>2. JsonNode(value[n], text) \in Seq(Tokens)
      BY NodeTyped
    <3> QED  BY <3>1, <3>2
  <2>2. CASE value[n].kind \in {"opaque", "bytes", "special", "text", "number", "double", "unfit", "boolean"}
    <3>1. {"null", "escaped", "text", "number", "double", "unfit", "boolean"} \subseteq Words
      BY DEF Words
    <3>2. CASE value[n].kind \in {"opaque", "bytes", "special"}
      BY <1>1, <3>1, <3>2 DEF JsonOf
    <3>3. CASE value[n].kind \in {"text", "number"}
      BY <1>1, <3>1, <3>3 DEF JsonOf
    <3>4. CASE value[n].kind \in {"double", "unfit", "boolean"}
      BY <1>1, <3>1, <3>4 DEF JsonOf
    <3> QED  BY <2>2, <3>2, <3>3, <3>4
  <2> QED  BY <2>1, <2>2
<1> QED  BY <1>2, <1>3, <1>4 DEF NodeText

AgreeBehind(value, n, g, h) == \A m \in n + 1 .. Len(value) : g[m] = h[m]

LEMMA NodeTextSame ==
  ASSUME NEW kinds, NEW value, IsValue(value, kinds), NEW n \in 1 .. Len(value),
         NEW g, NEW h, AgreeBehind(value, n, g, h), NEW mode
  PROVE  NodeText(mode, value, n, g) = NodeText(mode, value, n, h)
<1>1. DOMAIN value[n].members = 1 .. Len(value[n].members)
  BY ValueFacts
<1>2. \A i \in 1 .. Len(value[n].members) : g[value[n].members[i].id] = h[value[n].members[i].id]
  BY ValueFacts DEF AgreeBehind
<1>3. /\ \A i \in 1 .. Len(value[n].members) : LuaPart(value[n], g, i) = LuaPart(value[n], h, i)
      /\ \A i \in 1 .. Len(value[n].members) : DictPart(value, value[n], g, i) = DictPart(value, value[n], h, i)
      /\ \A i \in 1 .. Len(value[n].members) : ListPart(value[n], g, i) = ListPart(value[n], h, i)
      /\ \A i \in 1 .. Len(value[n].members) : JsonPart(value[n], g, i) = JsonPart(value[n], h, i)
  BY <1>2 DEF LuaPart, DictPart, ListPart, JsonPart
<1>4. /\ LuaParts(value[n], g) = LuaParts(value[n], h)
      /\ DictParts(value, value[n], g) = DictParts(value, value[n], h)
      /\ ListParts(value[n], g) = ListParts(value[n], h)
      /\ JsonParts(value[n], g) = JsonParts(value[n], h)
  BY <1>1, <1>3 DEF LuaParts, DictParts, ListParts, JsonParts
<1>5. luaTableToJson(value[n], g) = luaTableToJson(value[n], h)
  BY <1>4, NodeTexts DEF LuaTable
<1>6. /\ pythonDictToJson(value, value[n], g) = pythonDictToJson(value, value[n], h)
      /\ pythonListToJson(value[n], g) = pythonListToJson(value[n], h)
  BY <1>4, NodeTexts
<1>7. JsonNode(value[n], g) = JsonNode(value[n], h)
  BY <1>4 DEF JsonNode
<1>8. LuaValue(value[n], g) = LuaValue(value[n], h)
  BY <1>5 DEF LuaValue
<1>9. PythonValue(value, value[n], g) = PythonValue(value, value[n], h)
  BY <1>6 DEF PythonValue
<1>10. JsonOf(value[n], g) = JsonOf(value[n], h)
  <2>1. CASE value[n].kind \notin {"opaque", "bytes", "special", "text", "number", "double", "unfit", "boolean"}
    BY <2>1, <1>7, NodeTexts
  <2>2. CASE value[n].kind \in {"opaque", "bytes", "special", "text", "number", "double", "unfit", "boolean"}
    BY <2>2 DEF JsonOf
  <2> QED  BY <2>1, <2>2
<1> QED  BY <1>8, <1>9, <1>10 DEF NodeText

(* The texts of all nodes of a value: the recursion of the three writers.  *)
HasTexts(mode, value) ==
  \E f : /\ f \in [1 .. Len(value) -> Seq(Tokens)]
         /\ f = [n \in DOMAIN value |-> NodeText(mode, value, n, f)]

LEMMA TextsExist ==
  ASSUME NEW kinds, NEW value, IsValue(value, kinds), NEW mode
  PROVE  HasTexts(mode, value)
<1>1. PICK l \in Nat : l = Len(value) /\ DOMAIN value = 1 .. l
  BY ValueFacts
<1>2. PICK F : F = [n \in 1 .. l |-> [f \in [1 .. l -> Seq(Tokens)] |-> NodeText(mode, value, n, f)]]
  OBVIOUS
<1>3. ASSUME NEW n \in 1 .. l, NEW f \in [1 .. l -> Seq(Tokens)]
      PROVE  NodeText(mode, value, n, f) \in Seq(Tokens)
  <2>1. Behind(value, n, f)
    BY <1>1 DEF Behind
  <2> QED  BY <1>1, <2>1, NodeTextTyped
<1>4. F \in [1 .. l -> [[1 .. l -> Seq(Tokens)] -> Seq(Tokens)]]
  BY <1>2, <1>3
<1>5. ASSUME NEW n \in 1 .. l, NEW g \in [1 .. l -> Seq(Tokens)], NEW h \in [1 .. l -> Seq(Tokens)],
             \A m \in n + 1 .. l : g[m] = h[m]
      PROVE  F[n][g] = F[n][h]
  <2>1. n \in 1 .. Len(value) /\ AgreeBehind(value, n, g, h)
    BY <1>1, <1>5 DEF AgreeBehind
  <2>2. NodeText(mode, value, n, g) = NodeText(mode, value, n, h)
    BY <2>1, NodeTextSame
  <2> QED  BY <1>2, <2>2
<1>6. LooksBehind(F, l, Seq(Tokens))
  <2>1. Seq(Tokens) # {}
    BY SmallTexts
  <2> QED  BY <1>4, <1>5, <2>1 DEF LooksBehind
<1>7. PICK f \in [1 .. l -> Seq(Tokens)] : \A n \in 1 .. l : f[n] = F[n][f]
  <2>1. HasSolution(F, l, Seq(Tokens))
    BY <1>6, DownwardFunction
  <2> QED  BY <2>1 DEF HasSolution
<1>8. f = [n \in DOMAIN value |-> NodeText(mode, value, n, f)]
  BY <1>1, <1>2, <1>7
<1> QED  BY <1>1, <1>8 DEF HasTexts

LEMMA TextsTyped ==
  ASSUME NEW kinds, NEW value, IsValue(value, kinds), NEW mode, NEW text,
         text = [n \in DOMAIN value |-> NodeText(mode, value, n, text)]
  PROVE  \A n \in 1 .. Len(value) :
           text[n] \in Seq(Tokens) /\ text[n] = NodeText(mode, value, n, text)
<1>1. PICK l \in Nat : l = Len(value) /\ DOMAIN value = 1 .. l
  BY ValueFacts
<1>2. PICK f : /\ f \in [1 .. Len(value) -> Seq(Tokens)]
              /\ f = [n \in DOMAIN value |-> NodeText(mode, value, n, f)]
  <2>1. HasTexts(mode, value)
    BY TextsExist
  <2> QED  BY <2>1 DEF HasTexts
<1>3. \A n \in 1 .. l : text[n] = NodeText(mode, value, n, text)
  BY <1>1
<1>4. \A n \in 1 .. l : f[n] = NodeText(mode, value, n, f)
  BY <1>1, <1>2
<1>5. ASSUME NEW n \in 1 .. l, \A m \in n + 1 .. l : text[m] = f[m]
      PROVE  text[n] = f[n]
  <2>1. n \in 1 .. Len(value) /\ AgreeBehind(value, n, text, f)
    BY <1>1, <1>5 DEF AgreeBehind
  <2>2. NodeText(mode, value, n, text) = NodeText(mode, value, n, f)
    BY <2>1, NodeTextSame
  <2> QED  BY <1>3, <1>4, <2>2
<1>6. SameFromBehind(text, f, l)
  BY <1>5 DEF SameFromBehind
<1>7. \A n \in 1 .. l : text[n] = f[n]
  BY <1>6, DownwardSame
<1> QED  BY <1>1, <1>2, <1>3, <1>7

LEMMA TextsAre ==
  ASSUME NEW kinds, NEW value, IsValue(value, kinds)
  PROVE  \A n \in 1 .. Len(value) :
           /\ LuaText(value)[n] \in Seq(Tokens)
           /\ LuaText(value)[n] = LuaValue(value[n], LuaText(value))
           /\ PythonText(value)[n] \in Seq(Tokens)
           /\ PythonText(value)[n] = PythonValue(value, value[n], PythonText(value))
           /\ Json(value)[n] \in Seq(Tokens)
           /\ Json(value)[n] = JsonOf(value[n], Json(value))
<1>1. LuaText(value) = [n \in DOMAIN value |-> NodeText("lua", value, n, LuaText(value))]
  <2>1. PICK f : f = [n \in DOMAIN value |-> NodeText("lua", value, n, f)]
    BY TextsExist DEF HasTexts
  <2>2. f = [n \in DOMAIN value |-> LuaValue(value[n], f)]
    BY <2>1 DEF NodeText
  <2>3. LuaText(value) = [n \in DOMAIN value |-> LuaValue(value[n], LuaText(value))]
    BY <2>2 DEF LuaText
  <2> QED  BY <2>3 DEF NodeText
<1>2. PythonText(value) = [n \in DOMAIN value |-> NodeText("python", value, n, PythonText(value))]
  <2>1. PICK f : f = [n \in DOMAIN value |-> NodeText("python", value, n, f)]
    BY TextsExist DEF HasTexts
  <2>2. f = [n \in DOMAIN value |-> PythonValue(value, value[n], f)]
    BY <2>1 DEF NodeText
  <2>3. PythonText(value) = [n \in DOMAIN value |-> PythonValue(value, value[n], PythonText(value))]
    BY <2>2 DEF PythonText
  <2> QED  BY <2>3 DEF NodeText
<1>3. Json(value) = [n \in DOMAIN value |-> NodeText("json", value, n, Json(value))]
  <2>1. PICK f : f = [n \in DOMAIN value |-> NodeText("json", value, n, f)]
    BY TextsExist DEF HasTexts
  <2>2. f = [n \in DOMAIN value |-> JsonOf(value[n], f)]
    BY <2>1 DEF NodeText
  <2>3. Json(value) = [n \in DOMAIN value |-> JsonOf(value[n], Json(value))]
    BY <2>2 DEF Json
  <2> QED  BY <2>3 DEF NodeText
<1>4. \A n \in 1 .. Len(value) :
        /\ LuaText(value)[n] \in Seq(Tokens)
        /\ LuaText(value)[n] = NodeText("lua", value, n, LuaText(value))
  BY <1>1, TextsTyped
<1>5. \A n \in 1 .. Len(value) :
        /\ PythonText(value)[n] \in Seq(Tokens)
        /\ PythonText(value)[n] = NodeText("python", value, n, PythonText(value))
  BY <1>2, TextsTyped
<1>6. \A n \in 1 .. Len(value) :
        /\ Json(value)[n] \in Seq(Tokens)
        /\ Json(value)[n] = NodeText("json", value, n, Json(value))
  BY <1>3, TextsTyped
<1> QED  BY <1>4, <1>5, <1>6 DEF NodeText

-----------------------------------------------------------------------------
(* What is written never says more than the JSON: it is an error, or the   *)
(* JSON has a token that is never written, or what is written has no more  *)
(* braces, commas and quotes.  One part that says less is not made up for  *)
(* by the others.                                                          *)

Marks == {"{", ",", "'"}

MarkPlaces(s) == {i \in 1 .. Len(s) : s[i] \in Marks}

Measure(s) == Cardinality(MarkPlaces(s))

LEMMA MeasureType ==
  ASSUME NEW s \in Seq(Tokens)
  PROVE  /\ IsFiniteSet(MarkPlaces(s))
         /\ Measure(s) \in Nat
         /\ ToSet(s) \cap Marks = {} => Measure(s) = 0
         /\ ToSet(s) \cap Marks # {} => Measure(s) > 0
<1>1. Len(s) \in Nat /\ DOMAIN s = 1 .. Len(s)
  BY LenProperties
<1>2. IsFiniteSet(MarkPlaces(s))
  <2>1. IsFiniteSet(1 .. Len(s))
    BY <1>1, FS_Interval
  <2>2. MarkPlaces(s) \subseteq 1 .. Len(s)
    BY DEF MarkPlaces
  <2> QED  BY <2>1, <2>2, FS_Subset
<1>3. Measure(s) \in Nat
  BY <1>2, FS_CardinalityType DEF Measure
<1>4. MarkPlaces(s) = {} <=> ToSet(s) \cap Marks = {}
  BY <1>1 DEF MarkPlaces, ToSet
<1>5. Measure(s) = 0 <=> MarkPlaces(s) = {}
  BY <1>2, FS_EmptySet DEF Measure
<1> QED  BY <1>2, <1>3, <1>4, <1>5

LEMMA MeasureConcat ==
  ASSUME NEW s \in Seq(Tokens), NEW t \in Seq(Tokens)
  PROVE  Measure(s \o t) = Measure(s) + Measure(t)
<1> DEFINE A == MarkPlaces(s)
           B == {j \in Len(s) + 1 .. Len(s) + Len(t) : (s \o t)[j] \in Marks}
<1>1. Len(s) \in Nat /\ Len(t) \in Nat /\ Len(s \o t) = Len(s) + Len(t)
  BY LenProperties, ConcatProperties
<1>2. \A i \in 1 .. Len(s) : (s \o t)[i] = s[i]
  BY <1>1, ConcatProperties
<1>3. \A j \in 1 .. Len(t) : (s \o t)[Len(s) + j] = t[j]
  <2> SUFFICES ASSUME NEW j \in 1 .. Len(t) PROVE (s \o t)[Len(s) + j] = t[j]
    OBVIOUS
  <2>1. Len(s) + j \in 1 .. Len(s) + Len(t) /\ ~(Len(s) + j <= Len(s)) /\ Len(s) + j - Len(s) = j
    BY <1>1
  <2> QED  BY <2>1, ConcatProperties
<1>4. MarkPlaces(s \o t) = A \cup B
  <2>1. \A i \in 1 .. Len(s) + Len(t) : i \in 1 .. Len(s) \/ i \in Len(s) + 1 .. Len(s) + Len(t)
    BY <1>1
  <2>2. \A i \in 1 .. Len(s) : i \in 1 .. Len(s) + Len(t)
    BY <1>1
  <2>3. \A i \in Len(s) + 1 .. Len(s) + Len(t) : i \in 1 .. Len(s) + Len(t)
    BY <1>1
  <2> QED  BY <1>1, <1>2, <2>1, <2>2, <2>3 DEF MarkPlaces
<1>5. A \cap B = {}
  BY <1>1 DEF MarkPlaces
<1>6. IsFiniteSet(A) /\ IsFiniteSet(MarkPlaces(t))
  BY MeasureType
<1>7. IsFiniteSet(B) /\ Cardinality(B) = Cardinality(MarkPlaces(t))
  <2> DEFINE f == [j \in MarkPlaces(t) |-> Len(s) + j]
  <2>1. \A j \in MarkPlaces(t) : j \in 1 .. Len(t) /\ t[j] \in Marks
    BY DEF MarkPlaces
  <2>2. \A j \in MarkPlaces(t) : Len(s) + j \in B
    BY <1>1, <1>3, <2>1
  <2>3. \A b \in B : \E j \in MarkPlaces(t) : Len(s) + j = b
    <3> SUFFICES ASSUME NEW b \in B PROVE \E j \in MarkPlaces(t) : Len(s) + j = b
      OBVIOUS
    <3>1. b - Len(s) \in 1 .. Len(t) /\ Len(s) + (b - Len(s)) = b
      BY <1>1
    <3>2. t[b - Len(s)] \in Marks
      BY <3>1, <1>3
    <3> QED  BY <3>1, <3>2 DEF MarkPlaces
  <2>4. f \in Bijection(MarkPlaces(t), B)
    <3> HIDE DEF B
    <3>1. f \in [MarkPlaces(t) -> B]
      BY <2>2
    <3>2. \A b \in B : \E j \in MarkPlaces(t) : f[j] = b
      BY <2>3
    <3>3. \A i, j \in MarkPlaces(t) : f[i] = f[j] => i = j
      BY <1>1, <2>1
    <3> QED  BY <3>1, <3>2, <3>3 DEF Bijection, Injection, Surjection, IsInjective
  <2> HIDE DEF B, f
  <2>5. ExistsBijection(MarkPlaces(t), B)
    BY <2>4 DEF ExistsBijection
  <2> QED  BY <1>6, <2>5, FS_Bijection
<1> HIDE DEF A, B
<1>8. Cardinality(A \cup B) = Cardinality(A) + Cardinality(B)
  <2>1. Cardinality(A \cup B) = Cardinality(A) + Cardinality(B) - Cardinality(A \cap B)
    BY <1>6, <1>7, FS_Union
  <2>2. Cardinality(A \cap B) = 0 /\ Cardinality(A) \in Nat /\ Cardinality(B) \in Nat
    BY <1>5, <1>6, <1>7, FS_EmptySet, FS_CardinalityType
  <2> QED  BY <2>1, <2>2
<1> QED  BY <1>4, <1>7, <1>8 DEF Measure, A

(* a is written for a part of a value, b is its JSON; the tokens in u are  *)
(* never written.                                                          *)
Near(u, a, b) ==
  /\ a \in Seq(Tokens) /\ b \in Seq(Tokens)
  /\ ToSet(a) \cap u = {}
  /\ "raise" \notin ToSet(b) /\ "fail" \notin ToSet(b)
  /\ "fail" \in ToSet(a) => "raise" \in ToSet(a) \/ ToSet(b) \cap u # {}
  /\ "raise" \in ToSet(a) \/ ToSet(b) \cap u # {} \/ Measure(a) <= Measure(b)

Less(u, a, b) ==
  "raise" \in ToSet(a) \/ ToSet(b) \cap u # {} \/ Measure(a) < Measure(b)

LEMMA LessDiffers ==
  ASSUME NEW u, NEW a, NEW b, Near(u, a, b), Less(u, a, b)
  PROVE  a # b
<1>1. Measure(a) \in Nat
  BY MeasureType DEF Near
<1> QED  BY <1>1 DEF Near, Less

LEMMA ConcatSet ==
  ASSUME NEW s \in Seq(Tokens), NEW t \in Seq(Tokens)
  PROVE  ToSet(s \o t) = ToSet(s) \cup ToSet(t)
<1>1. /\ Len(s) \in Nat /\ Len(t) \in Nat /\ Len(s \o t) = Len(s) + Len(t)
      /\ DOMAIN s = 1 .. Len(s) /\ DOMAIN t = 1 .. Len(t)
      /\ DOMAIN (s \o t) = 1 .. Len(s) + Len(t)
  BY LenProperties, ConcatProperties
<1>2. ASSUME NEW i \in 1 .. Len(s) + Len(t) PROVE (s \o t)[i] \in ToSet(s) \cup ToSet(t)
  <2>1. CASE i <= Len(s)
    <3>1. (s \o t)[i] = s[i] /\ i \in DOMAIN s
      BY <1>1, <2>1, ConcatProperties
    <3> QED  BY <3>1 DEF ToSet
  <2>2. CASE ~(i <= Len(s))
    <3>1. (s \o t)[i] = t[i - Len(s)] /\ i - Len(s) \in DOMAIN t
      BY <1>1, <2>2, ConcatProperties
    <3> QED  BY <3>1 DEF ToSet
  <2> QED  BY <2>1, <2>2
<1>3. ASSUME NEW i \in 1 .. Len(s) PROVE s[i] \in ToSet(s \o t)
  <2>1. i \in 1 .. Len(s) + Len(t) /\ i <= Len(s)
    BY <1>1
  <2>2. (s \o t)[i] = s[i]
    BY <2>1, ConcatProperties
  <2> QED  BY <1>1, <2>1, <2>2 DEF ToSet
<1>4. ASSUME NEW j \in 1 .. Len(t) PROVE t[j] \in ToSet(s \o t)
  <2>1. Len(s) + j \in 1 .. Len(s) + Len(t) /\ ~(Len(s) + j <= Len(s)) /\ Len(s) + j - Len(s) = j
    BY <1>1
  <2>2. (s \o t)[Len(s) + j] = t[j]
    BY <2>1, ConcatProperties
  <2> QED  BY <1>1, <2>1, <2>2 DEF ToSet
<1>5. ToSet(s \o t) \subseteq ToSet(s) \cup ToSet(t)
  BY <1>1, <1>2 DEF ToSet
<1>6. ToSet(s) \subseteq ToSet(s \o t)
  BY <1>1, <1>3 DEF ToSet
<1>7. ToSet(t) \subseteq ToSet(s \o t)
  BY <1>1, <1>4 DEF ToSet
<1> QED  BY <1>5, <1>6, <1>7

LEMMA NearConcat ==
  ASSUME NEW u, NEW a, NEW b, NEW c, NEW d, Near(u, a, b), Near(u, c, d)
  PROVE  /\ Near(u, a \o c, b \o d)
         /\ Less(u, a, b) \/ Less(u, c, d) => Less(u, a \o c, b \o d)
<1>1. /\ a \in Seq(Tokens) /\ b \in Seq(Tokens) /\ c \in Seq(Tokens) /\ d \in Seq(Tokens)
      /\ a \o c \in Seq(Tokens) /\ b \o d \in Seq(Tokens)
  BY ConcatTyped DEF Near
<1>2. ToSet(a \o c) = ToSet(a) \cup ToSet(c) /\ ToSet(b \o d) = ToSet(b) \cup ToSet(d)
  BY <1>1, ConcatSet
<1>3. /\ Measure(a \o c) = Measure(a) + Measure(c) /\ Measure(b \o d) = Measure(b) + Measure(d)
      /\ Measure(a) \in Nat /\ Measure(b) \in Nat /\ Measure(c) \in Nat /\ Measure(d) \in Nat
  BY <1>1, MeasureConcat, MeasureType
<1>4. /\ ToSet(a \o c) \cap u = {}
      /\ "raise" \notin ToSet(b \o d) /\ "fail" \notin ToSet(b \o d)
      /\ "fail" \in ToSet(a \o c) => "raise" \in ToSet(a \o c) \/ ToSet(b \o d) \cap u # {}
  BY <1>2 DEF Near
<1>5. CASE "raise" \in ToSet(a \o c) \/ ToSet(b \o d) \cap u # {}
  BY <1>1, <1>4, <1>5 DEF Near, Less
<1>6. CASE ~("raise" \in ToSet(a \o c) \/ ToSet(b \o d) \cap u # {})
  <2>1. ~("raise" \in ToSet(a) \/ ToSet(b) \cap u # {}) /\ ~("raise" \in ToSet(c) \/ ToSet(d) \cap u # {})
    BY <1>2, <1>6
  <2>2. Measure(a) <= Measure(b) /\ Measure(c) <= Measure(d)
    BY <2>1 DEF Near
  <2>3. Measure(a \o c) <= Measure(b \o d)
    BY <1>3, <2>2
  <2>4. Less(u, a, b) \/ Less(u, c, d) => Measure(a \o c) < Measure(b \o d)
    BY <1>3, <2>1, <2>2 DEF Less
  <2> QED  BY <1>1, <1>4, <2>3, <2>4 DEF Near, Less
<1> QED  BY <1>5, <1>6

(* The same is written. *)
LEMMA NearSame ==
  ASSUME NEW u, NEW a \in Seq(Tokens), ToSet(a) \cap u = {},
         "raise" \notin ToSet(a), "fail" \notin ToSet(a)
  PROVE  Near(u, a, a)
<1>1. Measure(a) \in Nat
  BY MeasureType
<1> QED  BY <1>1 DEF Near

(* Nothing that is measured is written. *)
LEMMA NearUnmarked ==
  ASSUME NEW u, NEW a \in Seq(Tokens), NEW b \in Seq(Tokens),
         ToSet(a) \cap u = {}, ToSet(a) \cap Marks = {}, "fail" \notin ToSet(a),
         "raise" \notin ToSet(b), "fail" \notin ToSet(b)
  PROVE  /\ Near(u, a, b)
         /\ ToSet(b) \cap Marks # {} => Less(u, a, b)
<1>1. Measure(a) = 0 /\ Measure(b) \in Nat
  BY MeasureType
<1>2. ToSet(b) \cap Marks # {} => Measure(b) > 0
  BY MeasureType
<1> QED  BY <1>1, <1>2 DEF Near, Less

LEMMA NearFailing ==
  ASSUME NEW u, NEW a, NEW b, Near(u, a, b)
  PROVE  /\ Near(u, Failing(a), b)
         /\ Less(u, a, b) => Less(u, Failing(a), b)
<1>1. CASE "raise" \in ToSet(a) \/ "fail" \notin ToSet(a)
  BY <1>1, FailingCuts DEF Near
<1>2. CASE "raise" \notin ToSet(a) /\ "fail" \in ToSet(a)
  <2>1. ToSet(b) \cap u # {}
    BY <1>2 DEF Near
  <2>2. Failing(a) \in Seq(Tokens) /\ ToSet(Failing(a)) \subseteq ToSet(a)
    BY FailingCuts DEF Near
  <2> QED  BY <2>1, <2>2 DEF Near, Less
<1> QED  BY <1>1, <1>2

LEMMA JoinedNear ==
  ASSUME NEW u, NEW k \in Nat, NEW a \in [1 .. k -> Seq(Tokens)], NEW b \in [1 .. k -> Seq(Tokens)],
         \A i \in 1 .. k : Near(u, a[i], b[i])
  PROVE  /\ Near(u, Joined(a), Joined(b))
         /\ (\E i \in 1 .. k : Less(u, a[i], b[i])) => Less(u, Joined(a), Joined(b))
<1> DEFINE r == Rests(a)
           s == Rests(b)
<1>1. /\ a \in Seq(Seq(Tokens)) /\ Len(a) = k
      /\ b \in Seq(Seq(Tokens)) /\ Len(b) = k
  BY FunctionIsSeq
<1>2. /\ r[k + 1] = <<>> /\ s[k + 1] = <<>>
      /\ \A i \in 1 .. k : r[i] = a[i] \o r[i + 1] /\ s[i] = b[i] \o s[i + 1]
  BY <1>1, RestsAre
<1>3. r[1] = Joined(a) /\ s[1] = Joined(b)
  BY JoinedIsRest
<1> HIDE DEF r, s
<1>4. Near(u, r[k + 1], s[k + 1])
  <2>1. <<>> \in Seq(Tokens) /\ ToSet(<<>>) = {}
    BY SmallTexts DEF ToSet
  <2> QED  BY <1>2, <2>1, NearSame
<1> DEFINE T == {i \in 1 .. k + 1 : \A j \in i .. k + 1 : Near(u, r[j], s[j])}
<1>5. k + 1 \in T
  <2>1. k + 1 \in 1 .. k + 1 /\ \A j \in k + 1 .. k + 1 : j = k + 1
    OBVIOUS
  <2> QED  BY <1>4, <2>1
<1>6. ASSUME NEW i \in 1 .. k, i + 1 \in T PROVE i \in T
  <2>1. \A j \in i + 1 .. k + 1 : Near(u, r[j], s[j])
    BY <1>6
  <2>2. i + 1 \in i + 1 .. k + 1 /\ i \in 1 .. k + 1 /\ \A j \in i .. k + 1 : j = i \/ j \in i + 1 .. k + 1
    OBVIOUS
  <2>3. Near(u, a[i] \o r[i + 1], b[i] \o s[i + 1])
    BY <2>1, <2>2, NearConcat
  <2>4. Near(u, r[i], s[i])
    BY <1>2, <2>3
  <2> QED  BY <2>1, <2>2, <2>4
<1> HIDE DEF T
<1>7. 1 \in T
  BY <1>5, <1>6, Downward
<1>8. \A j \in 1 .. k + 1 : Near(u, r[j], s[j])
  BY <1>7 DEF T
<1>9. ASSUME NEW p \in 1 .. k, Less(u, a[p], b[p]) PROVE Less(u, r[1], s[1])
  <2> DEFINE L == {i \in 1 .. p : Less(u, r[i], s[i])}
  <2>1. p \in L
    <3>1. p \in 1 .. p /\ p + 1 \in 1 .. k + 1
      OBVIOUS
    <3>2. Near(u, r[p + 1], s[p + 1])
      BY <1>8, <3>1
    <3>3. Less(u, a[p] \o r[p + 1], b[p] \o s[p + 1])
      BY <1>9, <3>2, NearConcat
    <3>4. Less(u, r[p], s[p])
      BY <1>2, <3>3
    <3> QED  BY <3>1, <3>4
  <2>2. ASSUME NEW i \in 1 .. p - 1, i + 1 \in L PROVE i \in L
    <3>1. i \in 1 .. k /\ i + 1 \in 1 .. k + 1 /\ i \in 1 .. p
      OBVIOUS
    <3>2. Less(u, r[i + 1], s[i + 1])
      BY <2>2
    <3>3. Near(u, r[i + 1], s[i + 1])
      BY <1>8, <3>1
    <3>4. Less(u, a[i] \o r[i + 1], b[i] \o s[i + 1])
      BY <3>1, <3>2, <3>3, NearConcat
    <3>5. Less(u, r[i], s[i])
      BY <1>2, <3>1, <3>4
    <3> QED  BY <3>1, <3>5
  <2> HIDE DEF L
  <2>3. PICK l \in Nat : l = p - 1 /\ l + 1 = p
    OBVIOUS
  <2>4. l + 1 \in L /\ \A i \in 1 .. l : i + 1 \in L => i \in L
    BY <2>1, <2>2, <2>3
  <2>5. 1 \in L
    BY <2>4, Downward
  <2> QED  BY <2>5 DEF L
<1>10. 1 \in 1 .. k + 1
  OBVIOUS
<1> QED  BY <1>3, <1>8, <1>9, <1>10

(* The tokens that only the JSON has: Lua and Python. *)
Unwritten(u) ==
  /\ BooleanKeys \subseteq u /\ {"null", "escaped", "double", "unfit"} \subseteq u
  /\ {"[", "]", "{", "}", ",", ":", "'", "number", "rounded", "text", "special", "bytes",
      "raise", "fail"} \cap u = {}
  /\ (NumberKeys \cup NameKeys) \cap u = {}

LuaUnwritten == {"null", "escaped", "double", "unfit"} \cup BooleanKeys

PythonUnwritten == LuaUnwritten \cup {"boolean"}

LEMMA UnwrittenAre ==
  /\ Unwritten(LuaUnwritten) /\ "boolean" \notin LuaUnwritten
  /\ Unwritten(PythonUnwritten) /\ "boolean" \in PythonUnwritten
<1>1. \A w \in Words : w \notin BooleanKeys /\ w \notin NumberKeys /\ w \notin NameKeys
  BY KeysAssumption DEF Keys
<1>2. (NumberKeys \cup NameKeys) \cap BooleanKeys = {}
  BY KeysAssumption
<1> QED  BY <1>1, <1>2 DEF Unwritten, LuaUnwritten, PythonUnwritten, Words

LEMMA SmallSets ==
  /\ ToSet(<<>>) = {}
  /\ \A t : ToSet(<< t >>) = {t}
  /\ \A t : ToSet(Quote(t)) = {"'", t}
  /\ ToSet(<<"'", "fail">>) = {"'", "fail"}
<1>1. ToSet(<<>>) = {}
  BY DEF ToSet
<1>2. ASSUME NEW t PROVE ToSet(<< t >>) = {t}
  <2>1. DOMAIN << t >> = {1}
    OBVIOUS
  <2> QED  BY <2>1 DEF ToSet
<1>3. ASSUME NEW s, NEW t PROVE ToSet(<<s, t>>) = {s, t}
  <2>1. DOMAIN <<s, t>> = {1, 2}
    OBVIOUS
  <2> QED  BY <2>1 DEF ToSet
<1>4. ASSUME NEW t PROVE ToSet(Quote(t)) = {"'", t}
  <2>1. DOMAIN <<"'", t, "'">> = {1, 2, 3}
    OBVIOUS
  <2> QED  BY <2>1 DEF ToSet, Quote
<1> QED  BY <1>1, <1>2, <1>3, <1>4

(* The JSON has a token that is not written, or an error is raised. *)
LEMMA NearLess ==
  ASSUME NEW u, NEW a \in Seq(Tokens), NEW b \in Seq(Tokens),
         ToSet(a) \cap u = {}, "raise" \notin ToSet(b), "fail" \notin ToSet(b),
         "raise" \in ToSet(a) \/ ToSet(b) \cap u # {}
  PROVE  Near(u, a, b) /\ Less(u, a, b)
  BY DEF Near, Less

(* What is written between the values. *)
LEMMA PiecesNear ==
  ASSUME NEW u, Unwritten(u)
  PROVE  /\ \A t \in {"[", "]", "{", "}"} : Near(u, << t >>, << t >>)
         /\ Near(u, <<"[">>, <<"{">>) /\ Less(u, <<"[">>, <<"{">>)
         /\ Near(u, <<"]">>, <<"}">>)
         /\ \A i : Near(u, Separator(i), Separator(i)) /\ Near(u, <<>>, Separator(i))
         /\ \A i \in Nat : i > 1 => Less(u, <<>>, Separator(i))
         /\ \A key \in Keys : Near(u, <<>>, Quote(key) \o <<":">>)
<1>1. /\ <<>> \in Seq(Tokens) /\ ToSet(<<>>) = {}
      /\ \A t \in Words \cup Keys : << t >> \in Seq(Tokens) /\ ToSet(<< t >>) = {t}
      /\ \A t \in Words \cup Keys : Quote(t) \in Seq(Tokens) /\ ToSet(Quote(t)) = {"'", t}
  BY SmallTexts, SmallSets DEF Tokens
<1>2. ASSUME NEW t \in {"[", "]", "{", "}", ","}
      PROVE  /\ << t >> \in Seq(Tokens) /\ ToSet(<< t >>) = {t}
             /\ ToSet(<< t >>) \cap u = {}
             /\ "raise" \notin ToSet(<< t >>) /\ "fail" \notin ToSet(<< t >>)
             /\ ToSet(<< t >>) \cap Marks = {} <=> t \in {"[", "]", "}"}
  <2>1. t \in Words /\ t \notin u
    BY DEF Unwritten, Words
  <2>2. << t >> \in Seq(Tokens) /\ ToSet(<< t >>) = {t}
    BY <1>1, <2>1
  <2>3. t # "raise" /\ t # "fail" /\ (t \notin Marks <=> t \in {"[", "]", "}"})
    BY DEF Marks
  <2> QED  BY <2>1, <2>2, <2>3
<1>3. \A t \in {"[", "]", "{", "}", ","} : Near(u, << t >>, << t >>)
  BY <1>2, NearSame
<1>4. Near(u, <<"[">>, <<"{">>) /\ Less(u, <<"[">>, <<"{">>)
  <2> DEFINE a == <<"[">>
             b == <<"{">>
  <2>1. /\ a \in Seq(Tokens) /\ ToSet(a) \cap u = {} /\ "fail" \notin ToSet(a)
        /\ ToSet(a) \cap Marks = {}
    BY <1>2
  <2>2. /\ b \in Seq(Tokens) /\ "raise" \notin ToSet(b) /\ "fail" \notin ToSet(b)
        /\ ToSet(b) \cap Marks # {}
    BY <1>2
  <2> HIDE DEF a, b
  <2>3. Near(u, a, b) /\ Less(u, a, b)
    BY <2>1, <2>2, NearUnmarked
  <2> QED  BY <2>3 DEF a, b
<1>5. Near(u, <<"]">>, <<"}">>)
  <2> DEFINE a == <<"]">>
             b == <<"}">>
  <2>1. /\ a \in Seq(Tokens) /\ ToSet(a) \cap u = {} /\ "fail" \notin ToSet(a)
        /\ ToSet(a) \cap Marks = {}
    BY <1>2
  <2>2. b \in Seq(Tokens) /\ "raise" \notin ToSet(b) /\ "fail" \notin ToSet(b)
    BY <1>2
  <2> HIDE DEF a, b
  <2>3. Near(u, a, b)
    BY <2>1, <2>2, NearUnmarked
  <2> QED  BY <2>3 DEF a, b
<1>6. Near(u, <<>>, <<>>)
  BY <1>1, NearSame
<1>7. Near(u, <<>>, <<",">>) /\ Less(u, <<>>, <<",">>)
  <2> DEFINE a == <<>>
             b == <<",">>
  <2>1. /\ a \in Seq(Tokens) /\ ToSet(a) \cap u = {} /\ "fail" \notin ToSet(a)
        /\ ToSet(a) \cap Marks = {}
    BY <1>1
  <2>2. /\ b \in Seq(Tokens) /\ "raise" \notin ToSet(b) /\ "fail" \notin ToSet(b)
        /\ ToSet(b) \cap Marks # {}
    BY <1>2
  <2> HIDE DEF a, b
  <2>3. Near(u, a, b) /\ Less(u, a, b)
    BY <2>1, <2>2, NearUnmarked
  <2> QED  BY <2>3 DEF a, b
<1>8. ASSUME NEW i PROVE Near(u, Separator(i), Separator(i)) /\ Near(u, <<>>, Separator(i))
  BY <1>3, <1>6, <1>7 DEF Separator
<1>9. ASSUME NEW i \in Nat, i > 1 PROVE Less(u, <<>>, Separator(i))
  BY <1>7, <1>9 DEF Separator
<1>10. ASSUME NEW key \in Keys PROVE Near(u, <<>>, Quote(key) \o <<":">>)
  <2>1. /\ Quote(key) \o <<":">> \in Seq(Tokens)
        /\ ToSet(Quote(key) \o <<":">>) = {"'", key, ":"}
    <3>1. <<":">> \in Seq(Tokens) /\ ToSet(<<":">>) = {":"}
      BY <1>1 DEF Words
    <3>2. Quote(key) \in Seq(Tokens) /\ ToSet(Quote(key)) = {"'", key}
      BY <1>1
    <3>3. ToSet(Quote(key) \o <<":">>) = ToSet(Quote(key)) \cup ToSet(<<":">>)
      BY <3>1, <3>2, ConcatSet
    <3>4. Quote(key) \o <<":">> \in Seq(Tokens)
      BY <3>1, <3>2, ConcatTyped
    <3>5. {"'", key} \cup {":"} = {"'", key, ":"}
      OBVIOUS
    <3> QED  BY <3>1, <3>2, <3>3, <3>4, <3>5
  <2>2. key \notin Words
    BY KeysAssumption
  <2>3. "raise" \notin {"'", key, ":"} /\ "fail" \notin {"'", key, ":"}
    BY <2>2 DEF Words
  <2> DEFINE a == <<>>
             b == Quote(key) \o <<":">>
  <2>4. /\ a \in Seq(Tokens) /\ ToSet(a) \cap u = {} /\ "fail" \notin ToSet(a)
        /\ ToSet(a) \cap Marks = {}
    BY <1>1
  <2>5. b \in Seq(Tokens) /\ "raise" \notin ToSet(b) /\ "fail" \notin ToSet(b)
    BY <2>1, <2>3
  <2> HIDE DEF a, b
  <2>6. Near(u, a, b)
    BY <2>4, <2>5, NearUnmarked
  <2> QED  BY <2>6 DEF a, b
<1> QED  BY <1>3, <1>4, <1>5, <1>8, <1>9, <1>10

(* Keys, quoted or as the two languages write them. *)
LEMMA KeysNear ==
  ASSUME NEW u, Unwritten(u), NEW key \in Keys
  PROVE  /\ Near(u, LuaKey(key), Quote(key) \o <<":">>)
         /\ Near(u, AfterLuaKey(key), <<>>)
         /\ Near(u, DictKey(key), Quote(key) \o <<":">>)
         /\ key \notin NameKeys => /\ Less(u, DictKey(key), Quote(key) \o <<":">>)
                                   /\ \/ Less(u, LuaKey(key), Quote(key) \o <<":">>)
                                      \/ Less(u, AfterLuaKey(key), <<>>)
         /\ key \in NameKeys => /\ LuaKey(key) = Quote(key) \o <<":">>
                                /\ DictKey(key) = Quote(key) \o <<":">>
                                /\ AfterLuaKey(key) = <<>>
<1> DEFINE q == Quote(key) \o <<":">>
<1>1. q \in Seq(Tokens) /\ ToSet(q) = {"'", key, ":"}
  <2>1. Quote(key) \in Seq(Tokens) /\ ToSet(Quote(key)) = {"'", key}
    BY SmallTexts, SmallSets DEF Tokens
  <2>2. <<":">> \in Seq(Tokens) /\ ToSet(<<":">>) = {":"}
    BY SmallTexts, SmallSets DEF Tokens, Words
  <2>3. q \in Seq(Tokens) /\ ToSet(q) = ToSet(Quote(key)) \cup ToSet(<<":">>)
    BY <2>1, <2>2, ConcatTyped, ConcatSet
  <2>4. {"'", key} \cup {":"} = {"'", key, ":"}
    OBVIOUS
  <2> QED  BY <2>1, <2>2, <2>3, <2>4
<1>2. key # "raise" /\ key # "fail"
  BY KeysAssumption DEF Words
<1>3. "raise" \notin ToSet(q) /\ "fail" \notin ToSet(q)
  BY <1>1, <1>2
<1> HIDE DEF q
<1>4. <<"raise">> \in Seq(Tokens) /\ ToSet(<<"raise">>) = {"raise"} /\ {"raise"} \cap u = {}
  BY SmallTexts, SmallSets DEF Tokens, Words, Unwritten
<1>5. Near(u, <<"raise">>, q) /\ Less(u, <<"raise">>, q)
  <2> DEFINE a == <<"raise">>
  <2>1. a \in Seq(Tokens) /\ ToSet(a) \cap u = {} /\ "raise" \in ToSet(a)
    BY <1>4
  <2> HIDE DEF a
  <2>2. Near(u, a, q) /\ Less(u, a, q)
    BY <2>1, <1>1, <1>3, NearLess
  <2> QED  BY <2>2 DEF a
<1>6. <<>> \in Seq(Tokens) /\ ToSet(<<>>) = {}
  BY SmallTexts, SmallSets
<1>7. CASE key \in NameKeys
  <2>1. key \notin BooleanKeys /\ key \notin NumberKeys
    BY <1>7, KeysAssumption
  <2>2. LuaKey(key) = q /\ DictKey(key) = q /\ AfterLuaKey(key) = <<>>
    BY <1>7, <2>1 DEF LuaKey, DictKey, AfterLuaKey, q
  <2>3. ToSet(q) \cap u = {}
    BY <1>1, <1>7 DEF Unwritten
  <2>4. Near(u, q, q) /\ Near(u, <<>>, <<>>)
    BY <1>1, <1>3, <1>6, <2>3, NearSame
  <2> QED  BY <1>7, <2>2, <2>4 DEF q
<1>8. CASE key \in NumberKeys
  <2>1. key \notin BooleanKeys /\ key \notin NameKeys
    BY <1>8, KeysAssumption
  <2>2. LuaKey(key) = q /\ DictKey(key) = <<"raise">> /\ AfterLuaKey(key) = <<"raise">>
    BY <1>8, <2>1 DEF LuaKey, DictKey, AfterLuaKey, q
  <2>3. ToSet(q) \cap u = {}
    BY <1>1, <1>8 DEF Unwritten
  <2>4. Near(u, q, q)
    BY <1>1, <1>3, <2>3, NearSame
  <2>5. Near(u, <<"raise">>, <<>>) /\ Less(u, <<"raise">>, <<>>)
    <3> DEFINE a == <<"raise">>
               b == <<>>
    <3>1. a \in Seq(Tokens) /\ ToSet(a) \cap u = {} /\ "raise" \in ToSet(a)
      BY <1>4
    <3>2. b \in Seq(Tokens) /\ "raise" \notin ToSet(b) /\ "fail" \notin ToSet(b)
      BY <1>6
    <3> HIDE DEF a, b
    <3>3. Near(u, a, b) /\ Less(u, a, b)
      BY <3>1, <3>2, NearLess
    <3> QED  BY <3>3 DEF a, b
  <2> QED  BY <1>5, <2>1, <2>2, <2>4, <2>5 DEF q
<1>9. CASE key \in BooleanKeys
  <2>1. key \notin NumberKeys /\ key \notin NameKeys
    BY <1>9, KeysAssumption
  <2>2. LuaKey(key) = <<"'", "fail">> /\ DictKey(key) = <<"raise">> /\ AfterLuaKey(key) = <<>>
    BY <1>9, <2>1 DEF LuaKey, DictKey, AfterLuaKey
  <2>3. ToSet(q) \cap u # {}
    BY <1>1, <1>9 DEF Unwritten
  <2>4. Near(u, <<>>, <<>>)
    BY <1>6, NearSame
  <2>5. Near(u, <<"'", "fail">>, q) /\ Less(u, <<"'", "fail">>, q)
    <3> DEFINE a == <<"'", "fail">>
    <3>1. a \in Seq(Tokens)
      <4>1. "'" \in Tokens /\ "fail" \in Tokens
        BY DEF Tokens, Words
      <4> QED  BY <4>1
    <3>2. ToSet(a) \cap u = {}
      BY SmallSets DEF Unwritten
    <3> HIDE DEF a
    <3>3. Near(u, a, q) /\ Less(u, a, q)
      BY <3>1, <3>2, <1>1, <1>3, <2>3, NearLess
    <3> QED  BY <3>3 DEF a
  <2> QED  BY <1>5, <2>1, <2>2, <2>4, <2>5 DEF q
<1> QED  BY <1>7, <1>8, <1>9 DEF Keys

-----------------------------------------------------------------------------
(* Lua.                                                                    *)

LEMMA TableFacts ==
  ASSUME NEW kinds, NEW value, IsValue(value, kinds), NEW n \in 1 .. Len(value),
         value[n].kind = "table"
  PROVE  /\ IsArray(value[n]) <=> IsSequence(value[n])
         /\ IsSequence(value[n]) => value[n].counted
         /\ value[n].counted => ~(MemberKeys(value[n]) \subseteq NameKeys)
<1>1. DOMAIN value = 1 .. Len(value) /\ value[n].counted \in BOOLEAN
  BY ValueFacts
<1>2. value[n].counted \in Countable(MemberKeys(value[n]))
  BY <1>1 DEF IsValue
<1>3. IsSequence(value[n]) => value[n].counted
  <2> SUFFICES ASSUME IsSequence(value[n]) PROVE value[n].counted
    OBVIOUS
  <2>1. value[n] \in Nodes(kinds)
    BY <1>1, ElementOfSeq DEF IsValue
  <2>2. value[n].members \in Seq([key : Keys, id : Nat])
    BY <2>1 DEF Nodes
  <2>3. 1 \in DOMAIN value[n].members
    BY <2>2, LenProperties, EmptySeq DEF IsSequence
  <2>4. value[n].members[1].key = Indices[1]
    BY <2>3 DEF IsSequence
  <2>5. Indices[1] \in MemberKeys(value[n])
    BY <2>3, <2>4 DEF MemberKeys
  <2> QED  BY <1>1, <1>2, <2>5 DEF Countable
<1>4. value[n].counted => ~(MemberKeys(value[n]) \subseteq NameKeys)
  <2> SUFFICES ASSUME value[n].counted PROVE ~(MemberKeys(value[n]) \subseteq NameKeys)
    OBVIOUS
  <2>1. PICK key \in MemberKeys(value[n]) : key \in ToSet(Indices)
    BY <1>1, <1>2 DEF Countable
  <2>2. key \in NumberKeys
    BY <2>1, KeysAssumption, LenProperties, ElementOfSeq DEF ToSet
  <2> QED  BY <2>1, <2>2, KeysAssumption
<1> QED  BY <1>3, <1>4 DEF IsArray

LEMMA KeyBehind ==
  ASSUME NEW i, NEW key \in Keys
  PROVE  Separator(i) \o Quote(key) \o <<":">> = Separator(i) \o (Quote(key) \o <<":">>)
<1>1. PICK s \in Seq(Tokens) : s = Separator(i)
  BY SmallTexts
<1>2. PICK t \in Seq(Tokens) : t = Quote(key)
  BY SmallTexts DEF Tokens
<1>3. PICK c \in Seq(Tokens) : c = <<":">>
  BY SmallTexts DEF Tokens, Words
<1>4. (s \o t) \o c = s \o (t \o c)
  BY ConcatAssociative
<1> QED  BY <1>1, <1>2, <1>3, <1>4

LEMMA LuaPartNear ==
  ASSUME NEW value, IsValue(value, LuaKinds), NEW n \in 1 .. Len(value), value[n].kind = "table",
         NEW i \in 1 .. Len(value[n].members), NEW u, Unwritten(u), NEW text, NEW json,
         Near(u, text[value[n].members[i].id], json[value[n].members[i].id])
  PROVE  /\ Near(u, LuaPart(value[n], text, i), JsonPart(value[n], json, i))
         /\ Less(u, text[value[n].members[i].id], json[value[n].members[i].id]) =>
              Less(u, LuaPart(value[n], text, i), JsonPart(value[n], json, i))
         /\ ~value[n].counted /\ value[n].members[i].key \notin NameKeys =>
              Less(u, LuaPart(value[n], text, i), JsonPart(value[n], json, i))
<1>1. PICK key \in Keys : key = value[n].members[i].key
  BY ValueFacts
<1>2. PICK t : t = text[value[n].members[i].id]
  OBVIOUS
<1>3. PICK j : j = json[value[n].members[i].id]
  OBVIOUS
<1>4. PICK s \in Seq(Tokens) : s = Separator(i)
  BY SmallTexts
<1>5. PICK q \in Seq(Tokens) : q = Quote(key) \o <<":">>
  BY SmallTexts
<1>6. Near(u, t, j) /\ Near(u, s, s) /\ Near(u, <<>>, q)
  BY <1>2, <1>3, <1>4, <1>5, PiecesNear
<1>7. t \in Seq(Tokens) /\ j \in Seq(Tokens)
  BY <1>6 DEF Near
<1>8. JsonPart(value[n], json, i) = IF IsArray(value[n]) THEN s \o j ELSE (s \o q) \o j
  <2>1. Separator(i) \o Quote(key) \o <<":">> = Separator(i) \o (Quote(key) \o <<":">>)
    BY KeyBehind
  <2> QED  BY <1>1, <1>3, <1>4, <1>5, <2>1 DEF JsonPart
<1>9. CASE value[n].counted /\ IsArray(value[n])
  <2>1. LuaPart(value[n], text, i) = s \o t
    BY <1>2, <1>4, <1>9 DEF LuaPart
  <2>2. Near(u, s \o t, s \o j) /\ (Less(u, t, j) => Less(u, s \o t, s \o j))
    BY <1>6, NearConcat
  <2> QED  BY <1>2, <1>3, <1>8, <1>9, <2>1, <2>2
<1>10. CASE value[n].counted /\ ~IsArray(value[n])
  <2>1. LuaPart(value[n], text, i) = s \o t
    BY <1>2, <1>4, <1>10 DEF LuaPart
  <2>2. s \o <<>> = s
    BY ConcatEmptySeq
  <2>3. Near(u, s \o <<>>, s \o q)
    BY <1>6, NearConcat
  <2>4. Near(u, s \o t, (s \o q) \o j) /\ (Less(u, t, j) => Less(u, s \o t, (s \o q) \o j))
    BY <1>6, <2>2, <2>3, NearConcat
  <2> QED  BY <1>2, <1>3, <1>8, <1>10, <2>1, <2>4
<1>11. CASE ~value[n].counted
  <2>1. ~IsArray(value[n])
    BY <1>11, TableFacts
  <2>2. PICK k : k = LuaKey(key)
    OBVIOUS
  <2>3. PICK a : a = AfterLuaKey(key)
    OBVIOUS
  <2>4. LuaPart(value[n], text, i) = ((s \o k) \o t) \o a
    BY <1>1, <1>2, <1>4, <1>11, <2>2, <2>3 DEF LuaPart
  <2>5. Near(u, k, q) /\ Near(u, a, <<>>) /\ (key \notin NameKeys => Less(u, k, q) \/ Less(u, a, <<>>))
    BY <1>5, <2>2, <2>3, KeysNear
  <2>6. Near(u, s \o k, s \o q) /\ (Less(u, k, q) => Less(u, s \o k, s \o q))
    BY <1>6, <2>5, NearConcat
  <2>7. /\ Near(u, (s \o k) \o t, (s \o q) \o j)
        /\ Less(u, s \o k, s \o q) \/ Less(u, t, j) => Less(u, (s \o k) \o t, (s \o q) \o j)
    BY <1>6, <2>6, NearConcat
  <2>8. ((s \o q) \o j) \o <<>> = (s \o q) \o j
    <3>1. (s \o q) \o j \in Seq(Tokens)
      BY <2>7 DEF Near
    <3> QED  BY <3>1, ConcatEmptySeq
  <2>9. /\ Near(u, ((s \o k) \o t) \o a, ((s \o q) \o j) \o <<>>)
        /\ Less(u, (s \o k) \o t, (s \o q) \o j) \/ Less(u, a, <<>>) =>
             Less(u, ((s \o k) \o t) \o a, ((s \o q) \o j) \o <<>>)
    BY <2>5, <2>7, NearConcat
  <2> QED  BY <1>1, <1>2, <1>3, <1>8, <2>1, <2>4, <2>5, <2>6, <2>7, <2>8, <2>9
<1> QED  BY <1>9, <1>10, <1>11

(* What is said of a node when it is true of all behind it. *)
AllNear(value, n, u, text, json) == \A m \in n + 1 .. Len(value) : Near(u, text[m], json[m])

LEMMA TableNear ==
  ASSUME NEW value, IsValue(value, LuaKinds), NEW n \in 1 .. Len(value), value[n].kind = "table",
         NEW u, Unwritten(u), NEW text, NEW json, AllNear(value, n, u, text, json)
  PROVE  /\ Near(u, luaTableToJson(value[n], text), JsonNode(value[n], json))
         /\ \/ \E i \in 1 .. Len(value[n].members) :
                 Less(u, text[value[n].members[i].id], json[value[n].members[i].id])
            \/ ~(MemberKeys(value[n]) \subseteq NameKeys \/ IsSequence(value[n]))
            => Less(u, luaTableToJson(value[n], text), JsonNode(value[n], json))
<1>1. PICK k \in Nat : k = Len(value[n].members) /\ DOMAIN value[n].members = 1 .. k
  BY ValueFacts
<1>2. Behind(value, n, text) /\ Behind(value, n, json)
  BY DEF AllNear, Near, Behind
<1>3. PICK a \in [1 .. k -> Seq(Tokens)] : a = LuaParts(value[n], text)
  BY <1>1, <1>2, PartsTyped
<1>4. PICK b \in [1 .. k -> Seq(Tokens)] : b = JsonParts(value[n], json)
  BY <1>1, <1>2, PartsTyped
<1>5. \A i \in 1 .. k : a[i] = LuaPart(value[n], text, i) /\ b[i] = JsonPart(value[n], json, i)
  BY <1>1, <1>3, <1>4 DEF LuaParts, JsonParts
<1>6. \A i \in 1 .. k : Near(u, text[value[n].members[i].id], json[value[n].members[i].id])
  BY <1>1, ValueFacts DEF AllNear
<1>7. \A i \in 1 .. k :
        /\ Near(u, a[i], b[i])
        /\ Less(u, text[value[n].members[i].id], json[value[n].members[i].id]) => Less(u, a[i], b[i])
        /\ ~value[n].counted /\ value[n].members[i].key \notin NameKeys => Less(u, a[i], b[i])
  BY <1>1, <1>5, <1>6, LuaPartNear
<1>8. Near(u, Joined(a), Joined(b)) /\ ((\E i \in 1 .. k : Less(u, a[i], b[i])) => Less(u, Joined(a), Joined(b)))
  BY <1>7, JoinedNear
<1>9. PICK x : x = Joined(a)
  OBVIOUS
<1>10. PICK y : y = Joined(b)
  OBVIOUS
<1>11. PICK l : l = LuaTable(value[n], text)
  OBVIOUS
<1>12. PICK j : j = JsonNode(value[n], json)
  OBVIOUS
<1>13. /\ l = IF value[n].counted THEN (<<"[">> \o x) \o <<"]">> ELSE (<<"{">> \o x) \o <<"}">>
       /\ j = IF IsArray(value[n]) THEN (<<"[">> \o y) \o <<"]">> ELSE (<<"{">> \o y) \o <<"}">>
  BY <1>3, <1>4, <1>9, <1>10, <1>11, <1>12 DEF LuaTable, JsonNode
<1>14. PICK o, p : o = (IF value[n].counted THEN <<"[">> ELSE <<"{">>) /\ p = IF IsArray(value[n]) THEN <<"[">> ELSE <<"{">>
  OBVIOUS
<1>15. PICK c, d : c = (IF value[n].counted THEN <<"]">> ELSE <<"}">>) /\ d = IF IsArray(value[n]) THEN <<"]">> ELSE <<"}">>
  OBVIOUS
<1>16. l = (o \o x) \o c /\ j = (p \o y) \o d
  BY <1>13, <1>14, <1>15
<1>17. /\ Near(u, o, p) /\ Near(u, c, d)
       /\ value[n].counted /\ ~IsArray(value[n]) => Less(u, o, p)
  BY <1>14, <1>15, PiecesNear, TableFacts
<1>18. Near(u, o \o x, p \o y) /\ (Less(u, o, p) \/ Less(u, x, y) => Less(u, o \o x, p \o y))
  BY <1>8, <1>9, <1>10, <1>17, NearConcat
<1>19. Near(u, l, j) /\ (Less(u, o \o x, p \o y) => Less(u, l, j))
  BY <1>16, <1>17, <1>18, NearConcat
<1>20. Near(u, Failing(l), j) /\ (Less(u, l, j) => Less(u, Failing(l), j))
  BY <1>19, NearFailing
<1>21. ASSUME ~(MemberKeys(value[n]) \subseteq NameKeys \/ IsSequence(value[n]))
       PROVE  Less(u, o, p) \/ Less(u, x, y)
  <2>1. CASE value[n].counted
    BY <1>17, <1>21, <2>1, TableFacts
  <2>2. CASE ~value[n].counted
    <3>1. PICK i \in 1 .. k : value[n].members[i].key \notin NameKeys
      BY <1>1, <1>21 DEF MemberKeys
    <3> QED  BY <1>7, <1>8, <1>9, <1>10, <2>2, <3>1
  <2> QED  BY <2>1, <2>2
<1>22. ASSUME NEW i \in 1 .. k, Less(u, text[value[n].members[i].id], json[value[n].members[i].id])
       PROVE  Less(u, x, y)
  BY <1>7, <1>8, <1>9, <1>10, <1>22
<1>23. luaTableToJson(value[n], text) = Failing(l)
  BY <1>11, NodeTexts
<1> QED  BY <1>1, <1>12, <1>18, <1>19, <1>20, <1>21, <1>22, <1>23

(* A node of Lua, when it is true of all behind it. *)
LEMMA LuaNodeNear ==
  ASSUME NEW value, IsValue(value, LuaKinds), NEW n \in 1 .. Len(value), NEW u, u = LuaUnwritten,
         AllNear(value, n, u, LuaText(value), Json(value))
  PROVE  /\ Near(u, LuaText(value)[n], Json(value)[n])
         /\ value[n].kind \in {"double", "special", "opaque"} => Less(u, LuaText(value)[n], Json(value)[n])
<1> DEFINE text == LuaText(value)
           json == Json(value)
<1>1. text[n] = LuaValue(value[n], text) /\ json[n] = JsonOf(value[n], json)
  BY TextsAre
<1>2. Unwritten(u) /\ "boolean" \notin u
  BY UnwrittenAre
<1>3. /\ \A t \in Words : /\ << t >> \in Seq(Tokens) /\ ToSet(<< t >>) = {t}
                          /\ Quote(t) \in Seq(Tokens) /\ ToSet(Quote(t)) = {"'", t}
      /\ <<>> \in Seq(Tokens) /\ ToSet(<<>>) = {}
  BY SmallTexts, SmallSets DEF Tokens
<1>4. AllNear(value, n, u, text, json)
  OBVIOUS
<1> HIDE DEF text, json
<1>5. value[n].kind \in LuaKinds
  BY ValueFacts
<1>6. CASE value[n].kind = "table"
  <2>1. text[n] = luaTableToJson(value[n], text)
    BY <1>1, <1>6 DEF LuaValue
  <2>2. json[n] = JsonNode(value[n], json)
    BY <1>1, <1>6, NodeTexts
  <2>3. Near(u, text[n], json[n])
    BY <1>2, <1>4, <1>6, <2>1, <2>2, TableNear
  <2> QED  BY <1>6, <2>3 DEF text, json
<1>7. CASE value[n].kind \in {"number", "boolean"}
  <2>1. PICK t \in Words : t = value[n].kind
    BY <1>7 DEF Words
  <2>2. text[n] = << t >> /\ json[n] = << t >>
    BY <1>1, <1>7, <2>1 DEF LuaValue, JsonOf
  <2>3. t \notin u /\ t # "raise" /\ t # "fail"
    BY <1>2, <1>7, <2>1 DEF Unwritten
  <2>4. PICK a \in Seq(Tokens) : a = << t >> /\ ToSet(a) = {t}
    BY <1>3
  <2>5. Near(u, a, a)
    BY <2>3, <2>4, NearSame
  <2> QED  BY <1>7, <2>2, <2>4, <2>5 DEF text, json
<1>8. CASE value[n].kind = "text"
  <2>1. PICK t \in Words : t = "text"
    BY DEF Words
  <2>2. text[n] = Quote(t) /\ json[n] = Quote(t)
    BY <1>1, <1>8, <2>1 DEF LuaValue, JsonOf
  <2>3. ToSet(Quote(t)) = {"'", "text"} /\ Quote(t) \in Seq(Tokens)
    BY <1>3, <2>1
  <2>4. Near(u, Quote(t), Quote(t))
    BY <1>2, <2>3, NearSame DEF Unwritten
  <2> QED  BY <1>8, <2>2, <2>4 DEF text, json
<1>9. CASE value[n].kind \in {"double", "special", "opaque"}
  <2>1. /\ text[n] \in Seq(Tokens) /\ ToSet(text[n]) \subseteq {"rounded", "'", "special"}
        /\ json[n] \in Seq(Tokens) /\ ToSet(json[n]) \subseteq {"double", "'", "escaped", "null"}
        /\ \E t \in {"double", "escaped", "null"} : t \in ToSet(json[n])
    <3>1. CASE value[n].kind = "double"
      <4>1. text[n] = <<"rounded">> /\ json[n] = <<"double">>
        BY <1>1, <3>1 DEF LuaValue, JsonOf
      <4>2. "rounded" \in Words /\ "double" \in Words
        BY DEF Words
      <4> QED  BY <1>3, <4>1, <4>2
    <3>2. CASE value[n].kind = "special"
      <4>1. text[n] = Quote("special") /\ json[n] = Quote("escaped")
        BY <1>1, <3>2 DEF LuaValue, JsonOf
      <4>2. "special" \in Words /\ "escaped" \in Words
        BY DEF Words
      <4> QED  BY <1>3, <4>1, <4>2
    <3>3. CASE value[n].kind = "opaque"
      <4>1. text[n] = <<>> /\ json[n] = <<"null">>
        BY <1>1, <3>3 DEF LuaValue, JsonOf
      <4>2. "null" \in Words
        BY DEF Words
      <4> QED  BY <1>3, <4>1, <4>2
    <3> QED  BY <1>9, <3>1, <3>2, <3>3
  <2>2. /\ ToSet(text[n]) \cap u = {} /\ ToSet(json[n]) \cap u # {}
        /\ "raise" \notin ToSet(json[n]) /\ "fail" \notin ToSet(json[n])
    BY <1>2, <2>1 DEF Unwritten
  <2>3. Near(u, text[n], json[n]) /\ Less(u, text[n], json[n])
    BY <2>1, <2>2, NearLess
  <2> QED  BY <2>3 DEF text, json
<1> QED  BY <1>5, <1>6, <1>7, <1>8, <1>9 DEF LuaKinds, ScalarKinds

(* If a node is Near whenever all behind it are, all nodes are. *)
NearFromBehind(value, u, text, json) ==
  \A n \in 1 .. Len(value) : AllNear(value, n, u, text, json) => Near(u, text[n], json[n])

LEMMA NearEverywhere ==
  ASSUME NEW value, Len(value) \in Nat, NEW u, NEW text, NEW json, NearFromBehind(value, u, text, json)
  PROVE  \A n \in 1 .. Len(value) : /\ Near(u, text[n], json[n])
                                    /\ AllNear(value, n, u, text, json)
<1> DEFINE T == {k \in 1 .. Len(value) + 1 : \A m \in k .. Len(value) : Near(u, text[m], json[m])}
<1>1. Len(value) + 1 \in T
  OBVIOUS
<1>2. ASSUME NEW k \in 1 .. Len(value), k + 1 \in T PROVE k \in T
  <2>1. \A m \in k + 1 .. Len(value) : Near(u, text[m], json[m])
    BY <1>2
  <2>2. Near(u, text[k], json[k])
    BY <2>1 DEF AllNear, NearFromBehind
  <2>3. k \in 1 .. Len(value) + 1 /\ \A m \in k .. Len(value) : m = k \/ m \in k + 1 .. Len(value)
    OBVIOUS
  <2>4. \A m \in k .. Len(value) : Near(u, text[m], json[m])
    BY <2>1, <2>2, <2>3
  <2> QED  BY <2>3, <2>4
<1> HIDE DEF T
<1>3. 1 \in T
  BY <1>1, <1>2, Downward
<1>4. \A n \in 1 .. Len(value) : Near(u, text[n], json[n])
  BY <1>3 DEF T
<1> QED  BY <1>4 DEF AllNear

LEMMA LuaNear ==
  ASSUME NEW value, IsValue(value, LuaKinds)
  PROVE  \A n \in 1 .. Len(value) :
           /\ Near(LuaUnwritten, LuaText(value)[n], Json(value)[n])
           /\ AllNear(value, n, LuaUnwritten, LuaText(value), Json(value))
           /\ value[n].kind \in {"double", "special", "opaque"} =>
                Less(LuaUnwritten, LuaText(value)[n], Json(value)[n])
<1>1. NearFromBehind(value, LuaUnwritten, LuaText(value), Json(value))
  BY LuaNodeNear DEF NearFromBehind
<1>2. Len(value) \in Nat
  BY ValueFacts
<1>3. \A n \in 1 .. Len(value) :
        /\ Near(LuaUnwritten, LuaText(value)[n], Json(value)[n])
        /\ AllNear(value, n, LuaUnwritten, LuaText(value), Json(value))
  BY <1>1, <1>2, NearEverywhere
<1> QED  BY <1>3, LuaNodeNear

(* Plain nodes are written as JSON, given that those behind them are. *)
PlainIs(value) ==
  \A n \in DOMAIN value : value[n].kind \notin ScalarKinds => PlainNode(value, value[n])

LEMMA LuaPlain ==
  ASSUME NEW value, IsValue(value, LuaKinds), PlainIs(value)
  PROVE  \A n \in 1 .. Len(value) :
           value[n].kind \in PlainItems("table") => LuaText(value)[n] = Json(value)[n]
<1> DEFINE text == LuaText(value)
           json == Json(value)
           T == {k \in 1 .. Len(value) + 1 :
                   \A m \in k .. Len(value) : value[m].kind \in PlainItems("table") => text[m] = json[m]}
<1>1. /\ Len(value) \in Nat
      /\ \A n \in 1 .. Len(value) : /\ text[n] = LuaValue(value[n], text)
                                    /\ json[n] = JsonOf(value[n], json)
                                    /\ json[n] \in Seq(Tokens)
                                    /\ Near(LuaUnwritten, text[n], json[n])
  BY ValueFacts, TextsAre, LuaNear
<1>2. PlainItems("table") = {"number", "boolean", "text", "table"}
  BY DEF PlainItems
<1> HIDE DEF text, json
<1>3. ASSUME NEW n \in 1 .. Len(value), value[n].kind = "table",
             \A m \in n + 1 .. Len(value) : value[m].kind \in PlainItems("table") => text[m] = json[m]
      PROVE  text[n] = json[n]
  <2>1. PlainNode(value, value[n])
    BY <1>3, ValueFacts DEF PlainIs, ScalarKinds
  <2>2. PICK k \in Nat : k = Len(value[n].members) /\ DOMAIN value[n].members = 1 .. k
    BY ValueFacts
  <2>3. ASSUME NEW i \in 1 .. k
        PROVE  LuaPart(value[n], text, i) = JsonPart(value[n], json, i)
    <3>1. PICK key \in Keys : key = value[n].members[i].key
      BY <2>2, ValueFacts
    <3>2. PICK m \in n + 1 .. Len(value) : m = value[n].members[i].id
      BY <2>2, ValueFacts
    <3>3. text[m] = json[m]
      BY <1>3, <2>1, <2>2, <3>2 DEF PlainNode
    <3>4. PICK t \in Seq(Tokens) : t = json[m]
      BY <1>1
    <3>5. PICK s \in Seq(Tokens) : s = Separator(i)
      BY SmallTexts
    <3>6. CASE IsSequence(value[n])
      <4>1. value[n].counted /\ IsArray(value[n])
        BY <1>3, <3>6, TableFacts
      <4> QED  BY <3>2, <3>3, <4>1 DEF LuaPart, JsonPart
    <3>7. CASE ~IsSequence(value[n])
      <4>1. MemberKeys(value[n]) \subseteq NameKeys
        BY <1>3, <2>1, <3>7 DEF PlainNode
      <4>2. ~value[n].counted /\ ~IsArray(value[n])
        BY <1>3, <3>7, <4>1, TableFacts
      <4>3. key \in NameKeys
        BY <2>2, <3>1, <4>1 DEF MemberKeys
      <4>4. LuaKey(key) = Quote(key) \o <<":">> /\ AfterLuaKey(key) = <<>>
        BY <4>3, KeysNear, UnwrittenAre
      <4>5. LuaPart(value[n], text, i) = s \o (Quote(key) \o <<":">>) \o t \o <<>>
        BY <3>1, <3>2, <3>3, <3>4, <3>5, <4>2, <4>4 DEF LuaPart
      <4>6. JsonPart(value[n], json, i) = s \o (Quote(key) \o <<":">>) \o t
        BY <3>1, <3>2, <3>4, <3>5, <4>2, KeyBehind DEF JsonPart
      <4>7. s \o (Quote(key) \o <<":">>) \o t \in Seq(Tokens)
        BY SmallTexts, ConcatTyped
      <4>8. s \o (Quote(key) \o <<":">>) \o t \o <<>> = s \o (Quote(key) \o <<":">>) \o t
        BY <4>7, ConcatEmptySeq
      <4> QED  BY <4>5, <4>6, <4>8
    <3> QED  BY <3>6, <3>7
  <2>4. LuaParts(value[n], text) = JsonParts(value[n], json)
    BY <2>2, <2>3 DEF LuaParts, JsonParts
  <2>5. value[n].counted <=> IsArray(value[n])
    BY <1>3, <2>1, TableFacts DEF PlainNode
  <2>6. LuaTable(value[n], text) = JsonNode(value[n], json)
    BY <2>4, <2>5 DEF LuaTable, JsonNode
  <2>7. json[n] = JsonNode(value[n], json)
    BY <1>1, <1>3, NodeTexts
  <2>8. "fail" \notin ToSet(json[n]) /\ json[n] \in Seq(Tokens)
    BY <1>1 DEF Near
  <2>9. Failing(json[n]) = json[n]
    BY <2>8, FailingCuts
  <2>10. text[n] = luaTableToJson(value[n], text)
    BY <1>1, <1>3 DEF LuaValue
  <2> QED  BY <2>6, <2>7, <2>9, <2>10, NodeTexts
<1>4. ASSUME NEW n \in 1 .. Len(value), value[n].kind \in {"number", "boolean", "text"}
      PROVE  text[n] = json[n]
  BY <1>1, <1>4 DEF LuaValue, JsonOf
<1>5. Len(value) + 1 \in T
  BY <1>1
<1>6. ASSUME NEW k \in 1 .. Len(value), k + 1 \in T PROVE k \in T
  <2>1. \A m \in k + 1 .. Len(value) : value[m].kind \in PlainItems("table") => text[m] = json[m]
    BY <1>6
  <2>2. value[k].kind \in PlainItems("table") => text[k] = json[k]
    BY <1>2, <1>3, <1>4, <2>1
  <2>3. k \in 1 .. Len(value) + 1 /\ \A m \in k .. Len(value) : m = k \/ m \in k + 1 .. Len(value)
    BY <1>1
  <2>4. \A m \in k .. Len(value) : value[m].kind \in PlainItems("table") => text[m] = json[m]
    BY <2>1, <2>2, <2>3
  <2> QED  BY <2>3, <2>4
<1> HIDE DEF T
<1>7. 1 \in T
  BY <1>1, <1>5, <1>6, Downward
<1> QED  BY <1>7 DEF T, text, json

(* A node that says less makes the whole value say less. *)
LessFromBehind(value, u, text, json) ==
  \A n \in 2 .. Len(value) :
    value[n].kind \notin ScalarKinds /\ Less(u, text[n], json[n]) =>
      \E p \in 1 .. n - 1 : value[p].kind \notin ScalarKinds /\ Less(u, text[p], json[p])

LEMMA LessAtRoot ==
  ASSUME NEW value, Len(value) \in Nat, NEW u, NEW text, NEW json,
         LessFromBehind(value, u, text, json),
         NEW n \in 1 .. Len(value), value[n].kind \notin ScalarKinds, Less(u, text[n], json[n])
  PROVE  Less(u, text[1], json[1])
<1> DEFINE T == {k \in 1 .. Len(value) : value[k].kind \notin ScalarKinds /\ Less(u, text[k], json[k])}
<1>1. PICK m \in T : \A k \in T : m <= k
  <2>1. T \subseteq Nat /\ n \in T
    OBVIOUS
  <2> HIDE DEF T
  <2> QED  BY <2>1, LeastNumber
<1>2. CASE m = 1
  BY <1>1, <1>2
<1>3. CASE m # 1
  <2>1. m \in 2 .. Len(value)
    BY <1>3
  <2>2. PICK p \in 1 .. m - 1 : value[p].kind \notin ScalarKinds /\ Less(u, text[p], json[p])
    BY <2>1 DEF LessFromBehind
  <2>3. p \in T /\ ~(m <= p)
    BY <2>1, <2>2
  <2> QED  BY <1>1, <2>3
<1> QED  BY <1>2, <1>3

(* The node a node is a member of. *)
LEMMA ParentIs ==
  ASSUME NEW kinds, NEW value, IsValue(value, kinds), NEW n \in 2 .. Len(value)
  PROVE  \E p \in 1 .. n - 1 :
           /\ p \in 1 .. Len(value) /\ value[p].kind \notin ScalarKinds
           /\ \E i \in 1 .. Len(value[p].members) : value[p].members[i].id = n
<1>1. n \in 1 .. Len(value) /\ n > 1 /\ Len(value) \in Nat /\ DOMAIN value = 1 .. Len(value)
  BY ValueFacts
<1>2. PICK p \in 1 .. n - 1 : \E i \in DOMAIN value[p].members : value[p].members[i].id = n
  BY <1>1 DEF IsValue
<1>3. p \in 1 .. Len(value)
  BY <1>1
<1>4. DOMAIN value[p].members = 1 .. Len(value[p].members)
  BY <1>3, ValueFacts
<1>5. ASSUME value[p].kind \in ScalarKinds PROVE FALSE
  <2>1. value[p].members = <<>>
    BY <1>1, <1>3, <1>5 DEF IsValue
  <2>2. DOMAIN value[p].members = {}
    BY <2>1
  <2> QED  BY <1>2, <2>2
<1> QED  BY <1>2, <1>3, <1>4, <1>5

LEMMA LuaExact ==
  ASSUME NEW value, IsValue(value, LuaKinds), value[1].kind = "table"
  PROVE  /\ LuaText(value)[1] = Json(value)[1] <=> PlainIs(value)
         /\ "raise" \notin ToSet(Json(value)[1])
<1> DEFINE u == LuaUnwritten
           text == LuaText(value)
           json == Json(value)
<1>1. /\ Len(value) \in Nat /\ 1 \in 1 .. Len(value)
      /\ \A n \in 1 .. Len(value) : /\ Near(u, text[n], json[n])
                                    /\ AllNear(value, n, u, text, json)
                                    /\ value[n].kind \in {"double", "special", "opaque"} =>
                                         Less(u, text[n], json[n])
                                    /\ text[n] = LuaValue(value[n], text)
                                    /\ json[n] = JsonOf(value[n], json)
  BY ValueFacts, TextsAre, LuaNear
<1>2. Unwritten(u)
  BY UnwrittenAre
<1>3. PlainIs(value) => text[1] = json[1]
  BY <1>1, LuaPlain DEF PlainItems
<1> HIDE DEF u, text, json
<1>4. ASSUME NEW n \in 1 .. Len(value), value[n].kind = "table"
      PROVE  /\ text[n] = luaTableToJson(value[n], text)
             /\ json[n] = JsonNode(value[n], json)
  <2>1. text[n] = luaTableToJson(value[n], text)
    BY <1>1, <1>4 DEF LuaValue
  <2>2. json[n] = JsonNode(value[n], json)
    BY <1>1, <1>4, NodeTexts
  <2> QED  BY <2>1, <2>2
<1>5. LessFromBehind(value, u, text, json)
  <2> SUFFICES ASSUME NEW n \in 2 .. Len(value), Less(u, text[n], json[n])
               PROVE  \E p \in 1 .. n - 1 : value[p].kind \notin ScalarKinds /\ Less(u, text[p], json[p])
    BY DEF LessFromBehind
  <2>1. PICK p \in 1 .. n - 1 :
               /\ p \in 1 .. Len(value) /\ value[p].kind \notin ScalarKinds
               /\ \E i \in 1 .. Len(value[p].members) : value[p].members[i].id = n
    BY ParentIs
  <2>2. value[p].kind = "table"
    BY <2>1, ValueFacts DEF LuaKinds
  <2>3. Less(u, luaTableToJson(value[p], text), JsonNode(value[p], json))
    BY <1>1, <1>2, <2>1, <2>2, TableNear
  <2> QED  BY <1>4, <2>1, <2>2, <2>3
<1>6. ASSUME NEW n \in DOMAIN value, value[n].kind \notin ScalarKinds, ~PlainNode(value, value[n])
      PROVE  Less(u, text[n], json[n])
  <2>1. n \in 1 .. Len(value)
    BY ValueFacts
  <2>2. value[n].kind = "table"
    BY <1>6, <2>1, ValueFacts DEF LuaKinds
  <2>3. DOMAIN value[n].members = 1 .. Len(value[n].members)
    BY <2>1, ValueFacts
  <2>4. \/ \E i \in 1 .. Len(value[n].members) :
             value[value[n].members[i].id].kind \notin {"number", "boolean", "text", "table"}
        \/ ~(MemberKeys(value[n]) \subseteq NameKeys \/ IsSequence(value[n]))
    BY <1>6, <2>2, <2>3 DEF PlainNode, PlainItems
  <2>5. ASSUME NEW i \in 1 .. Len(value[n].members),
               value[value[n].members[i].id].kind \notin {"number", "boolean", "text", "table"}
        PROVE  Less(u, text[value[n].members[i].id], json[value[n].members[i].id])
    <3>1. PICK m \in 1 .. Len(value) : m = value[n].members[i].id
      BY <2>1, ValueFacts
    <3>2. value[m].kind \in LuaKinds
      BY ValueFacts
    <3>3. value[m].kind \in {"double", "special", "opaque"}
      BY <2>5, <3>1, <3>2 DEF LuaKinds, ScalarKinds
    <3> QED  BY <1>1, <3>1, <3>3
  <2>6. Less(u, luaTableToJson(value[n], text), JsonNode(value[n], json))
    BY <1>1, <1>2, <2>1, <2>2, <2>4, <2>5, TableNear
  <2> QED  BY <1>4, <2>1, <2>2, <2>6
<1>7. ASSUME ~PlainIs(value) PROVE text[1] # json[1]
  <2>1. PICK n \in 1 .. Len(value) : value[n].kind \notin ScalarKinds /\ Less(u, text[n], json[n])
    BY <1>6, <1>7, ValueFacts DEF PlainIs
  <2>2. Less(u, text[1], json[1])
    BY <1>1, <1>5, <2>1, LessAtRoot
  <2> QED  BY <1>1, <2>2, LessDiffers
<1>8. "raise" \notin ToSet(json[1])
  BY <1>1 DEF Near
<1> QED  BY <1>3, <1>7, <1>8 DEF text, json

-----------------------------------------------------------------------------
(* Python.                                                                 *)

(* Scalars, where they are dumped themselves or in a list, and in a dict.  *)
LEMMA PythonScalarNear ==
  ASSUME NEW value, IsValue(value, PythonKinds), NEW n \in 1 .. Len(value), NEW u, u = PythonUnwritten,
         value[n].kind \in ScalarKinds
  PROVE  /\ Near(u, PythonText(value)[n], Json(value)[n])
         /\ value[n].kind # "number" => Less(u, PythonText(value)[n], Json(value)[n])
         /\ value[n].kind = "number" => PythonText(value)[n] = Json(value)[n]
         /\ value[n].kind = "text" => Json(value)[n] = Quote("text") /\ Near(u, Quote("text"), Quote("text"))
         /\ value[n].kind = "special" => Near(u, Quote("special"), Json(value)[n])
                                         /\ Less(u, Quote("special"), Json(value)[n])
<1> DEFINE text == PythonText(value)
           json == Json(value)
<1>1. text[n] = PythonValue(value, value[n], text) /\ json[n] = JsonOf(value[n], json)
  BY TextsAre
<1>2. Unwritten(u) /\ "boolean" \in u
  BY UnwrittenAre
<1>3. \A t \in Words : /\ << t >> \in Seq(Tokens) /\ ToSet(<< t >>) = {t}
                       /\ Quote(t) \in Seq(Tokens) /\ ToSet(Quote(t)) = {"'", t}
  BY SmallTexts, SmallSets DEF Tokens
<1> HIDE DEF text, json
<1>4. {"number", "rounded", "double", "unfit", "boolean", "text", "special", "escaped", "bytes", "null", "raise"}
        \subseteq Words
  BY DEF Words
<1>5. CASE value[n].kind = "number"
  <2>1. PICK a \in Seq(Tokens) : a = <<"number">> /\ ToSet(a) = {"number"}
    BY <1>3, <1>4
  <2>2. text[n] = a /\ json[n] = a
    BY <1>1, <1>5, <2>1 DEF PythonValue, JsonOf
  <2>3. Near(u, a, a)
    BY <1>2, <2>1, NearSame DEF Unwritten
  <2> QED  BY <1>5, <2>2, <2>3 DEF text, json
<1>6. CASE value[n].kind = "text"
  <2>1. PICK a \in Seq(Tokens) : a = <<"text">> /\ ToSet(a) = {"text"}
    BY <1>3, <1>4
  <2>2. PICK b \in Seq(Tokens) : b = Quote("text") /\ ToSet(b) = {"'", "text"}
    BY <1>3, <1>4
  <2>3. text[n] = a /\ json[n] = b
    BY <1>1, <1>6, <2>1, <2>2 DEF PythonValue, JsonOf
  <2>4. Near(u, b, b)
    BY <1>2, <2>2, NearSame DEF Unwritten
  <2>5. ToSet(a) \cap Marks = {} /\ ToSet(b) \cap Marks # {}
    BY <2>1, <2>2 DEF Marks
  <2>6. Near(u, a, b) /\ Less(u, a, b)
    BY <1>2, <2>1, <2>2, <2>5, NearUnmarked DEF Unwritten
  <2> QED  BY <1>6, <2>2, <2>3, <2>4, <2>6 DEF text, json
<1>7. CASE value[n].kind = "special"
  <2>1. PICK a \in Seq(Tokens) : a = <<"special">> /\ ToSet(a) = {"special"}
    BY <1>3, <1>4
  <2>2. PICK b \in Seq(Tokens) : b = Quote("escaped") /\ ToSet(b) = {"'", "escaped"}
    BY <1>3, <1>4
  <2>3. PICK c \in Seq(Tokens) : c = Quote("special") /\ ToSet(c) = {"'", "special"}
    BY <1>3, <1>4
  <2>4. text[n] = a /\ json[n] = b
    BY <1>1, <1>7, <2>1, <2>2 DEF PythonValue, JsonOf
  <2>5. Near(u, a, b) /\ Less(u, a, b) /\ Near(u, c, b) /\ Less(u, c, b)
    BY <1>2, <2>1, <2>2, <2>3, NearLess DEF Unwritten
  <2> QED  BY <1>7, <2>3, <2>4, <2>5 DEF text, json
<1>8. CASE value[n].kind \in {"double", "unfit", "boolean", "bytes", "opaque"}
  <2>1. /\ text[n] \in Seq(Tokens) /\ ToSet(text[n]) \subseteq {"rounded", "number", "'", "bytes", "raise"}
        /\ json[n] \in Seq(Tokens)
        /\ \E t \in {"double", "unfit", "boolean", "null"} : ToSet(json[n]) = {t}
    <3>1. CASE value[n].kind = "double"
      <4>1. text[n] = <<"rounded">> /\ json[n] = <<"double">>
        BY <1>1, <3>1 DEF PythonValue, JsonOf
      <4> QED  BY <1>3, <1>4, <4>1
    <3>2. CASE value[n].kind = "boolean"
      <4>1. text[n] = <<"number">> /\ json[n] = <<"boolean">>
        BY <1>1, <3>2 DEF PythonValue, JsonOf
      <4> QED  BY <1>3, <1>4, <4>1
    <3>3. CASE value[n].kind = "bytes"
      <4>1. text[n] = Quote("bytes") /\ json[n] = <<"null">>
        BY <1>1, <3>3 DEF PythonValue, JsonOf
      <4> QED  BY <1>3, <1>4, <4>1
    <3>4. CASE value[n].kind = "opaque"
      <4>1. text[n] = <<"raise">> /\ json[n] = <<"null">>
        BY <1>1, <3>4 DEF PythonValue, JsonOf
      <4> QED  BY <1>3, <1>4, <4>1
    <3>5. CASE value[n].kind = "unfit"
      <4>1. text[n] = <<"raise">> /\ json[n] = <<"unfit">>
        BY <1>1, <3>5 DEF PythonValue, JsonOf
      <4> QED  BY <1>3, <1>4, <4>1
    <3> QED  BY <1>8, <3>1, <3>2, <3>3, <3>4, <3>5
  <2>2. /\ ToSet(text[n]) \cap u = {} /\ ToSet(json[n]) \cap u # {}
        /\ "raise" \notin ToSet(json[n]) /\ "fail" \notin ToSet(json[n])
    BY <1>2, <2>1 DEF Unwritten
  <2>3. Near(u, text[n], json[n]) /\ Less(u, text[n], json[n])
    BY <2>1, <2>2, NearLess
  <2> QED  BY <1>8, <2>3 DEF text, json
<1> QED  BY <1>5, <1>6, <1>7, <1>8 DEF ScalarKinds

(* A dict: f gives what is written for the members.                        *)
LEMMA DictNear ==
  ASSUME NEW value, IsValue(value, PythonKinds), NEW n \in 1 .. Len(value), value[n].kind = "dict",
         NEW u, Unwritten(u), NEW text, NEW json, Behind(value, n, text),
         \A i \in 1 .. Len(value[n].members) :
           Near(u, DictValue(value[value[n].members[i].id], text[value[n].members[i].id]),
                json[value[n].members[i].id])
  PROVE  /\ Near(u, pythonDictToJson(value, value[n], text), JsonNode(value[n], json))
         /\ \/ \E i \in 1 .. Len(value[n].members) :
                 Less(u, DictValue(value[value[n].members[i].id], text[value[n].members[i].id]),
                      json[value[n].members[i].id])
            \/ ~(MemberKeys(value[n]) \subseteq NameKeys)
            => Less(u, pythonDictToJson(value, value[n], text), JsonNode(value[n], json))
<1>1. PICK k \in Nat : k = Len(value[n].members) /\ DOMAIN value[n].members = 1 .. k
  BY ValueFacts
<1>2. ~IsArray(value[n])
  BY DEF IsArray
<1>3. PICK a \in [1 .. k -> Seq(Tokens)] : a = DictParts(value, value[n], text)
  BY <1>1, PartsTyped
<1>4. PICK b : b = JsonParts(value[n], json)
  OBVIOUS
<1>5. \A i \in 1 .. k : a[i] = DictPart(value, value[n], text, i) /\ b[i] = JsonPart(value[n], json, i)
  BY <1>1, <1>3, <1>4 DEF DictParts, JsonParts
<1>6. ASSUME NEW i \in 1 .. k
      PROVE  /\ Near(u, a[i], b[i])
             /\ Less(u, DictValue(value[value[n].members[i].id], text[value[n].members[i].id]),
                     json[value[n].members[i].id]) => Less(u, a[i], b[i])
             /\ value[n].members[i].key \notin NameKeys => Less(u, a[i], b[i])
  <2>1. PICK key \in Keys : key = value[n].members[i].key
    BY <1>1, ValueFacts
  <2>2. PICK t : t = DictValue(value[value[n].members[i].id], text[value[n].members[i].id])
    OBVIOUS
  <2>3. PICK j : j = json[value[n].members[i].id]
    OBVIOUS
  <2>4. PICK s \in Seq(Tokens) : s = Separator(i)
    BY SmallTexts
  <2>5. PICK q \in Seq(Tokens) : q = Quote(key) \o <<":">>
    BY SmallTexts
  <2>6. PICK d : d = DictKey(key)
    OBVIOUS
  <2>7. Near(u, t, j)
    BY <1>1, <2>2, <2>3
  <2>8. Near(u, s, s) /\ Near(u, d, q) /\ (key \notin NameKeys => Less(u, d, q))
    BY <2>4, <2>5, <2>6, PiecesNear, KeysNear
  <2>9. a[i] = (s \o d) \o t
    BY <1>5, <2>1, <2>2, <2>4, <2>6 DEF DictPart
  <2>10. b[i] = (s \o q) \o j
    BY <1>2, <1>5, <2>1, <2>3, <2>4, <2>5, KeyBehind DEF JsonPart
  <2>11. Near(u, s \o d, s \o q) /\ (Less(u, d, q) => Less(u, s \o d, s \o q))
    BY <2>8, NearConcat
  <2>12. /\ Near(u, (s \o d) \o t, (s \o q) \o j)
         /\ Less(u, s \o d, s \o q) \/ Less(u, t, j) => Less(u, (s \o d) \o t, (s \o q) \o j)
    BY <2>7, <2>11, NearConcat
  <2> QED  BY <2>1, <2>2, <2>3, <2>8, <2>9, <2>10, <2>11, <2>12
<1>7. b \in [1 .. k -> Seq(Tokens)]
  <2>1. b = [i \in 1 .. k |-> b[i]]
    BY <1>1, <1>4 DEF JsonParts
  <2>2. \A i \in 1 .. k : b[i] \in Seq(Tokens)
    BY <1>6 DEF Near
  <2> QED  BY <2>1, <2>2
<1>8. Near(u, Joined(a), Joined(b)) /\ ((\E i \in 1 .. k : Less(u, a[i], b[i])) => Less(u, Joined(a), Joined(b)))
  BY <1>6, <1>7, JoinedNear
<1>9. PICK x : x = Joined(a)
  OBVIOUS
<1>10. PICK y : y = Joined(b)
  OBVIOUS
<1>11. PICK o : o = <<"{">>
  OBVIOUS
<1>12. PICK c : c = <<"}">>
  OBVIOUS
<1>13. /\ pythonDictToJson(value, value[n], text) = (o \o x) \o c
       /\ JsonNode(value[n], json) = (o \o y) \o c
  BY <1>2, <1>3, <1>4, <1>9, <1>10, <1>11, <1>12, NodeTexts DEF JsonNode
<1>14. Near(u, o, o) /\ Near(u, c, c)
  BY <1>11, <1>12, PiecesNear
<1>15. Near(u, o \o x, o \o y) /\ (Less(u, x, y) => Less(u, o \o x, o \o y))
  BY <1>8, <1>9, <1>10, <1>14, NearConcat
<1>16. Near(u, (o \o x) \o c, (o \o y) \o c) /\ (Less(u, o \o x, o \o y) => Less(u, (o \o x) \o c, (o \o y) \o c))
  BY <1>14, <1>15, NearConcat
<1>17. ASSUME ~(MemberKeys(value[n]) \subseteq NameKeys) PROVE Less(u, x, y)
  <2>1. PICK i \in 1 .. k : value[n].members[i].key \notin NameKeys
    BY <1>1, <1>17 DEF MemberKeys
  <2> QED  BY <1>6, <1>8, <1>9, <1>10, <2>1
<1>18. ASSUME NEW i \in 1 .. k,
              Less(u, DictValue(value[value[n].members[i].id], text[value[n].members[i].id]),
                   json[value[n].members[i].id])
       PROVE  Less(u, x, y)
  BY <1>6, <1>8, <1>9, <1>10, <1>18
<1> QED  BY <1>1, <1>13, <1>15, <1>16, <1>17, <1>18

(* A list, or a tuple as a list. *)
LEMMA ListNear ==
  ASSUME NEW value, IsValue(value, PythonKinds), NEW n \in 1 .. Len(value), value[n].kind \in {"list", "tuple"},
         NEW u, Unwritten(u), NEW text, NEW json, AllNear(value, n, u, text, json)
  PROVE  /\ Near(u, pythonListToJson(value[n], text), JsonNode(value[n], json))
         /\ \/ \E i \in 1 .. Len(value[n].members) :
                 Less(u, text[value[n].members[i].id], json[value[n].members[i].id])
            \/ Len(value[n].members) > 1
            => Less(u, pythonListToJson(value[n], text), JsonNode(value[n], json))
<1>1. PICK k \in Nat : k = Len(value[n].members) /\ DOMAIN value[n].members = 1 .. k
  BY ValueFacts
<1>2. IsArray(value[n])
  BY DEF IsArray
<1>3. Behind(value, n, text) /\ Behind(value, n, json)
  BY DEF AllNear, Near, Behind
<1>4. PICK a \in [1 .. k -> Seq(Tokens)] : a = ListParts(value[n], text)
  BY <1>1, <1>3, PartsTyped
<1>5. PICK b \in [1 .. k -> Seq(Tokens)] : b = JsonParts(value[n], json)
  BY <1>1, <1>3, PartsTyped
<1>6. \A i \in 1 .. k : a[i] = ListPart(value[n], text, i) /\ b[i] = JsonPart(value[n], json, i)
  BY <1>1, <1>4, <1>5 DEF ListParts, JsonParts
<1>7. ASSUME NEW i \in 1 .. k
      PROVE  /\ Near(u, a[i], b[i])
             /\ Less(u, text[value[n].members[i].id], json[value[n].members[i].id]) => Less(u, a[i], b[i])
             /\ i > 1 => Less(u, a[i], b[i])
  <2>1. PICK m \in n + 1 .. Len(value) : m = value[n].members[i].id
    BY <1>1, ValueFacts
  <2>2. Near(u, text[m], json[m])
    BY DEF AllNear
  <2>3. PICK e : e = <<>>
    OBVIOUS
  <2>4. PICK s : s = Separator(i)
    OBVIOUS
  <2>5. a[i] = e \o text[m] /\ b[i] = s \o json[m]
    BY <1>2, <1>6, <2>1, <2>3, <2>4 DEF ListPart, ListSeparator, JsonPart
  <2>6. Near(u, e, s)
    BY <2>3, <2>4, PiecesNear
  <2>7. i > 1 => Less(u, e, s)
    <3>1. i \in Nat
      OBVIOUS
    <3>2. i \in Nat /\ i > 1 => Less(u, <<>>, Separator(i))
      BY PiecesNear
    <3> QED  BY <2>3, <2>4, <3>1, <3>2
  <2>8. /\ Near(u, e \o text[m], s \o json[m])
        /\ Less(u, e, s) \/ Less(u, text[m], json[m]) => Less(u, e \o text[m], s \o json[m])
    BY <2>2, <2>6, NearConcat
  <2> QED  BY <2>1, <2>5, <2>7, <2>8
<1>8. Near(u, Joined(a), Joined(b)) /\ ((\E i \in 1 .. k : Less(u, a[i], b[i])) => Less(u, Joined(a), Joined(b)))
  BY <1>7, JoinedNear
<1>9. PICK x : x = Joined(a)
  OBVIOUS
<1>10. PICK y : y = Joined(b)
  OBVIOUS
<1>11. PICK o : o = <<"[">>
  OBVIOUS
<1>12. PICK c : c = <<"]">>
  OBVIOUS
<1>13. /\ pythonListToJson(value[n], text) = (o \o x) \o c
       /\ JsonNode(value[n], json) = (o \o y) \o c
  BY <1>2, <1>4, <1>5, <1>9, <1>10, <1>11, <1>12, NodeTexts DEF JsonNode
<1>14. Near(u, o, o) /\ Near(u, c, c)
  BY <1>11, <1>12, PiecesNear
<1>15. Near(u, o \o x, o \o y) /\ (Less(u, x, y) => Less(u, o \o x, o \o y))
  BY <1>8, <1>9, <1>10, <1>14, NearConcat
<1>16. Near(u, (o \o x) \o c, (o \o y) \o c) /\ (Less(u, o \o x, o \o y) => Less(u, (o \o x) \o c, (o \o y) \o c))
  BY <1>14, <1>15, NearConcat
<1>17. ASSUME k > 1 PROVE Less(u, x, y)
  <2>1. 2 \in 1 .. k /\ 2 > 1
    BY <1>17
  <2> QED  BY <1>7, <1>8, <1>9, <1>10, <2>1
<1>18. ASSUME NEW i \in 1 .. k, Less(u, text[value[n].members[i].id], json[value[n].members[i].id])
       PROVE  Less(u, x, y)
  BY <1>7, <1>8, <1>9, <1>10, <1>18
<1> QED  BY <1>1, <1>13, <1>15, <1>16, <1>17, <1>18

(* What is written for the members of a dict. *)
LEMMA DictValuesNear ==
  ASSUME NEW value, IsValue(value, PythonKinds), NEW n \in 1 .. Len(value), NEW u, u = PythonUnwritten,
         Near(u, PythonText(value)[n], Json(value)[n])
  PROVE  /\ Near(u, DictValue(value[n], PythonText(value)[n]), Json(value)[n])
         /\ value[n].kind = "text" => DictValue(value[n], PythonText(value)[n]) = Json(value)[n]
         /\ value[n].kind \notin {"text", "special"} =>
              DictValue(value[n], PythonText(value)[n]) = PythonText(value)[n]
         /\ value[n].kind = "special" => Less(u, DictValue(value[n], PythonText(value)[n]), Json(value)[n])
<1>1. PICK t : t = PythonText(value)[n]
  OBVIOUS
<1>2. PICK j : j = Json(value)[n]
  OBVIOUS
<1>3. CASE value[n].kind = "text"
  <2>1. DictValue(value[n], t) = Quote("text")
    BY <1>3 DEF DictValue
  <2>2. j = Quote("text") /\ Near(u, Quote("text"), Quote("text"))
    BY <1>2, <1>3, PythonScalarNear DEF ScalarKinds
  <2> QED  BY <1>1, <1>2, <1>3, <2>1, <2>2
<1>4. CASE value[n].kind = "special"
  <2>1. DictValue(value[n], t) = Quote("special")
    BY <1>4 DEF DictValue
  <2>2. Near(u, Quote("special"), j) /\ Less(u, Quote("special"), j)
    BY <1>2, <1>4, PythonScalarNear DEF ScalarKinds
  <2> QED  BY <1>1, <1>2, <1>4, <2>1, <2>2
<1>5. CASE value[n].kind \notin {"text", "special"}
  <2>1. DictValue(value[n], t) = t
    BY <1>5 DEF DictValue
  <2> QED  BY <1>1, <1>2, <1>5, <2>1
<1> QED  BY <1>3, <1>4, <1>5

(* A node of Python, when it is true of all behind it. *)
LEMMA PythonNodeNear ==
  ASSUME NEW value, IsValue(value, PythonKinds), NEW n \in 1 .. Len(value), NEW u, u = PythonUnwritten,
         AllNear(value, n, u, PythonText(value), Json(value))
  PROVE  /\ Near(u, PythonText(value)[n], Json(value)[n])
         /\ value[n].kind = "tuple" => Less(u, PythonText(value)[n], Json(value)[n])
<1> DEFINE text == PythonText(value)
           json == Json(value)
<1>1. text[n] = PythonValue(value, value[n], text) /\ json[n] = JsonOf(value[n], json)
  BY TextsAre
<1>2. Unwritten(u)
  BY UnwrittenAre
<1>3. AllNear(value, n, u, text, json)
  OBVIOUS
<1>4. value[n].kind \in ScalarKinds => Near(u, text[n], json[n])
  BY PythonScalarNear
<1>5. \A i \in 1 .. Len(value[n].members) :
        Near(u, DictValue(value[value[n].members[i].id], text[value[n].members[i].id]),
             json[value[n].members[i].id])
  <2> SUFFICES ASSUME NEW i \in 1 .. Len(value[n].members)
               PROVE  Near(u, DictValue(value[value[n].members[i].id], text[value[n].members[i].id]),
                           json[value[n].members[i].id])
    OBVIOUS
  <2>1. PICK m \in n + 1 .. Len(value) : m = value[n].members[i].id
    BY ValueFacts
  <2>2. m \in 1 .. Len(value)
    BY ValueFacts
  <2>3. Near(u, PythonText(value)[m], Json(value)[m])
    BY DEF AllNear
  <2>4. Near(u, DictValue(value[m], PythonText(value)[m]), Json(value)[m])
    BY <2>2, <2>3, DictValuesNear
  <2> QED  BY <2>1, <2>4
<1> HIDE DEF text, json
<1>6. Behind(value, n, text)
  BY <1>3 DEF AllNear, Near, Behind
<1>7. value[n].kind \in PythonKinds
  BY ValueFacts
<1>8. CASE value[n].kind = "dict"
  <2>1. text[n] = pythonDictToJson(value, value[n], text)
    BY <1>1, <1>8 DEF PythonValue
  <2>2. json[n] = JsonNode(value[n], json)
    BY <1>1, <1>8, NodeTexts
  <2>3. Near(u, pythonDictToJson(value, value[n], text), JsonNode(value[n], json))
    BY <1>2, <1>5, <1>6, <1>8, DictNear
  <2> QED  BY <1>8, <2>1, <2>2, <2>3 DEF text, json
<1>9. CASE value[n].kind \in {"list", "tuple"}
  <2>1. json[n] = JsonNode(value[n], json)
    BY <1>1, <1>9, NodeTexts
  <2>2. Near(u, pythonListToJson(value[n], text), json[n])
    BY <1>2, <1>3, <1>9, <2>1, ListNear
  <2>3. value[n].kind = "list" => Near(u, text[n], json[n])
    BY <1>1, <2>2 DEF PythonValue
  <2>4. value[n].kind = "tuple" => Near(u, text[n], json[n]) /\ Less(u, text[n], json[n])
    <3>1. PICK a \in Seq(Tokens) : a = <<"raise">> /\ ToSet(a) = {"raise"}
      BY SmallTexts, SmallSets DEF Tokens, Words
    <3>2. json[n] \in Seq(Tokens) /\ "raise" \notin ToSet(json[n]) /\ "fail" \notin ToSet(json[n])
      BY <2>2 DEF Near
    <3>3. ToSet(a) \cap u = {} /\ "raise" \in ToSet(a)
      BY <1>2, <3>1 DEF Unwritten
    <3>4. Near(u, a, json[n]) /\ Less(u, a, json[n])
      BY <3>1, <3>2, <3>3, NearLess
    <3>5. value[n].kind = "tuple" => text[n] = a
      BY <1>1, <3>1 DEF PythonValue
    <3> QED  BY <3>4, <3>5
  <2> QED  BY <1>9, <2>3, <2>4 DEF text, json
<1> QED  BY <1>4, <1>7, <1>8, <1>9 DEF PythonKinds, ScalarKinds, text, json

LEMMA PythonNear ==
  ASSUME NEW value, IsValue(value, PythonKinds)
  PROVE  \A n \in 1 .. Len(value) :
           /\ Near(PythonUnwritten, PythonText(value)[n], Json(value)[n])
           /\ AllNear(value, n, PythonUnwritten, PythonText(value), Json(value))
           /\ value[n].kind = "tuple" => Less(PythonUnwritten, PythonText(value)[n], Json(value)[n])
<1>1. NearFromBehind(value, PythonUnwritten, PythonText(value), Json(value))
  BY PythonNodeNear DEF NearFromBehind
<1>2. Len(value) \in Nat
  BY ValueFacts
<1>3. \A n \in 1 .. Len(value) :
        /\ Near(PythonUnwritten, PythonText(value)[n], Json(value)[n])
        /\ AllNear(value, n, PythonUnwritten, PythonText(value), Json(value))
  BY <1>1, <1>2, NearEverywhere
<1> QED  BY <1>3, PythonNodeNear

LEMMA PythonPlain ==
  ASSUME NEW value, IsValue(value, PythonKinds), PlainIs(value)
  PROVE  \A n \in 1 .. Len(value) :
           value[n].kind \in {"number", "dict", "list"} => PythonText(value)[n] = Json(value)[n]
<1> DEFINE text == PythonText(value)
           json == Json(value)
           AsJson(m) == value[m].kind \in {"number", "dict", "list"} => text[m] = json[m]
           T == {k \in 1 .. Len(value) + 1 : \A m \in k .. Len(value) : AsJson(m)}
<1>1. /\ Len(value) \in Nat
      /\ \A n \in 1 .. Len(value) : /\ text[n] = PythonValue(value, value[n], text)
                                    /\ json[n] = JsonOf(value[n], json)
                                    /\ json[n] \in Seq(Tokens)
  BY ValueFacts, TextsAre
<1>2. \A n \in 1 .. Len(value) :
        /\ value[n].kind = "text" => DictValue(value[n], text[n]) = json[n]
        /\ value[n].kind \in {"number", "dict", "list"} => DictValue(value[n], text[n]) = text[n]
  BY PythonNear, DictValuesNear
<1>3. \A n \in 1 .. Len(value) : value[n].kind = "number" => text[n] = json[n]
  BY PythonScalarNear DEF ScalarKinds
<1> HIDE DEF text, json
<1>4. ASSUME NEW n \in 1 .. Len(value), value[n].kind = "dict", \A m \in n + 1 .. Len(value) : AsJson(m)
      PROVE  text[n] = json[n]
  <2>1. PlainNode(value, value[n])
    BY <1>4, ValueFacts DEF PlainIs, ScalarKinds
  <2>2. PICK k \in Nat : k = Len(value[n].members) /\ DOMAIN value[n].members = 1 .. k
    BY ValueFacts
  <2>3. ~IsArray(value[n])
    BY <1>4 DEF IsArray
  <2>4. ASSUME NEW i \in 1 .. k
        PROVE  DictPart(value, value[n], text, i) = JsonPart(value[n], json, i)
    <3>1. PICK key \in Keys : key = value[n].members[i].key
      BY <2>2, ValueFacts
    <3>2. PICK m \in n + 1 .. Len(value) : m = value[n].members[i].id
      BY <2>2, ValueFacts
    <3>3. m \in 1 .. Len(value)
      BY <1>1
    <3>4. value[m].kind \in {"number", "text", "dict", "list"}
      BY <1>4, <2>1, <2>2, <3>2 DEF PlainNode, PlainItems
    <3>5. DictValue(value[m], text[m]) = json[m]
      BY <1>2, <1>4, <3>3, <3>4
    <3>6. PICK t \in Seq(Tokens) : t = json[m]
      BY <1>1, <3>3
    <3>7. PICK s \in Seq(Tokens) : s = Separator(i)
      BY SmallTexts
    <3>8. key \in NameKeys
      BY <1>4, <2>1, <2>2, <3>1 DEF PlainNode, MemberKeys
    <3>9. DictPart(value, value[n], text, i) = s \o (Quote(key) \o <<":">>) \o t
      BY <3>1, <3>2, <3>5, <3>6, <3>7, <3>8 DEF DictPart, DictKey
    <3>10. JsonPart(value[n], json, i) = s \o (Quote(key) \o <<":">>) \o t
      BY <2>3, <3>1, <3>2, <3>6, <3>7, KeyBehind DEF JsonPart
    <3> QED  BY <3>9, <3>10
  <2>5. DictParts(value, value[n], text) = JsonParts(value[n], json)
    BY <2>2, <2>4 DEF DictParts, JsonParts
  <2>6. json[n] = JsonNode(value[n], json)
    BY <1>1, <1>4, NodeTexts
  <2>7. text[n] = pythonDictToJson(value, value[n], text)
    BY <1>1, <1>4 DEF PythonValue
  <2> QED  BY <2>3, <2>5, <2>6, <2>7, NodeTexts DEF JsonNode
<1>5. ASSUME NEW n \in 1 .. Len(value), value[n].kind = "list", \A m \in n + 1 .. Len(value) : AsJson(m)
      PROVE  text[n] = json[n]
  <2>1. PlainNode(value, value[n])
    BY <1>5, ValueFacts DEF PlainIs, ScalarKinds
  <2>2. PICK k \in Nat : k = Len(value[n].members) /\ DOMAIN value[n].members = 1 .. k
    BY ValueFacts
  <2>3. IsArray(value[n])
    BY <1>5 DEF IsArray
  <2>4. ASSUME NEW i \in 1 .. k
        PROVE  ListPart(value[n], text, i) = JsonPart(value[n], json, i)
    <3>1. PICK m \in n + 1 .. Len(value) : m = value[n].members[i].id
      BY <2>2, ValueFacts
    <3>2. k <= 1
      BY <1>5, <2>1, <2>2 DEF PlainNode
    <3>3. Separator(i) = <<>> /\ ListSeparator(i) = <<>>
      BY <2>2, <3>2 DEF Separator, ListSeparator
    <3>4. value[m].kind \in {"number", "dict", "list"}
      BY <1>5, <2>1, <2>2, <3>1 DEF PlainNode, PlainItems
    <3>5. text[m] = json[m]
      BY <1>5, <3>4
    <3> QED  BY <2>3, <3>1, <3>3, <3>5 DEF ListPart, JsonPart
  <2>5. ListParts(value[n], text) = JsonParts(value[n], json)
    BY <2>2, <2>4 DEF ListParts, JsonParts
  <2>6. json[n] = JsonNode(value[n], json)
    BY <1>1, <1>5, NodeTexts
  <2>7. text[n] = pythonListToJson(value[n], text)
    BY <1>1, <1>5 DEF PythonValue
  <2> QED  BY <2>3, <2>5, <2>6, <2>7, NodeTexts DEF JsonNode
<1>6. Len(value) + 1 \in T
  BY <1>1
<1>7. ASSUME NEW k \in 1 .. Len(value), k + 1 \in T PROVE k \in T
  <2>1. \A m \in k + 1 .. Len(value) : AsJson(m)
    BY <1>7
  <2>2. AsJson(k)
    BY <1>3, <1>4, <1>5, <2>1
  <2>3. k \in 1 .. Len(value) + 1 /\ \A m \in k .. Len(value) : m = k \/ m \in k + 1 .. Len(value)
    BY <1>1
  <2>4. \A m \in k .. Len(value) : AsJson(m)
    BY <2>1, <2>2, <2>3
  <2> QED  BY <2>3, <2>4
<1> HIDE DEF T
<1>8. 1 \in T
  BY <1>1, <1>6, <1>7, Downward
<1> QED  BY <1>8 DEF T, text, json

(* What is no plain item of a dict or list. *)
LEMMA PythonItemLess ==
  ASSUME NEW value, IsValue(value, PythonKinds), NEW n \in 1 .. Len(value), NEW u, u = PythonUnwritten,
         NEW kind \in {"dict", "list"}, value[n].kind \notin PlainItems(kind)
  PROVE  /\ kind = "list" => Less(u, PythonText(value)[n], Json(value)[n])
         /\ kind = "dict" => Less(u, DictValue(value[n], PythonText(value)[n]), Json(value)[n])
<1>1. value[n].kind \in PythonKinds
  BY ValueFacts
<1>2. Near(u, PythonText(value)[n], Json(value)[n])
  BY PythonNear
<1>3. value[n].kind \notin {"number", "dict", "list"} => Less(u, PythonText(value)[n], Json(value)[n])
  <2>1. CASE value[n].kind = "tuple"
    BY <2>1, PythonNear
  <2>2. CASE value[n].kind \in ScalarKinds
    BY <2>2, PythonScalarNear
  <2> QED  BY <1>1, <2>1, <2>2 DEF PythonKinds
<1>4. CASE kind = "list"
  <2>1. PlainItems(kind) = {"number", "dict", "list"}
    BY <1>4 DEF PlainItems
  <2> QED  BY <1>3, <1>4, <2>1
<1>5. CASE kind = "dict"
  <2>1. PlainItems(kind) = {"number", "text", "dict", "list"}
    BY <1>5 DEF PlainItems
  <2>2. CASE value[n].kind = "special"
    BY <1>2, <1>5, <2>2, DictValuesNear
  <2>3. CASE value[n].kind # "special"
    <3>1. value[n].kind \notin {"text", "special"} /\ value[n].kind \notin {"number", "dict", "list"}
      BY <2>1, <2>3
    <3>2. DictValue(value[n], PythonText(value)[n]) = PythonText(value)[n]
      BY <3>1 DEF DictValue
    <3>3. Less(u, PythonText(value)[n], Json(value)[n])
      BY <1>3, <3>1
    <3> QED  BY <1>5, <3>2, <3>3
  <2> QED  BY <2>2, <2>3
<1> QED  BY <1>4, <1>5

(* A dict, list or tuple with an item that says less, or that is not plain. *)
LosesHere(value, n) ==
  \/ ~PlainNode(value, value[n])
  \/ \E i \in 1 .. Len(value[n].members) :
       /\ value[value[n].members[i].id].kind \notin ScalarKinds
       /\ Less(PythonUnwritten, PythonText(value)[value[n].members[i].id], Json(value)[value[n].members[i].id])

LEMMA PythonContainerLess ==
  ASSUME NEW value, IsValue(value, PythonKinds), NEW n \in 1 .. Len(value), NEW u, u = PythonUnwritten,
         value[n].kind \notin ScalarKinds, LosesHere(value, n)
  PROVE  Less(u, PythonText(value)[n], Json(value)[n])
<1> DEFINE text == PythonText(value)
           json == Json(value)
           Item(i) == value[n].members[i].id
<1>1. /\ text[n] = PythonValue(value, value[n], text) /\ json[n] = JsonOf(value[n], json)
      /\ AllNear(value, n, u, text, json)
  <2>1. text[n] = PythonValue(value, value[n], text) /\ json[n] = JsonOf(value[n], json)
    BY TextsAre
  <2>2. AllNear(value, n, u, text, json)
    BY PythonNear
  <2> QED  BY <2>1, <2>2
<1>2. Unwritten(u)
  BY UnwrittenAre
<1>3. value[n].kind \in {"dict", "list", "tuple"}
  <2>1. value[n].kind \in PythonKinds
    BY ValueFacts
  <2> QED  BY <2>1 DEF PythonKinds
<1>4. /\ DOMAIN value[n].members = 1 .. Len(value[n].members)
      /\ Len(value[n].members) \in Nat
      /\ \A i \in 1 .. Len(value[n].members) : Item(i) \in 1 .. Len(value)
  BY ValueFacts
<1>5. \A i \in 1 .. Len(value[n].members) :
        /\ Near(u, text[Item(i)], json[Item(i)])
        /\ Near(u, DictValue(value[Item(i)], text[Item(i)]), json[Item(i)])
        /\ value[Item(i)].kind \notin ScalarKinds =>
             DictValue(value[Item(i)], text[Item(i)]) = text[Item(i)]
  <2> SUFFICES ASSUME NEW m \in 1 .. Len(value)
               PROVE  /\ Near(u, text[m], json[m])
                      /\ Near(u, DictValue(value[m], text[m]), json[m])
                      /\ value[m].kind \notin ScalarKinds => DictValue(value[m], text[m]) = text[m]
    BY <1>4
  <2>1. Near(u, text[m], json[m])
    BY PythonNear
  <2>2. value[m].kind \notin ScalarKinds => value[m].kind \notin {"text", "special"}
    BY DEF ScalarKinds
  <2> QED  BY <2>1, <2>2, DictValuesNear
<1>6. \A i \in 1 .. Len(value[n].members) :
        value[n].kind \in {"dict", "list"} /\ value[Item(i)].kind \notin PlainItems(value[n].kind) =>
          /\ value[n].kind = "list" => Less(u, text[Item(i)], json[Item(i)])
          /\ value[n].kind = "dict" => Less(u, DictValue(value[Item(i)], text[Item(i)]), json[Item(i)])
  <2> SUFFICES ASSUME NEW i \in 1 .. Len(value[n].members),
                      value[n].kind \in {"dict", "list"}, value[Item(i)].kind \notin PlainItems(value[n].kind)
               PROVE  /\ value[n].kind = "list" => Less(u, text[Item(i)], json[Item(i)])
                      /\ value[n].kind = "dict" => Less(u, DictValue(value[Item(i)], text[Item(i)]), json[Item(i)])
    OBVIOUS
  <2>1. PICK m \in 1 .. Len(value) : m = Item(i)
    BY <1>4
  <2> QED  BY <2>1, PythonItemLess
<1> HIDE DEF text, json
<1>7. CASE value[n].kind = "dict"
  <2>1. \/ \E i \in 1 .. Len(value[n].members) : value[Item(i)].kind \notin PlainItems("dict")
        \/ ~(MemberKeys(value[n]) \subseteq NameKeys)
        \/ \E i \in 1 .. Len(value[n].members) :
             value[Item(i)].kind \notin ScalarKinds /\ Less(u, text[Item(i)], json[Item(i)])
    <3>1. PlainNode(value, value[n]) <=>
            /\ \A i \in 1 .. Len(value[n].members) : value[Item(i)].kind \in PlainItems("dict")
            /\ MemberKeys(value[n]) \subseteq NameKeys
      BY <1>4, <1>7 DEF PlainNode
    <3>2. CASE ~PlainNode(value, value[n])
      BY <3>1, <3>2
    <3>3. CASE PlainNode(value, value[n])
      <4>1. PICK i \in 1 .. Len(value[n].members) :
                   /\ value[value[n].members[i].id].kind \notin ScalarKinds
                   /\ Less(PythonUnwritten, PythonText(value)[value[n].members[i].id],
                           Json(value)[value[n].members[i].id])
        BY <3>3 DEF LosesHere
      <4>2. Less(u, text[Item(i)], json[Item(i)])
        BY <4>1 DEF text, json
      <4> QED  BY <4>1, <4>2
    <3> QED  BY <3>2, <3>3
  <2>2. \/ \E i \in 1 .. Len(value[n].members) :
             Less(u, DictValue(value[Item(i)], text[Item(i)]), json[Item(i)])
        \/ ~(MemberKeys(value[n]) \subseteq NameKeys)
    BY <1>5, <1>6, <1>7, <2>1
  <2>3. Behind(value, n, text)
    BY <1>1 DEF AllNear, Near, Behind
  <2>4. Less(u, pythonDictToJson(value, value[n], text), JsonNode(value[n], json))
    BY <1>2, <1>5, <1>7, <2>2, <2>3, DictNear
  <2>5. text[n] = pythonDictToJson(value, value[n], text)
    BY <1>1, <1>7 DEF PythonValue
  <2>6. json[n] = JsonNode(value[n], json)
    BY <1>1, <1>7, NodeTexts
  <2> QED  BY <2>4, <2>5, <2>6 DEF text, json
<1>8. CASE value[n].kind = "list"
  <2>1. \/ \E i \in 1 .. Len(value[n].members) : value[Item(i)].kind \notin PlainItems("list")
        \/ Len(value[n].members) > 1
        \/ \E i \in 1 .. Len(value[n].members) : Less(u, text[Item(i)], json[Item(i)])
    <3>1. PlainNode(value, value[n]) <=>
            /\ \A i \in 1 .. Len(value[n].members) : value[Item(i)].kind \in PlainItems("list")
            /\ Len(value[n].members) <= 1
      <4>1. value[n].kind # "table" /\ value[n].kind # "dict"
        BY <1>8
      <4>2. \A i : i \in DOMAIN value[n].members <=> i \in 1 .. Len(value[n].members)
        BY <1>4
      <4> QED  BY <1>8, <4>1, <4>2 DEF PlainNode
    <3>2. CASE ~PlainNode(value, value[n])
      <4>1. Len(value[n].members) <= 1 \/ Len(value[n].members) > 1
        BY <1>4
      <4> QED  BY <3>1, <3>2, <4>1
    <3>3. CASE PlainNode(value, value[n])
      <4>1. PICK i \in 1 .. Len(value[n].members) :
                   Less(PythonUnwritten, PythonText(value)[value[n].members[i].id],
                        Json(value)[value[n].members[i].id])
        BY <3>3 DEF LosesHere
      <4>2. Less(u, text[Item(i)], json[Item(i)])
        BY <4>1 DEF text, json
      <4> QED  BY <4>2
    <3> QED  BY <3>2, <3>3
  <2>2. \/ \E i \in 1 .. Len(value[n].members) : Less(u, text[Item(i)], json[Item(i)])
        \/ Len(value[n].members) > 1
    BY <1>6, <1>8, <2>1
  <2>3. Less(u, pythonListToJson(value[n], text), JsonNode(value[n], json))
    BY <1>1, <1>2, <1>8, <2>2, ListNear
  <2>4. text[n] = pythonListToJson(value[n], text)
    BY <1>1, <1>8 DEF PythonValue
  <2>5. json[n] = JsonNode(value[n], json)
    BY <1>1, <1>8, NodeTexts
  <2> QED  BY <2>3, <2>4, <2>5 DEF text, json
<1>9. CASE value[n].kind = "tuple"
  BY <1>9, PythonNear
<1> QED  BY <1>3, <1>7, <1>8, <1>9

LEMMA PythonExact ==
  ASSUME NEW value, IsValue(value, PythonKinds), value[1].kind \in {"dict", "list"}
  PROVE  /\ PythonText(value)[1] = Json(value)[1] <=> PlainIs(value)
         /\ "raise" \notin ToSet(Json(value)[1])
<1> DEFINE u == PythonUnwritten
           text == PythonText(value)
           json == Json(value)
<1>1. /\ Len(value) \in Nat /\ 1 \in 1 .. Len(value) /\ DOMAIN value = 1 .. Len(value)
      /\ \A n \in 1 .. Len(value) : Near(u, text[n], json[n])
  BY ValueFacts, PythonNear
<1>2. PlainIs(value) => text[1] = json[1]
  BY <1>1, PythonPlain
<1>3. LessFromBehind(value, u, text, json)
  <2> SUFFICES ASSUME NEW n \in 2 .. Len(value), value[n].kind \notin ScalarKinds, Less(u, text[n], json[n])
               PROVE  \E p \in 1 .. n - 1 : value[p].kind \notin ScalarKinds /\ Less(u, text[p], json[p])
    BY DEF LessFromBehind
  <2>1. PICK p \in 1 .. n - 1 :
               /\ p \in 1 .. Len(value) /\ value[p].kind \notin ScalarKinds
               /\ \E i \in 1 .. Len(value[p].members) : value[p].members[i].id = n
    BY ParentIs
  <2>2. LosesHere(value, p)
    BY <2>1 DEF LosesHere
  <2>3. Less(u, text[p], json[p])
    BY <2>1, <2>2, PythonContainerLess
  <2> QED  BY <2>1, <2>3
<1>4. ASSUME NEW n \in 1 .. Len(value), value[n].kind \notin ScalarKinds, ~PlainNode(value, value[n])
      PROVE  Less(u, text[n], json[n])
  BY <1>4, PythonContainerLess DEF LosesHere
<1> HIDE DEF u, text, json
<1>5. ASSUME ~PlainIs(value) PROVE text[1] # json[1]
  <2>1. PICK n \in 1 .. Len(value) : value[n].kind \notin ScalarKinds /\ Less(u, text[n], json[n])
    BY <1>1, <1>4, <1>5 DEF PlainIs
  <2>2. Less(u, text[1], json[1])
    BY <1>1, <1>3, <2>1, LessAtRoot
  <2> QED  BY <1>1, <2>2, LessDiffers
<1>6. "raise" \notin ToSet(json[1])
  BY <1>1 DEF Near
<1> QED  BY <1>2, <1>5, <1>6 DEF text, json

-----------------------------------------------------------------------------
(* What json.dumps returns.                                                *)

Right(value, text) ==
  text = Json(Top(value))[1] <=> Top(value)[1].kind \notin ScalarKinds /\ PlainIs(Top(value))

Returned(text) == IF "raise" \in ToSet(text) THEN <<"raise">> ELSE text

LEMMA ReturnedRight ==
  ASSUME NEW text, NEW json, "raise" \notin ToSet(json)
  PROVE  Returned(text) = json <=> text = json
<1>1. "raise" \in ToSet(<<"raise">>)
  BY DEF ToSet
<1> QED  BY <1>1 DEF Returned

LEMMA LuaDumped ==
  ASSUME NEW value, IsValue(value, LuaKinds)
  PROVE  Right(value, dumps("lua", value))
<1>1. value[1].kind \in LuaKinds /\ 1 \in 1 .. Len(value)
  BY ValueFacts
<1>2. Top(value) = value
  BY <1>1 DEF Top, LuaKinds, ScalarKinds
<1>3. CASE value[1].kind = "table"
  <2>1. dumps("lua", value) = Returned(LuaText(value)[1])
    BY <1>3 DEF dumps, Returned
  <2>2. LuaText(value)[1] = Json(value)[1] <=> PlainIs(value)
    BY <1>3, LuaExact
  <2>3. "raise" \notin ToSet(Json(value)[1])
    BY <1>3, LuaExact
  <2>4. value[1].kind \notin ScalarKinds
    BY <1>3 DEF ScalarKinds
  <2> QED  BY <1>2, <2>1, <2>2, <2>3, <2>4, ReturnedRight DEF Right
<1>4. CASE value[1].kind # "table"
  <2>1. dumps("lua", value) = Returned(<<"raise">>)
    BY <1>4 DEF dumps, Returned
  <2>2. "raise" \notin ToSet(Json(value)[1]) /\ "raise" \in ToSet(<<"raise">>)
    BY <1>1, LuaNear DEF Near, ToSet
  <2>3. value[1].kind \in ScalarKinds
    BY <1>1, <1>4 DEF LuaKinds
  <2> QED  BY <1>2, <2>1, <2>2, <2>3 DEF Right, Returned
<1> QED  BY <1>3, <1>4

LEMMA TopIsValue ==
  ASSUME NEW value, IsValue(value, PythonKinds)
  PROVE  /\ IsValue(Top(value), PythonKinds)
         /\ Top(value)[1].kind = IF value[1].kind = "tuple" THEN "list" ELSE value[1].kind
<1>1. CASE value[1].kind # "tuple"
  BY <1>1 DEF Top
<1>2. CASE value[1].kind = "tuple"
  <2>1. PICK top : top = [value EXCEPT ![1].kind = "list"]
    OBVIOUS
  <2>2. /\ Len(value) \in Nat \ {0} /\ DOMAIN value = 1 .. Len(value) /\ 1 \in 1 .. Len(value)
        /\ value \in Seq(Nodes(PythonKinds))
    BY ValueFacts DEF IsValue
  <2>3. "list" \in PythonKinds /\ "list" \notin ScalarKinds /\ "list" # "table"
    BY DEF PythonKinds, ScalarKinds
  <2>4. \A n \in 1 .. Len(value) : value[n] \in Nodes(PythonKinds)
    BY <2>2, ElementOfSeq
  <2>5. \A n \in 1 .. Len(value) : /\ top[n].members = value[n].members /\ top[n].counted = value[n].counted
                                   /\ top[n].kind = IF n = 1 THEN "list" ELSE value[n].kind
                                   /\ top[n] \in Nodes(PythonKinds)
    BY <2>1, <2>2, <2>3, <2>4 DEF Nodes
  <2>6. DOMAIN top = 1 .. Len(value) /\ top = [n \in 1 .. Len(value) |-> top[n]]
    BY <2>1, <2>2
  <2>7. top \in Seq(Nodes(PythonKinds)) /\ Len(top) = Len(value) /\ top # <<>>
    <3>1. top \in [1 .. Len(value) -> Nodes(PythonKinds)]
      BY <2>5, <2>6
    <3> QED  BY <2>2, <3>1, FunctionIsSeq
  <2>8. \A n \in DOMAIN top : MemberKeys(top[n]) = MemberKeys(value[n])
    BY <2>5, <2>6 DEF MemberKeys
  <2>9. /\ \A n \in DOMAIN top :
             /\ \A i \in DOMAIN top[n].members : top[n].members[i].id \in n + 1 .. Len(top)
             /\ top[n].kind \in ScalarKinds => top[n].members = <<>>
             /\ n > 1 => \E p \in 1 .. n - 1 : \E i \in DOMAIN top[p].members : top[p].members[i].id = n
             /\ top[n].kind = "table" => top[n].counted \in Countable(MemberKeys(top[n]))
    <3> SUFFICES ASSUME NEW n \in 1 .. Len(value)
                 PROVE  /\ \A i \in DOMAIN top[n].members : top[n].members[i].id \in n + 1 .. Len(top)
                        /\ top[n].kind \in ScalarKinds => top[n].members = <<>>
                        /\ n > 1 => \E p \in 1 .. n - 1 :
                                      \E i \in DOMAIN top[p].members : top[p].members[i].id = n
                        /\ top[n].kind = "table" => top[n].counted \in Countable(MemberKeys(top[n]))
      BY <2>6
    <3>1. /\ \A i \in DOMAIN value[n].members : value[n].members[i].id \in n + 1 .. Len(value)
          /\ value[n].kind \in ScalarKinds => value[n].members = <<>>
          /\ n > 1 => \E p \in 1 .. n - 1 : \E i \in DOMAIN value[p].members : value[p].members[i].id = n
          /\ value[n].kind = "table" => value[n].counted \in Countable(MemberKeys(value[n]))
      BY <2>2 DEF IsValue
    <3>2. \A i \in DOMAIN top[n].members : top[n].members[i].id \in n + 1 .. Len(top)
      BY <2>5, <2>7, <3>1
    <3>3. top[n].kind \in ScalarKinds => top[n].members = <<>>
      BY <2>3, <2>5, <3>1
    <3>4. ASSUME n > 1
          PROVE  \E p \in 1 .. n - 1 : \E i \in DOMAIN top[p].members : top[p].members[i].id = n
      <4>1. PICK p \in 1 .. n - 1 : \E i \in DOMAIN value[p].members : value[p].members[i].id = n
        BY <3>1, <3>4
      <4>2. p \in 1 .. Len(value)
        BY <2>2
      <4> QED  BY <2>5, <4>1, <4>2
    <3>5. top[n].kind = "table" => top[n].counted \in Countable(MemberKeys(top[n]))
      BY <2>3, <2>5, <2>6, <2>8, <3>1
    <3> QED  BY <3>2, <3>3, <3>4, <3>5
  <2>10. IsValue(top, PythonKinds)
    BY <2>7, <2>9 DEF IsValue
  <2> QED  BY <1>2, <2>1, <2>2, <2>5, <2>10 DEF Top
<1> QED  BY <1>1, <1>2

LEMMA PythonDumped ==
  ASSUME NEW value, IsValue(value, PythonKinds)
  PROVE  Right(value, dumps("python", value))
<1>1. value[1].kind \in PythonKinds /\ 1 \in 1 .. Len(value)
  BY ValueFacts
<1>2. CASE value[1].kind \in {"dict", "list", "tuple"}
  <2>1. PICK top : top = Top(value)
    OBVIOUS
  <2>2. IsValue(top, PythonKinds) /\ top[1].kind \in {"dict", "list"}
    BY <1>2, <2>1, TopIsValue
  <2>3. dumps("python", value) = Returned(PythonText(top)[1])
    BY <1>2, <2>1 DEF dumps, Returned
  <2>4. PythonText(top)[1] = Json(top)[1] <=> PlainIs(top)
    BY <2>2, PythonExact
  <2>5. "raise" \notin ToSet(Json(top)[1])
    BY <2>2, PythonExact
  <2>6. top[1].kind \notin ScalarKinds
    BY <2>2 DEF ScalarKinds
  <2> QED  BY <2>1, <2>3, <2>4, <2>5, <2>6, ReturnedRight DEF Right
<1>3. CASE value[1].kind \in ScalarKinds
  <2>1. Top(value) = value
    BY <1>3 DEF Top, ScalarKinds
  <2>2. Json(value)[1] = JsonOf(value[1], Json(value))
    BY <1>1, TextsAre
  <2>3. Json(value)[1][1] \in {"null", "'", "number", "double", "unfit", "boolean"}
    <3>1. CASE value[1].kind \in {"opaque", "bytes"}
      <4>1. Json(value)[1] = <<"null">>
        BY <2>2, <3>1 DEF JsonOf
      <4> QED  BY <4>1
    <3>2. CASE value[1].kind = "special"
      <4>1. Json(value)[1] = <<"'", "escaped", "'">>
        BY <2>2, <3>2 DEF JsonOf, Quote
      <4> QED  BY <4>1
    <3>3. CASE value[1].kind = "text"
      <4>1. Json(value)[1] = <<"'", "text", "'">>
        BY <2>2, <3>3 DEF JsonOf, Quote
      <4> QED  BY <4>1
    <3>4. CASE value[1].kind \in {"number", "double", "unfit", "boolean"}
      <4>1. Json(value)[1] = <<value[1].kind>>
        BY <2>2, <3>4 DEF JsonOf
      <4> QED  BY <3>4, <4>1
    <3> QED  BY <1>3, <3>1, <3>2, <3>3, <3>4 DEF ScalarKinds
  <2>4. dumps("python", value)[1] \in {"raise", "["}
    BY <1>3 DEF dumps, ScalarKinds
  <2>5. dumps("python", value) # Json(value)[1]
    BY <2>3, <2>4
  <2> QED  BY <1>3, <2>1, <2>5 DEF Right
<1> QED  BY <1>1, <1>2, <1>3 DEF PythonKinds

(* json.dumps of a value of any size and depth gives the JSON of it exactly *)
(* if it is a table, dict or list all nodes of which are plain.            *)
THEOREM DumpsWriteJson == DumpSpec => []DumpsExact
<1>1. dumped = {} => DumpsExact
  BY DEF DumpsExact
<1>2. DumpsExact /\ [Dump]_dumped => DumpsExact'
  <2> SUFFICES ASSUME DumpsExact, [Dump]_dumped
               PROVE  DumpsExact'
    OBVIOUS
  <2>1. CASE UNCHANGED dumped
    BY <2>1 DEF DumpsExact
  <2>2. CASE Dump
    <3>1. PICK c \in ({"lua"} \X LuaValues) \cup ({"python"} \X PythonValues) :
                 dumped' = {[value |-> c[2], text |-> dumps(c[1], c[2])]}
      BY <2>2 DEF Dump
    <3>2. Right(c[2], dumps(c[1], c[2]))
      <4>1. CASE c \in {"lua"} \X LuaValues
        <5>1. c[1] = "lua" /\ IsValue(c[2], LuaKinds)
          BY <4>1, ValuesAssumption
        <5> QED  BY <5>1, LuaDumped
      <4>2. CASE c \in {"python"} \X PythonValues
        <5>1. c[1] = "python" /\ IsValue(c[2], PythonKinds)
          BY <4>2, ValuesAssumption
        <5> QED  BY <5>1, PythonDumped
      <4> QED  BY <3>1, <4>1, <4>2
    <3> QED  BY <3>1, <3>2 DEF DumpsExact, Right, PlainIs
  <2> QED  BY <2>1, <2>2
<1> QED  BY <1>1, <1>2, PTL DEF DumpSpec

-----------------------------------------------------------------------------
(* The logger.                                                             *)

(* The first step that fails decides. *)
LEMMA FirstFailure ==
  ASSUME NEW c
  PROVE  \/ /\ LogOutcome(c) = "logged"
            /\ \A i \in 1 .. 4 : LogSteps(c)[i] \notin {"raise", "null"}
         \/ \E i \in 1 .. 4 :
              /\ \A j \in 1 .. i - 1 : LogSteps(c)[j] \notin {"raise", "null"}
              /\ \/ LogSteps(c)[i] = "raise" /\ LogOutcome(c) = "raised"
                 \/ LogSteps(c)[i] = "null" /\ LogOutcome(c) = "undefined"
<1>1. PICK s : s = LogSteps(c)
  OBVIOUS
<1>2. Len(s) = 4
  BY <1>1 DEF LogSteps
<1> DEFINE I == {i \in 1 .. 4 : s[i] \in {"raise", "null"}}
           failed == SelectInSeq(s, LAMBDA t : t \in {"raise", "null"})
<1>3. failed = IF I # {} THEN CHOOSE x \in I : \A y \in I : x <= y ELSE 0
  BY <1>2 DEF SelectInSeq, Min
<1>4. LogOutcome(c) = IF failed = 0 THEN "logged" ELSE IF s[failed] = "raise" THEN "raised" ELSE "undefined"
  BY <1>1 DEF LogOutcome
<1> HIDE DEF failed
<1>5. CASE I = {}
  BY <1>1, <1>3, <1>4, <1>5
<1>6. CASE I # {}
  <2>1. PICK m \in I : \A y \in I : m <= y
    <3>1. I \subseteq Nat
      OBVIOUS
    <3>2. PICK n \in I : TRUE
      BY <1>6
    <3> HIDE DEF I
    <3> QED  BY <3>1, <3>2, LeastNumber
  <2>2. failed \in I /\ \A y \in I : failed <= y
    BY <1>3, <1>6, <2>1
  <2>3. failed \in 1 .. 4 /\ s[failed] \in {"raise", "null"}
    BY <2>2
  <2>4. \A j \in 1 .. failed - 1 : s[j] \notin {"raise", "null"}
    BY <2>2, <2>3
  <2> QED  BY <1>1, <1>4, <2>3, <2>4
<1> QED  BY <1>5, <1>6

LEMMA LoggedAsCalled ==
  ASSUME NEW c \in LogCalls
  PROVE  /\ Ordinary(c) => LogOutcome(c) = "logged" /\ Level(c) = c.function
         /\ LogOutcome(c) = "logged" =>
              /\ Level(c) = IF c.lang # "lua" THEN c.function
                            ELSE IF c.manner = "tail" THEN c.outer ELSE c.name
              /\ c.program = "core" => Options(c) = "task"
         /\ LogOutcome(c) = "undefined" => NullExplained(c)
<1>1. /\ c.lang \in {"lua", "python", "javascript"} /\ c.program \in {"core", "local"}
      /\ c.function \in LogType /\ c.owner \in {"logger", "table", "variable"}
      /\ c.name \in CallNames /\ c.outer \in CallNames /\ c.replaced \in BOOLEAN
      /\ c.manner \in {"direct", "tail", "passed"} /\ c.argument \in {"text", "boolean"}
  BY DEF LogCalls
<1>2. LogType \cap {"raise", "null", "none"} = {}
  BY DEF LogType
<1>3. /\ LogSteps(c)[1] = IF Options(c) = "raise" THEN "raise" ELSE "found"
      /\ LogSteps(c)[2] = Level(c)
      /\ LogSteps(c)[3] = ReadArguments(c)
      /\ LogSteps(c)[4] = Pointer(c)
  BY DEF LogSteps
<1>4. Options(c) \in {"task", "null", "raise"} /\ ReadArguments(c) \in {"read", "raise"}
  BY DEF Options, ReadArguments
<1>5. ASSUME Ordinary(c) PROVE LogOutcome(c) = "logged" /\ Level(c) = c.function
  <2>1. Options(c) = "task" /\ Level(c) = c.function /\ ReadArguments(c) = "read"
    BY <1>1, <1>2, <1>5 DEF Ordinary, Options, Level, NameFound, LuaLevel, ReadArguments
  <2>2. Pointer(c) \in {"unused", "task"}
    BY <2>1 DEF Pointer
  <2>3. \A i \in 1 .. 4 : LogSteps(c)[i] \notin {"raise", "null"}
    <3>1. \A i \in 1 .. 4 : i = 1 \/ i = 2 \/ i = 3 \/ i = 4
      OBVIOUS
    <3> QED  BY <1>1, <1>2, <1>3, <2>1, <2>2, <3>1
  <2> QED  BY <2>1, <2>3, FirstFailure
<1>6. ASSUME LogOutcome(c) = "logged"
      PROVE  /\ Level(c) = IF c.lang # "lua" THEN c.function
                           ELSE IF c.manner = "tail" THEN c.outer ELSE c.name
             /\ c.program = "core" => Options(c) = "task"
  <2>1. \A i \in 1 .. 4 : LogSteps(c)[i] \notin {"raise", "null"}
    BY <1>6, FirstFailure
  <2>2. /\ Options(c) # "raise" /\ Level(c) \notin {"raise", "null"}
        /\ Pointer(c) \notin {"raise", "null"}
    BY <1>3, <2>1
  <2>3. Level(c) = IF c.lang # "lua" THEN c.function
                   ELSE IF c.manner = "tail" THEN c.outer ELSE c.name
    <3>1. CASE c.lang # "lua"
      BY <3>1 DEF Level
    <3>2. CASE c.lang = "lua"
      <4>1. Level(c) = LuaLevel(NameFound(c)) /\ LuaLevel(NameFound(c)) # "raise"
        BY <2>2, <3>2 DEF Level
      <4>2. Level(c) = NameFound(c)
        BY <4>1 DEF LuaLevel
      <4>3. NameFound(c) # "none"
        BY <2>2, <3>2 DEF Level
      <4>4. NameFound(c) = IF c.manner = "tail" THEN c.outer ELSE c.name
        BY <1>1, <4>3 DEF NameFound
      <4> QED  BY <3>2, <4>2, <4>4
    <3> QED  BY <3>1, <3>2
  <2>4. c.program = "core" => Options(c) = "task"
    BY <1>4, <2>2 DEF Pointer
  <2> QED  BY <2>3, <2>4
<1>7. ASSUME LogOutcome(c) = "undefined" PROVE NullExplained(c)
  <2>1. PICK i \in 1 .. 4 : /\ \A j \in 1 .. i - 1 : LogSteps(c)[j] \notin {"raise", "null"}
                            /\ LogSteps(c)[i] = "null"
    BY <1>7, FirstFailure
  <2>2. i \in {2, 4}
    BY <1>3, <1>4, <2>1
  <2>3. CASE i = 2
    <3>1. Level(c) = "null"
      BY <1>3, <2>1, <2>3
    <3>2. c.lang = "lua"
      <4>1. c.lang # "lua" => Level(c) = c.function
        BY DEF Level
      <4>2. c.function # "null"
        BY <1>1 DEF LogType
      <4> QED  BY <3>1, <4>1, <4>2
    <3>3. NameFound(c) = "none"
      <4>1. LuaLevel(NameFound(c)) # "null"
        BY <1>2 DEF LuaLevel
      <4> QED  BY <3>1, <3>2, <4>1 DEF Level
    <3> QED  BY <1>1, <3>2, <3>3 DEF NameFound, NullExplained
  <2>4. CASE i = 4
    <3>1. Pointer(c) = "null"
      BY <1>3, <2>1, <2>4
    <3>2. c.program = "core" /\ Options(c) = "null"
      BY <1>1, <3>1 DEF Pointer
    <3>3. CASE c.lang = "lua"
      BY <3>2, <3>3 DEF Options, NullExplained
    <3>4. CASE c.lang = "python"
      BY <3>2, <3>4 DEF Options
    <3>5. CASE c.lang = "javascript"
      BY <1>1, <3>2, <3>5 DEF Options, NullExplained
    <3> QED  BY <1>1, <3>3, <3>4, <3>5
  <2> QED  BY <2>2, <2>3, <2>4
<1> QED  BY <1>5, <1>6, <1>7

(* Whatever function of the logger a script calls and wherever it keeps it: *)
(* an ordinary call is logged, what is logged has the right level and task, *)
(* and a null pointer is used in the cases named only.                      *)
THEOREM LoggerRight == LogSpec => []LoggedRight
<1>1. logged = {} => LoggedRight
  BY DEF LoggedRight
<1>2. LoggedRight /\ [Log]_logged => LoggedRight'
  <2> SUFFICES ASSUME LoggedRight, [Log]_logged
               PROVE  LoggedRight'
    OBVIOUS
  <2>1. CASE UNCHANGED logged
    BY <2>1 DEF LoggedRight
  <2>2. CASE Log
    <3>1. PICK c \in LogCalls :
                 logged' = {[call |-> c, outcome |-> LogOutcome(c), level |-> Level(c), options |-> Options(c)]}
      BY <2>2 DEF Log
    <3> QED  BY <3>1, LoggedAsCalled DEF LoggedRight
  <2> QED  BY <2>1, <2>2
<1> QED  BY <1>1, <1>2, PTL DEF LogSpec
=============================================================================
