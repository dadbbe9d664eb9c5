------------------------------- MODULE Bytes -------------------------------
(***************************************************************************)
(* Byte vectors: slices, integers kept in bytes, lines, and the texts a    *)
(* byte vector is encoded in.  A byte has four bits here, a digit of base  *)
(* 16 two and one of base 64 three, so the bounds between them stay: three *)
(* bytes are four digits of base 64, one byte is two of base 16.  The      *)
(* sixteen bytes stand for the characters the encodings tell apart.        *)
(***************************************************************************)
EXTENDS Integers, Sequences, FiniteSets, SequencesExt, FiniteSetsExt

CONSTANTS FirstBytes,   \* the byte vectors a program begins with
          OtherBytes,   \* what it appends and copies in
          MaxByteCalls

VARIABLES octets, byteCalls
byteVars == <<octets, byteCalls>>

ByteBits == 4
DigitBits == 2    \* of base 16
SextetBits == 3   \* of base 64
Bytes == 0..2 ^ ByteBits - 1

LINE_FEED == 1
RETURN_BYTE == 2
DASH_BYTE == 3
UNDERSCORE == 10
BLANK == 11
EQUALS == 14
LowerDigits == <<4, 5, 8, 9>>
UpperDigits == <<4, 5, 6, 7>>
Alphabet(uri) == <<6, 7, 8, 9, 4, 5>> \o (IF uri THEN <<DASH_BYTE, UNDERSCORE>> ELSE <<12, 13>>)

(* The place of a character among the digits, or nothing. *)
PlacesIn(c, digits) == {k - 1 : k \in {j \in DOMAIN digits : digits[j] = c}}

----------------------------------------------------------------------------
(* Slices and copies; an index counts from 0. *)

FitsAt(b, index, width) == index <= Len(b) /\ width <= Len(b) - index
FromTo(b, from, to) == SubSeq(b, from + 1, to)
CopiedIn(b, index, source) ==
  [k \in DOMAIN b |-> IF k \in index + 1..index + Len(source) THEN source[k - index] ELSE b[k]]

AppendAll(vectors) == FoldLeft(LAMBDA all, b : all \o b, <<>>, vectors)
CopyBounds(b, given) ==
  [from |-> IF Len(given) > 0 THEN given[1] ELSE 0, to |-> IF Len(given) > 1 THEN given[2] ELSE Len(b)]

ByteOrder(x, y) == IF x < y THEN -1 ELSE IF x > y THEN 1 ELSE 0
BytesCompare(x, y) ==
  LET differ == {k \in 1..Min({Len(x), Len(y)}) : x[k] # y[k]}
  IN IF differ # {} THEN ByteOrder(x[Min(differ)], y[Min(differ)]) ELSE ByteOrder(Len(x), Len(y))
BytesBefore(x, y, orEqual) ==
  IF orEqual THEN BytesCompare(x, y) <= 0 ELSE BytesCompare(x, y) < 0

----------------------------------------------------------------------------
(* Integers of a width, the most significant byte first or last. *)

ReadInteger(b, index, width, big) ==
  FoldLeft(LAMBDA n, i : n * 2 ^ ByteBits + b[index + (IF big THEN i ELSE width + 1 - i)],
           0, [i \in 1..width |-> i])
WriteInteger(b, index, width, big, value) ==
  CopiedIn(b, index, [i \in 1..width |->
    (value \div 2 ^ (ByteBits * (IF big THEN width - i ELSE i - 1))) % 2 ^ ByteBits])

SignedValue(value, width) ==
  LET half == 2 ^ (width * ByteBits - 1)
  IN IF value < half THEN value ELSE value - 2 * half
FitsWidth(value, width, signed) ==
  LET span == 2 ^ (width * ByteBits)
  IN value \in (IF signed THEN 0 - (span \div 2)..(span \div 2) - 1 ELSE 0..span - 1)
UnsignedBits(value, width) == value % 2 ^ (width * ByteBits)

----------------------------------------------------------------------------
(* A line ends at a line feed; the carriage returns about it go with it.   *)

AfterReturns(b, k) == Min({j \in k..Len(b) : b[j] # RETURN_BYTE} \cup {Len(b) + 1})
BeforeReturns(b, from, to) == Max({j \in from..to : b[j] # RETURN_BYTE} \cup {from - 1})
SplitByteLines(b) ==
  LET feeds == SetToSortSeq({k \in DOMAIN b : b[k] = LINE_FEED}, <)
      start == [i \in 1..Len(feeds) + 1 |-> IF i = 1 THEN 1 ELSE AfterReturns(b, feeds[i - 1] + 1)]
      line(i, end) == SubSeq(b, start[i], BeforeReturns(b, start[i], end))
      last == Len(feeds) + 1
  IN [i \in DOMAIN feeds |-> line(i, feeds[i] - 1)]
       \o (IF start[last] <= Len(b) THEN <<line(last, Len(b))>> ELSE <<>>)

----------------------------------------------------------------------------
(* Base 64.  Three bytes make four digits; what is left over is padded, or *)
(* the padding is left out.                                                *)

Filled(s, width) == [k \in 1..width |-> IF k <= Len(s) THEN s[k] ELSE 0]
Packed(s, bits) == FoldLeft(LAMBDA n, d : n * 2 ^ bits + d, 0, s)
Unpacked(value, bits, width) == [k \in 1..width |-> (value \div 2 ^ (bits * (width - k))) % 2 ^ bits]
GroupsOf(s, width) ==
  [g \in 1..(Len(s) + width - 1) \div width |-> SubSeq(s, width * (g - 1) + 1, Min({width * g, Len(s)}))]

EncodedGroup(group, uri, padded) ==
  LET sextets == Unpacked(Packed(Filled(group, 3), ByteBits), SextetBits, 4)
  IN [k \in 1..Len(group) + 1 |-> Alphabet(uri)[sextets[k] + 1]]
       \o (IF padded THEN [k \in 1..3 - Len(group) |-> EQUALS] ELSE <<>>)
Base64Encode(b, uri, padded) ==
  FlattenSeq([g \in DOMAIN GroupsOf(b, 3) |-> EncodedGroup(GroupsOf(b, 3)[g], uri, padded)])

Compact(t) == SelectSeq(t, LAMBDA c : c \notin {LINE_FEED, RETURN_BYTE, BLANK})
Padding(t) == Cardinality({k \in {Len(t) - 1, Len(t)} \cap DOMAIN t : t[k] = EQUALS})
Sextets(body, uri) ==
  [k \in DOMAIN body |-> CHOOSE s \in PlacesIn(body[k], Alphabet(uri)) : TRUE]

(* Variant: bits that no byte takes may be anything. *)
LeftoverFree(sextets) == TRUE

(* The last digit of a short group has bits that no byte takes: none may   *)
(* be set.                                                                 *)
LeftoverClear(sextets) ==
  LET last == Len(sextets) % 4
  IN last > 1 => Last(sextets) % 2 ^ (last * SextetBits - (last - 1) * ByteBits) = 0

CanDecodeBase64(text, uri, strict) ==
  LET t == Compact(text)
      body == SubSeq(t, 1, Len(t) - Padding(t))
  IN /\ Padding(t) > 0 \/ strict => Len(t) % 4 = 0
     /\ Padding(t) = 0 => Len(t) % 4 # 1
     /\ \A k \in DOMAIN body : PlacesIn(body[k], Alphabet(uri)) # {}
     /\ LeftoverClear(Sextets(body, uri))

DecodedGroup(sextets) ==
  SubSeq(Unpacked(Packed(Filled(sextets, 4), SextetBits), ByteBits, 3), 1, Len(sextets) - 1)
Base64Decode(text, uri) ==
  LET t == Compact(text)
      groups == GroupsOf(Sextets(SubSeq(t, 1, Len(t) - Padding(t)), uri), 4)
  IN FlattenSeq([g \in DOMAIN groups |-> DecodedGroup(groups[g])])

----------------------------------------------------------------------------
(* Base 16, and names of files that any system can keep. *)

HexPair(byte, digits) == [k \in 1..2 |-> digits[Unpacked(byte, DigitBits, 2)[k] + 1]]
HexEncode(b, digits) == FlattenSeq([k \in DOMAIN b |-> HexPair(b[k], digits)])
HexPlaces(c) == PlacesIn(c, LowerDigits) \cup PlacesIn(c, UpperDigits)
HexValue(pair) == Packed([k \in 1..2 |-> CHOOSE d \in HexPlaces(pair[k]) : TRUE], DigitBits)
CanDecodeHex(text) ==
  LET t == Compact(text) IN Len(t) % 2 = 0 /\ \A k \in DOMAIN t : HexPlaces(t[k]) # {}
HexDecode(text) ==
  LET pairs == GroupsOf(Compact(text), 2) IN [k \in DOMAIN pairs |-> HexValue(pairs[k])]

InFileName(byte) == byte = DASH_BYTE \/ HexPlaces(byte) # {}
FileNamePart(byte) ==
  CASE InFileName(byte) -> <<byte>>
    [] byte = UNDERSCORE -> <<UNDERSCORE, UNDERSCORE>>
    [] OTHER -> <<UNDERSCORE>> \o HexPair(byte, UpperDigits)
AsFileName(b) == FlattenSeq([k \in DOMAIN b |-> FileNamePart(b[k])])

(* What is decoded so far, and the bytes still to skip; -1 is an error.    *)
FromFileName(t) ==
  LET step(found, k) ==
        CASE found.skip # 0 -> [found EXCEPT !.skip = @ - (IF @ > 0 THEN 1 ELSE 0)]
          [] InFileName(t[k]) -> [found EXCEPT !.bytes = Append(@, t[k])]
          [] t[k] = UNDERSCORE /\ k < Len(t) /\ t[k + 1] = UNDERSCORE ->
               [bytes |-> Append(found.bytes, UNDERSCORE), skip |-> 1]
          [] t[k] = UNDERSCORE /\ k + 1 < Len(t) /\ HexPlaces(t[k + 1]) # {} /\ HexPlaces(t[k + 2]) # {} ->
               [bytes |-> Append(found.bytes, HexValue(SubSeq(t, k + 1, k + 2))), skip |-> 2]
          [] OTHER -> [found EXCEPT !.skip = -1]
  IN FoldLeft(step, [bytes |-> <<>>, skip |-> 0], [k \in DOMAIN t |-> k])

----------------------------------------------------------------------------
(* A program changes a byte vector in place or goes on with another. *)

BytesInit == octets \in FirstBytes /\ byteCalls = 0
BytesIdle == octets = <<>> /\ byteCalls = 0
ByteCall(result) == byteCalls < MaxByteCalls /\ byteCalls' = byteCalls + 1 /\ octets' = result

PutByte == \E k \in DOMAIN octets, v \in {5, EQUALS, 15} : ByteCall([octets EXCEPT ![k] = v])
PutBytes == \E s \in OtherBytes, i \in 0..Len(octets) :
              FitsAt(octets, i, Len(s)) /\ ByteCall(CopiedIn(octets, i, s))
CopyWithin == \E from \in 0..Len(octets), to \in 0..Len(octets), n \in 0..Len(octets) :
                /\ FitsAt(octets, from, n) /\ FitsAt(octets, to, n)
                /\ ByteCall(CopiedIn(octets, to, FromTo(octets, from, from + n)))
PutInteger == \E width \in {2, 4}, big \in BOOLEAN, signed \in BOOLEAN,
                 i \in 0..Len(octets), value \in {-32769, -32768, -128, -1, 0, 128, 32767, 65535} :
                /\ FitsAt(octets, i, width) /\ FitsWidth(value, width, signed)
                /\ ByteCall(WriteInteger(octets, i, width, big, UnsignedBits(value, width)))
CutBytes == \E from \in 0..Len(octets), to \in 0..Len(octets) :
              from <= to /\ ByteCall(FromTo(octets, from, to))
CopyBytes == \E given \in {<<>>, <<1>>, <<0, 1>>, <<2, 1>>} :
  LET bounds == CopyBounds(octets, given)
  IN /\ bounds.from <= bounds.to /\ bounds.to <= Len(octets)
     /\ ByteCall(FromTo(octets, bounds.from, bounds.to))
AppendBytes == \E s \in OtherBytes : ByteCall(AppendAll(<<octets, s, octets>>))
EncodeBytes == \/ \E uri \in BOOLEAN, padded \in BOOLEAN : ByteCall(Base64Encode(octets, uri, padded))
               \/ \E digits \in {LowerDigits, UpperDigits} : ByteCall(HexEncode(octets, digits))
               \/ ByteCall(AsFileName(octets))
DecodeText ==
  \/ \E uri \in BOOLEAN, strict \in BOOLEAN :
       CanDecodeBase64(octets, uri, strict) /\ ByteCall(Base64Decode(octets, uri))
  \/ CanDecodeHex(octets) /\ ByteCall(HexDecode(octets))
  \/ FromFileName(octets).skip = 0 /\ ByteCall(FromFileName(octets).bytes)

BytesNext == PutByte \/ PutBytes \/ CopyWithin \/ PutInteger \/ CutBytes \/ CopyBytes \/ AppendBytes
               \/ EncodeBytes \/ DecodeText

----------------------------------------------------------------------------
(* What is encoded decodes to itself, with the padding or without it; a    *)
(* text that decodes is, but for its white space, the one text of those    *)
(* bytes (base64.c:108, hex.c:60).                                         *)
TextsOfBytesExact ==
  /\ \A uri \in BOOLEAN, padded \in BOOLEAN :
       LET t == Base64Encode(octets, uri, padded)
       IN CanDecodeBase64(t, uri, padded) /\ Base64Decode(t, uri) = octets
  /\ \A uri \in BOOLEAN :
       /\ CanDecodeBase64(octets, uri, FALSE) =>
            \E padded \in BOOLEAN : Base64Encode(Base64Decode(octets, uri), uri, padded) = Compact(octets)
       /\ CanDecodeBase64(octets, uri, TRUE) =>
            Base64Encode(Base64Decode(octets, uri), uri, TRUE) = Compact(octets)
  /\ \A digits \in {LowerDigits, UpperDigits} :
       LET t == HexEncode(octets, digits) IN CanDecodeHex(t) /\ HexDecode(t) = octets

(* A file name keeps the bytes, has nothing but portable characters, and   *)
(* so is its own name when it has no underscore (ByteVector.c:1019).       *)
FileNamesExact ==
  LET name == AsFileName(octets)
  IN /\ FromFileName(name) = [bytes |-> octets, skip |-> 0]
     /\ \A k \in DOMAIN name : InFileName(name[k]) \/ name[k] = UNDERSCORE
     /\ UNDERSCORE \notin ToSet(name) => AsFileName(name) = name

(* Every run of bytes is an integer of its width in both orders and both   *)
(* signs, and that integer is those bytes (ByteVector.c:566).              *)
IntegersOfBytesExact ==
  \A width \in {2, 4}, index \in 0..Len(octets) : FitsAt(octets, index, width) =>
    \A big \in BOOLEAN :
      LET value == ReadInteger(octets, index, width, big)
          signed == SignedValue(value, width)
      IN /\ FitsWidth(value, width, FALSE) /\ FitsWidth(signed, width, TRUE)
         /\ WriteInteger(octets, index, width, big, UnsignedBits(signed, width)) = octets
         /\ ReadInteger(Reverse(octets), Len(octets) - index - width, width, ~big) = value

(* Lines lose the line feeds and the carriage returns next to one or at    *)
(* the end, and nothing else; slices join; and the digits of base 16 keep  *)
(* the order of the bytes (ByteVector.c:128, :1375).                       *)
ByteLinesExact ==
  LET indices == [k \in DOMAIN octets |-> k]
      lineEnds == {k \in DOMAIN octets : octets[k] = LINE_FEED}
      dropped == lineEnds \cup
        {k \in DOMAIN octets : \E j \in lineEnds \cup {Len(octets) + 1} :
           \A i \in (j + 1..k) \cup (k..j - 1) : octets[i] = RETURN_BYTE}
      kept == SelectSeq(indices, LAMBDA k : k \notin dropped)
  IN /\ FlattenSeq(SplitByteLines(octets)) = [k \in DOMAIN kept |-> octets[kept[k]]]
     /\ Len(SplitByteLines(octets)) \in {Cardinality(lineEnds), Cardinality(lineEnds) + 1}
SlicesAndOrder ==
  \A k \in 0..Len(octets) :
    LET front == FromTo(octets, 0, k)
        back == FromTo(octets, k, Len(octets))
    IN /\ front \o back = octets
       /\ BytesCompare(front, octets) = (IF k = Len(octets) THEN 0 ELSE -1)
       /\ BytesCompare(back, octets) = BytesCompare(HexEncode(back, LowerDigits), HexEncode(octets, LowerDigits))
       /\ BytesBefore(octets, back, FALSE) <=> ~BytesBefore(back, octets, TRUE)

BytesSound == /\ TextsOfBytesExact /\ FileNamesExact /\ IntegersOfBytesExact
              /\ ByteLinesExact /\ SlicesAndOrder
=============================================================================
