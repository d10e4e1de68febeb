------------------------------ MODULE AmqpTable ------------------------------
(* The wire format of rabbitmq-c, the library the C++ consumer runs on: the  *)
(* primitive codecs of amqp_private.h and the field tables of amqp_table.c.  *)
(*                                                                           *)
(* A buffer is a sequence of octets.  TLC's integers have 32 bits, so a wide *)
(* integer is the sequence of its 16-bit limbs, the most significant first:  *)
(* two limbs for 32 bits, four for 64.  The signed and the floating-point    *)
(* kinds of that width share the bit pattern, as they do in the code.        *)
(*                                                                           *)
(* An encoder yields the sequence of writes the code attempts, each with the *)
(* status it returns when the write does not fit; a decoder reads a buffer   *)
(* at an offset and yields a status, a value and the next offset.            *)
(* Allocation failures are left out: see AmqpPool.                           *)
EXTENDS Integers, Sequences, SequencesExt

------------------------------------------------------------------------------
(* Writing *)

Write(data, otherwise) == <<[data |-> data, allowed |-> TRUE, otherwise |-> otherwise]>>
Refuse(status) == <<[data |-> <<>>, allowed |-> FALSE, otherwise |-> status]>>

\* The octets of a short and of the limbs of a wider integer, in network order.
EncodeShort(n) == <<n \div 256, n % 256>>
EncodeLimbs(limbs) == FlattenSeq([i \in DOMAIN limbs |-> EncodeShort(limbs[i])])
EncodeSize(n) == EncodeLimbs(<<n \div 65536, n % 65536>>)

\* One write into a buffer of room octets.  A write of nothing always succeeds,
\* and nothing is written after the first failure.
AddWrite(room, done, w) ==
  IF done.status # "OK" THEN done
  ELSE IF w.allowed /\ (w.data = <<>> \/ Len(done.data) + Len(w.data) <= room)
       THEN [done EXCEPT !.data = @ \o w.data]
       ELSE [done EXCEPT !.status = w.otherwise]

Written(writes, room) ==
  FoldLeft(LAMBDA done, w : AddWrite(room, done, w), [status |-> "OK", data |-> <<>>], writes)

SizeOf(writes) == FoldLeft(LAMBDA n, w : n + Len(w.data), 0, writes)

------------------------------------------------------------------------------
(* Reading *)

Bad(status) == [status |-> status]
Got(value, at) == [status |-> "OK", value |-> value, at |-> at]
Then(read, Op(_)) == IF read.status = "OK" THEN Op(read) ELSE read

\* The next n octets (amqp_decode_bytes).
Take(b, at, n) ==
  IF at + n <= Len(b) THEN Got(SubSeq(b, at + 1, at + n), at + n) ELSE Bad("BAD_AMQP_DATA")

ToShort(octets) == octets[1] * 256 + octets[2]
ToLimbs(octets) ==
  [i \in 1..(Len(octets) \div 2) |-> ToShort(SubSeq(octets, 2 * i - 1, 2 * i))]

DecodeOctet(b, at) == Then(Take(b, at, 1), LAMBDA r : Got(r.value[1], r.at))
DecodeShort(b, at) == Then(Take(b, at, 2), LAMBDA r : Got(ToShort(r.value), r.at))
DecodeLimbs(b, at, n) == Then(Take(b, at, 2 * n), LAMBDA r : Got(ToLimbs(r.value), r.at))
DecodeSize(b, at) ==
  Then(DecodeLimbs(b, at, 2), LAMBDA r : Got(r.value[1] * 65536 + r.value[2], r.at))

------------------------------------------------------------------------------
(* Field values.  A table is a sequence of [key, kind, value] records, an    *)
(* array a sequence of [kind, value] records.                                *)

\* The octet that announces each kind (a character in the code).
KindOctet == [BOOLEAN |-> 116, I8 |-> 98, U8 |-> 66, I16 |-> 115, U16 |-> 117, I32 |-> 73,
  U32 |-> 105, I64 |-> 108, U64 |-> 76, F32 |-> 102, F64 |-> 100, DECIMAL |-> 68, UTF8 |-> 83,
  ARRAY |-> 65, TIMESTAMP |-> 84, TABLE |-> 70, VOID |-> 86, BYTES |-> 120]

WordKinds == {"I32", "U32", "F32"}
DoubleWordKinds == {"I64", "U64", "F64", "TIMESTAMP"}
BytesKinds == {"UTF8", "BYTES"}

TableEncoding(Entry(_), entries, otherwise) ==
  LET body == FlattenSeq([i \in DOMAIN entries |-> Entry(entries[i])])
  IN  Write(EncodeSize(SizeOf(body)), IF entries = <<>> THEN "TABLE_TOO_BIG" ELSE otherwise) \o body

RECURSIVE EncodeFieldValue(_)

\* A key is announced by one octet: the length of a longer key is truncated.
EncodeEntry(e) ==
  Write(<<Len(e.key) % 256>>, "TABLE_TOO_BIG") \o Write(e.key, "TABLE_TOO_BIG") \o EncodeFieldValue(e)

\* The size is filled in last, so a table without room for its size reports
\* the failure of its first entry.
EncodeTable(t) == TableEncoding(EncodeEntry, t, "TABLE_TOO_BIG")
EncodeArray(a) == TableEncoding(EncodeFieldValue, a, "BAD_AMQP_DATA")

EncodePayload(kind, v) ==
  CASE kind = "BOOLEAN"          -> Write(<<IF v THEN 1 ELSE 0>>, "TABLE_TOO_BIG")
    [] kind \in {"I8", "U8"}     -> Write(<<v % 256>>, "TABLE_TOO_BIG")
    [] kind \in {"I16", "U16"}   -> Write(EncodeShort(v % 65536), "TABLE_TOO_BIG")
    [] kind \in WordKinds \cup DoubleWordKinds -> Write(EncodeLimbs(v), "TABLE_TOO_BIG")
    [] kind = "DECIMAL"          -> Write(<<v.decimals>> \o EncodeLimbs(v.value), "TABLE_TOO_BIG")
    [] kind \in BytesKinds       -> Write(EncodeSize(Len(v)) \o v, "TABLE_TOO_BIG")
    [] kind = "ARRAY"            -> EncodeArray(v)
    [] kind = "TABLE"            -> EncodeTable(v)
    [] kind = "VOID"             -> <<>>
    [] OTHER                     -> Refuse("INVALID_PARAMETER")

EncodeFieldValue(f) == Write(<<KindOctet[f.kind]>>, "BAD_AMQP_DATA") \o EncodePayload(f.kind, f.value)

SignedOf(n, bits) == IF n < 2 ^ (bits - 1) THEN n ELSE n - 2 ^ bits

RECURSIVE DecodeFieldValue(_, _), DecodeEntries(_, _, _, _)

\* One [key, kind, value] record.
DecodeEntry(b, at) ==
  Then(DecodeOctet(b, at), LAMBDA len :
  Then(Take(b, len.at, len.value), LAMBDA key :
  Then(DecodeFieldValue(b, key.at), LAMBDA f :
    Got([key |-> key.value, kind |-> f.value.kind, value |-> f.value.value], f.at))))

\* Entries are read while the offset is below the limit the size announced; an
\* entry may run past the limit, as far as the buffer goes.
DecodeEntries(b, read, limit, keyed) ==
  IF read.at >= limit THEN read
  ELSE Then(IF keyed THEN DecodeEntry(b, read.at) ELSE DecodeFieldValue(b, read.at),
            LAMBDA e : DecodeEntries(b, Got(Append(read.value, e.value), e.at), limit, keyed))

DecodeSized(b, at, keyed) ==
  Then(DecodeSize(b, at), LAMBDA size :
    IF size.value + size.at > Len(b) THEN Bad("BAD_AMQP_DATA")
    ELSE DecodeEntries(b, Got(<<>>, size.at), size.at + size.value, keyed))

DecodeTable(b, at) == DecodeSized(b, at, TRUE)
DecodeArray(b, at) == DecodeSized(b, at, FALSE)

DecodePayload(kind, b, at) ==
  CASE kind = "BOOLEAN"         -> Then(DecodeOctet(b, at), LAMBDA r : Got(r.value # 0, r.at))
    [] kind = "I8"              -> Then(DecodeOctet(b, at), LAMBDA r : Got(SignedOf(r.value, 8), r.at))
    [] kind = "U8"              -> DecodeOctet(b, at)
    [] kind = "I16"             -> Then(DecodeShort(b, at), LAMBDA r : Got(SignedOf(r.value, 16), r.at))
    [] kind = "U16"             -> DecodeShort(b, at)
    [] kind \in WordKinds       -> DecodeLimbs(b, at, 2)
    [] kind \in DoubleWordKinds -> DecodeLimbs(b, at, 4)
    [] kind = "DECIMAL"         -> Then(DecodeOctet(b, at), LAMBDA d : Then(DecodeLimbs(b, d.at, 2),
                                     LAMBDA r : Got([decimals |-> d.value, value |-> r.value], r.at)))
    [] kind \in BytesKinds      -> Then(DecodeSize(b, at), LAMBDA len : Take(b, len.at, len.value))
    [] kind = "ARRAY"           -> DecodeArray(b, at)
    [] kind = "TABLE"           -> DecodeTable(b, at)
    [] kind = "VOID"            -> Got(<<>>, at)

DecodeFieldValue(b, at) ==
  Then(DecodeOctet(b, at), LAMBDA k :
    LET kinds == {kind \in DOMAIN KindOctet : KindOctet[kind] = k.value}
    IN  IF kinds = {} THEN Bad("BAD_AMQP_DATA")
        ELSE LET kind == CHOOSE x \in kinds : TRUE
             IN  Then(DecodePayload(kind, b, k.at),
                      LAMBDA v : Got([kind |-> kind, value |-> v.value], v.at)))

------------------------------------------------------------------------------
(* Copying and merging *)

Fail(status) == [status |-> status]
Ok(value) == [status |-> "OK", value |-> value]

\* The copies of all elements, or the status of the first that cannot be copied.
CloneAll(Clone(_), s) ==
  LET copies == [i \in DOMAIN s |-> Clone(s[i])]
      failed == {i \in DOMAIN s : copies[i].status # "OK"}
  IN  IF failed = {} THEN Ok([i \in DOMAIN s |-> copies[i].value])
      ELSE copies[CHOOSE i \in failed : \A j \in failed : i <= j]

RECURSIVE CloneFieldValue(_)

\* An entry without a key cannot be copied.
CloneEntry(e) ==
  IF e.key = <<>> THEN Fail("INVALID_PARAMETER")
  ELSE LET v == CloneFieldValue(e)
       IN  IF v.status = "OK" THEN Ok([key |-> e.key, kind |-> e.kind, value |-> v.value.value]) ELSE v

CloneTable(t) == CloneAll(CloneEntry, t)

\* Mutant: the elements of an array are shared, not copied.
CloneSharingArrays(f) ==
  LET inner == IF f.kind = "TABLE" THEN CloneTable(f.value) ELSE Ok(f.value)
  IN  IF inner.status = "OK" THEN Ok([kind |-> f.kind, value |-> inner.value]) ELSE inner

CloneFieldValue(f) ==
  LET inner == CASE f.kind = "TABLE" -> CloneTable(f.value)
                 [] f.kind = "ARRAY" -> CloneAll(CloneFieldValue, f.value)
                 [] OTHER            -> Ok(f.value)
  IN  IF inner.status = "OK" THEN Ok([kind |-> f.kind, value |-> inner.value]) ELSE inner

\* The positions of a key; the code looks for the first.
EntriesByKey(t, key) == {i \in DOMAIN t : t[i].key = key}
EntryByKey(t, key) == CHOOSE i \in EntriesByKey(t, key) : \A j \in EntriesByKey(t, key) : i <= j

RECURSIVE MergeCapabilities(_, _)

\* Mutant: a nested table of the added one replaces the base's.
MergeEntryFlat(base, result, a) ==
  IF result.status # "OK" THEN result
  ELSE IF EntriesByKey(result.value, a.key) = {} THEN Ok(Append(result.value, a))
  ELSE LET i == EntryByKey(result.value, a.key)
       IN  Ok([result.value EXCEPT ![i].kind = a.kind, ![i].value = a.value])

\* One entry of the added table goes into the result so far.  Two tables under
\* one key are merged, but the entry is looked up in the base table again: when
\* the base has no such table the code follows a pointer to nothing.
MergeEntry(base, result, a) ==
  IF result.status # "OK" THEN result
  ELSE IF EntriesByKey(result.value, a.key) = {} THEN Ok(Append(result.value, a))
  ELSE LET i == EntryByKey(result.value, a.key)
       IN  IF a.kind # "TABLE" \/ result.value[i].kind # "TABLE"
           THEN Ok([result.value EXCEPT ![i].kind = a.kind, ![i].value = a.value])
           ELSE IF \A j \in EntriesByKey(base, a.key) : base[j].kind # "TABLE" THEN Fail("BAD_POINTER")
           ELSE LET merged == MergeCapabilities(base[EntryByKey(base, a.key)].value, a.value)
                IN  IF merged.status = "OK" THEN Ok([result.value EXCEPT ![i].value = merged.value])
                    ELSE merged

MergeCapabilities(base, add) ==
  LET all == FoldLeft(LAMBDA result, a : MergeEntry(base, result, a), Ok(base), add)
  IN  IF all.status = "OK" THEN CloneTable(all.value) ELSE all
==============================================================================
