----------------------------- MODULE MCAmqpCodec -----------------------------
(* Small values for every C type: two common ones, then the boundaries. *)
EXTENDS AmqpCodec

Bytes(n) == [i \in 1..n |-> 65]
Entry(k, kind, v) == [key |-> k, kind |-> kind, value |-> v]
Field(kind, v) == [kind |-> kind, value |-> v]

\* One entry of each kind, with the extremes of its range.
Entries == <<
  Entry(<<1>>, "BOOLEAN", TRUE), Entry(<<2>>, "BOOLEAN", FALSE), Entry(<<3>>, "I8", -128),
  Entry(<<4>>, "U8", 255), Entry(<<5>>, "I16", -1), Entry(<<6>>, "U16", 65535),
  Entry(<<7>>, "I32", <<32768, 0>>), Entry(<<8>>, "U32", <<0, 65535>>), Entry(<<9>>, "I64", <<65535, 1, 2, 3>>),
  Entry(<<10>>, "U64", <<1, 0, 0, 2>>), Entry(<<11>>, "F32", <<7, 8>>), Entry(<<12>>, "F64", <<7, 8, 9, 10>>),
  Entry(<<13>>, "DECIMAL", [decimals |-> 2, value |-> <<0, 314>>]), Entry(<<14>>, "UTF8", <<65>>),
  Entry(<<15>>, "BYTES", <<>>), Entry(<<16>>, "TIMESTAMP", <<0, 0, 1, 1>>), Entry(<<17>>, "VOID", <<>>),
  Entry(<<18>>, "ARRAY", <<Field("I16", 300), Field("TABLE", <<Entry(<<1>>, "I8", 5)>>)>>),
  Entry(<<19>>, "ARRAY", <<>>), Entry(<<20>>, "TABLE", <<Entry(<<7>>, "TABLE", <<>>), Entry(<<8>>, "U8", 1)>>)>>

\* The longest key one octet can announce, and two that are too long by one: the octets of
\* the first read as no value, those of the second as 128 values of which none was sent.
LongKeys == <<Bytes(255), Bytes(256), [i \in 1..256 |-> IF i % 2 = 1 THEN KindOctet.VOID ELSE 0]>>

Tables == <<<<>>, <<Entry(<<9, 9>>, "U8", 7)>>>> \o [i \in DOMAIN Entries |-> <<Entries[i]>>]
          \o <<<<Entries[3], Entries[14]>>, <<Entry(<<>>, "VOID", <<>>)>>,
               <<Entry(<<1>>, "ARRAY", <<Field("TABLE", <<Entry(<<>>, "U8", 1)>>)>>)>>>>
          \o [i \in DOMAIN LongKeys |-> <<Entry(LongKeys[i], "VOID", <<>>)>>]
          \o <<<<Entry(<<1>>, "TABLE", <<Entry(Bytes(256), "VOID", <<>>)>>)>>>>

MCSample == [uint8 |-> <<1, 200, 0>>, uint16 |-> <<2, 515, 65535>>, uint32 |-> <<<<0, 3>>, <<258, 772>>>>,
  uint64 |-> <<<<0, 0, 0, 5>>, <<1, 2, 3, 65535>>>>, boolean |-> <<FALSE, TRUE>>,
  bytes |-> <<<<>>, <<66, 67>>, Bytes(255), Bytes(256)>>, table |-> Tables]

\* Capability tables over two keys: absent, a value, another value, one of two tables.
SlotChoices == {<<>>, <<Field("U8", 1)>>, <<Field("U8", 2)>>,
  <<Field("TABLE", <<Entry(<<5>>, "U8", 1)>>)>>, <<Field("TABLE", <<Entry(<<5>>, "U8", 2), Entry(<<6>>, "VOID", <<>>)>>)>>}

MCCapabilities ==
  {[i \in DOMAIN a |-> Entry(<<1>>, a[i].kind, a[i].value)] \o
   [i \in DOMAIN b |-> Entry(<<2>>, b[i].kind, b[i].value)] : a, b \in SlotChoices}
==============================================================================
