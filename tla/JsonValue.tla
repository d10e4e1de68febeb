------------------------------ MODULE JsonValue ------------------------------
(* Json::Value as a scalar that converts itself, and as an array.  Numbers    *)
(* keep the relations between the widths of Int, LargestInt and double:       *)
(* a double has halves near zero, and the largest integers round up to the    *)
(* next power of two when they become one.                                    *)
(*                                                                            *)
(* The state is a scalar, and an array under every sequence of operations     *)
(* beside the sequence it should be.                                          *)
EXTENDS Integers, Sequences, FiniteSets, FiniteSetsExt, Functions, SequencesExt

CONSTANTS ValueMaxInt, ValueMaxLargestInt,
          Doubles,       \* twice the doubles there are
          Elements,      \* what is stored in the array
          MaxElements    \* most elements in the array

ASSUME ValueAssumption ==
    /\ ValueMaxInt \in Nat /\ ValueMaxLargestInt \in Nat /\ MaxElements \in Nat
    /\ 2 * ValueMaxInt + 1 < ValueMaxLargestInt        \* a UInt is a LargestInt
    /\ Doubles \subseteq Int

VARIABLES scalar,
          array, items   \* the array, and the sequence it should be

valueVars == <<scalar, array, items>>

\* A scalar: a double holds twice its value, so that halves are integers.
Scalar(kind, n) == [kind |-> kind, n |-> n]
Twice(v) == IF v.kind = "real" THEN v.n ELSE 2 * v.n

MinInt64  == -ValueMaxLargestInt - 1
MaxUInt64 == 2 * ValueMaxLargestInt + 1
MaxUInt   == 2 * ValueMaxInt + 1
MinInt    == -ValueMaxInt - 1
ToDouble(n) == IF n \in {ValueMaxLargestInt, MaxUInt64} THEN n + 1 ELSE n

Numeric(v)    == v.kind \in {"int", "uint", "real"}
IsIntegral(v) == v.n % 2 = 0                                 \* of a real
InRange(v, low, high) == 2 * ToDouble(low) <= v.n /\ v.n <= 2 * ToDouble(high)

-----------------------------------------------------------------------------
IsInt(v) ==
    CASE v.kind \in {"int", "uint"} -> MinInt <= v.n /\ v.n <= ValueMaxInt
      [] v.kind = "real" -> InRange(v, MinInt, ValueMaxInt) /\ IsIntegral(v)
      [] OTHER -> FALSE

IsUInt(v) ==
    CASE v.kind \in {"int", "uint"} -> 0 <= v.n /\ v.n <= MaxUInt
      [] v.kind = "real" -> InRange(v, 0, MaxUInt) /\ IsIntegral(v)
      [] OTHER -> FALSE

\* Mutant: the rounded limit itself still counts as a LargestInt.
IsInt64Inclusive(v) ==
    CASE v.kind = "int"  -> TRUE
      [] v.kind = "uint" -> v.n <= ValueMaxLargestInt
      [] v.kind = "real" -> /\ 2 * MinInt64 <= v.n /\ v.n <= 2 * ToDouble(ValueMaxLargestInt)
                            /\ IsIntegral(v)
      [] OTHER -> FALSE

IsInt64(v) ==
    CASE v.kind = "int"  -> TRUE
      [] v.kind = "uint" -> v.n <= ValueMaxLargestInt
      [] v.kind = "real" -> /\ 2 * MinInt64 <= v.n /\ v.n < 2 * ToDouble(ValueMaxLargestInt)
                            /\ IsIntegral(v)
      [] OTHER -> FALSE

IsUInt64(v) ==
    CASE v.kind = "int"  -> v.n >= 0
      [] v.kind = "uint" -> TRUE
      [] v.kind = "real" -> 0 <= v.n /\ v.n < 2 * ToDouble(MaxUInt64) /\ IsIntegral(v)
      [] OTHER -> FALSE

\* The conversions: the set of possible results, {} for the exception they
\* throw.  A double its type does not hold may become anything when it is cast.
Truncate(v) == IF v.kind # "real" THEN v.n
               ELSE IF v.n >= 0 THEN v.n \div 2 ELSE -((-v.n) \div 2)
Cast(v, low, high) == IF Truncate(v) \in low..high THEN {Truncate(v)} ELSE low..high
Converted(v, whole, low, high) ==
    CASE v.kind \in {"int", "uint"} -> IF whole THEN {v.n} ELSE {}
      [] v.kind = "real" -> IF InRange(v, low, high) THEN Cast(v, low, high) ELSE {}
      [] v.kind = "null" -> {0}
      [] v.kind = "bool" -> {v.n}
      [] OTHER -> {}

AsInt(v)    == Converted(v, IsInt(v), MinInt, ValueMaxInt)
AsUInt(v)   == Converted(v, IsUInt(v), 0, MaxUInt)
AsInt64(v)  == Converted(v, IsInt64(v), MinInt64, ValueMaxLargestInt)
AsUInt64(v) == Converted(v, IsUInt64(v), 0, MaxUInt64)
AsBool(v)   == IF Numeric(v) \/ v.kind \in {"null", "bool"} THEN {v.n # 0} ELSE {}

IsConvertibleTo(v, kind) ==
    LET simple == v.kind \in {"bool", "null"}
    IN  CASE kind = "int"  -> IsInt(v) \/ simple \/ (v.kind = "real" /\ InRange(v, MinInt, ValueMaxInt))
          [] kind = "uint" -> IsUInt(v) \/ simple \/ (v.kind = "real" /\ InRange(v, 0, MaxUInt))
          [] kind = "bool" -> Numeric(v) \/ simple
          [] kind = "null" -> \/ Numeric(v) /\ v.n = 0
                              \/ v.kind = "bool" /\ v.n = 0
                              \/ v.kind = "string" /\ v.n = 0          \* n is the length here
                              \/ v.kind = "null"

-----------------------------------------------------------------------------
(* Arrays are maps from indexes to values: a gap reads as null.  Every        *)
(* operation returns the array, its result, and whether an assertion threw.   *)

Null == "null"
EmptyArray == [i \in {} |-> Null]
Size(a) == IF DOMAIN a = {} THEN 0 ELSE Max(DOMAIN a) + 1
ElementAt(a, i) == IF i \in DOMAIN a THEN a[i] ELSE Null
Store(a, i, x) == [j \in DOMAIN a \cup {i} |-> IF j = i THEN x ELSE a[j]]
Touch(a, i) == Store(a, i, ElementAt(a, i))               \* operator[](i), not assigned

Done(a)    == [array |-> a, result |-> TRUE, threw |-> FALSE]
Refused(a) == [array |-> a, result |-> FALSE, threw |-> FALSE]

Assign(a, i, x) == Done(Store(a, i, x))
AppendTo(a, x)  == Done(Store(a, Size(a), x))

Resize(a, newSize) ==
    LET kept  == Restrict(a, {i \in DOMAIN a : i < newSize})
        grown == [i \in DOMAIN a \cup Size(a)..(newSize - 1) |-> ElementAt(a, i)]
    IN  IF newSize = 0 THEN Done(EmptyArray)
        ELSE IF newSize > Size(a) THEN Done(grown)
        ELSE [Done(kept) EXCEPT !.threw = Size(kept) # newSize]

Insert(a, index, x) ==
    LET length == Size(a)
        moved  == [i \in DOMAIN a \cup index..length |->
                    IF i = index THEN x
                    ELSE IF i > index THEN ElementAt(a, i - 1) ELSE a[i]]
    IN  IF index > length THEN Refused(a) ELSE Done(moved)

\* Mutant: the last element is shifted but not erased.
RemoveIndexWithoutErase(a, index) ==
    LET last    == Size(a) - 1
        shifted == [i \in DOMAIN a \cup index..last |->
                        IF i >= index /\ i < last THEN ElementAt(a, i + 1) ELSE ElementAt(a, i)]
    IN  IF index \notin DOMAIN a THEN Refused(a) ELSE Done(shifted)

RemoveIndex(a, index) ==
    LET last    == Size(a) - 1
        shifted == [i \in (DOMAIN a \cup index..last) \ {last} |->
                        IF i >= index THEN ElementAt(a, i + 1) ELSE a[i]]
    IN  IF index \notin DOMAIN a THEN Refused(a) ELSE Done(shifted)

-----------------------------------------------------------------------------
(* Any scalar, and any array.                                                 *)

Scalars == {Scalar("int", n) : n \in MinInt64..ValueMaxLargestInt}
            \cup {Scalar("uint", n) : n \in 0..MaxUInt64}
            \cup {Scalar("real", n) : n \in Doubles}
            \cup {Scalar("bool", 0), Scalar("bool", 1), Scalar("null", 0)}
            \cup {Scalar("string", n) : n \in 0..MaxElements}

ValueInit == scalar \in Scalars /\ array = EmptyArray /\ items = [ok |-> TRUE, seq |-> <<>>]

\* A gap that comes to the end of an array is gone: the size is the last index
\* plus one.  That is where an array stops being a sequence.
EndsInGap(n) == 0 < n /\ n < Size(array) /\ n - 1 \notin DOMAIN array

\* One operation on the array, and the same on a sequence.
Operate(done, seq) ==
    /\ items.ok
    /\ array' = done.array
    /\ items' = [ok  |-> ~(done.threw \/ (done.result /\ EndsInGap(Len(seq)))),
                 seq |-> IF done.result THEN seq ELSE items.seq]
    /\ UNCHANGED scalar

Padded(s, n) == s \o [i \in 1..(n - Len(s)) |-> Null]

DoAssign == \E i \in 0..(MaxElements - 1), x \in Elements :
    Operate(Assign(array, i, x), [Padded(items.seq, i + 1) EXCEPT ![i + 1] = x])
DoTouch == \E i \in 0..(MaxElements - 1) :
    Operate(Done(Touch(array, i)), Padded(items.seq, i + 1))
DoAppend == \E x \in Elements :
    Size(array) < MaxElements /\ Operate(AppendTo(array, x), Append(items.seq, x))
DoInsert == \E i \in 0..MaxElements, x \in Elements :
    /\ Size(array) < MaxElements
    /\ Operate(Insert(array, i, x),
               IF i <= Len(items.seq) THEN InsertAt(items.seq, i + 1, x) ELSE <<>>)
DoRemove == \E i \in 0..MaxElements :
    Operate(RemoveIndex(array, i),
            IF i < Len(items.seq) THEN RemoveAt(items.seq, i + 1) ELSE <<>>)
DoResize == \E n \in 0..MaxElements :
    Operate(Resize(array, n),
            IF n <= Len(items.seq) THEN SubSeq(items.seq, 1, n) ELSE Padded(items.seq, n))

ArrayNext == DoAssign \/ DoTouch \/ DoAppend \/ DoInsert \/ DoRemove \/ DoResize

ValueSpec == ValueInit /\ [][ArrayNext]_valueVars

-----------------------------------------------------------------------------
(* Properties.                                                                *)

\* An array behaves as the sequence it stands for even when it has gaps:
\* an operation that returns normally did to it what it does to a sequence, and
\* one that refuses changed nothing, until a gap comes to its end (removeIndex
\* of the last element then shortens it further, resize throws).
ArrayIsASequence ==
    items.ok =>
        /\ Size(array) = Len(items.seq)
        /\ \A i \in DOMAIN items.seq : ElementAt(array, i - 1) = items.seq[i]

\* Where isX answers yes, asX returns the very value; asX never casts a double
\* its type cannot hold, save the two just beyond the 64-bit types, which the
\* rounded limits of InRange let in; and isConvertibleTo foretells whether asX
\* throws.
ConversionsAgree ==
    LET v == scalar
        exact(is, as) == is => as # {} /\ \A n \in as : 2 * n = Twice(v)
        defined(as) == Cardinality(as) < 2
        beyond == v.kind = "real" /\ v.n \in {2 * ToDouble(ValueMaxLargestInt), 2 * ToDouble(MaxUInt64)}
    IN  /\ exact(IsInt(v), AsInt(v)) /\ exact(IsUInt(v), AsUInt(v))
        /\ exact(IsInt64(v), AsInt64(v)) /\ exact(IsUInt64(v), AsUInt64(v))
        /\ defined(AsInt(v)) /\ defined(AsUInt(v))
        /\ beyond \/ (defined(AsInt64(v)) /\ defined(AsUInt64(v)))
        /\ IsConvertibleTo(v, "int") <=> AsInt(v) # {}
        /\ IsConvertibleTo(v, "uint") <=> AsUInt(v) # {}
        /\ IsConvertibleTo(v, "bool") <=> AsBool(v) # {}
        /\ IsConvertibleTo(v, "null") /\ v.kind # "string" => AsBool(v) = {FALSE}

=============================================================================
