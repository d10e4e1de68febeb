------------------------------- MODULE MCJson -------------------------------
(* The jsoncpp modules over bounded inputs.  Four kinds of behaviour share    *)
(* the run: a reader fed a document lexeme by lexeme (every document that is  *)
(* a prefix of one some reader could still accept, and the first lexeme that  *)
(* spoils it); a number or a string as text; a scalar; an array under every   *)
(* sequence of operations.                                                    *)
EXTENDS JsonLegacyReader, JsonWriter, JsonText, JsonValue

CONSTANTS MaxLexemes,    \* longest document of any lexemes
          MaxNested,     \* longest document of brackets, two names and comments
          MaxMembers,    \* longest document of objects, two names and a comment
          MaxTrivia      \* most newlines and comments in a document

MCNames == <<"", "1", "a">>

VARIABLES subject,       \* which reader, or "number", "string", "scalar", "array"
          doc, parsed,   \* the document so far and what the reader makes of it
          probe          \* the text
jsonVars == <<subject, doc, parsed, probe, valueVars>>

-----------------------------------------------------------------------------
Lenient == [DefaultFeatures EXCEPT !.allowDroppedNullPlaceholders = TRUE, !.allowNumericKeys = TRUE,
               !.allowSingleQuotes = TRUE, !.allowSpecialFloats = TRUE, !.failIfExtra = TRUE,
               !.stackLimit = 3]
FeaturesOf == [default |-> DefaultFeatures, strict |-> StrictMode, lenient |-> Lenient,
               app |-> LegacyAll, legacyStrict |-> LegacyStrict]
Readers == DOMAIN FeaturesOf
IsLegacy(r) == r \in {"app", "legacyStrict"}
Run(r, d) == IF IsLegacy(r) THEN LegacyParse(FeaturesOf[r], d) ELSE Parse(FeaturesOf[r], d)

Comments == LineComments \cup BlockComments
Trivia   == Comments \cup {NewLine, "/*"}
Lexemes  == {"{", "}", "[", "]", ",", ":", "a", "", "1", "null", "'a'", "NaN", "?", "badstring"}
             \cup Trivia

\* Longer documents of fewer lexemes, for the settings in use.
Vocabularies ==
    {<<{"{", "}", "[", "]", ",", ":", "a", "", NewLine, "//x", "/*x*/"}, MaxNested>>,
     <<{"{", "}", ",", ":", "a", "", "/*x*/", "/*nl*/"}, MaxMembers>>}

\* The reader is still waiting: its first complaint is the end of the document.
Open(s) == IF s.errors = <<>> THEN s.tok = EndOfStream ELSE s.errors[1] = EndOfStream

CodePoints == {0, 10, 34, 92, 47, 127, 128, 2047, 2048, 55295, 57344, 65535, 65536, 1114111}
NumberTexts == {ValueToString(n) : n \in (-150)..300} \cup {<<48, 49>>, <<49, 46, 53>>, <<49, 69, 45, 51>>}
MCDoubles == ((-2 * ValueMaxInt - 4)..(2 * MaxUInt + 4))
               \cup {2 * MinInt64, 2 * ToDouble(ValueMaxLargestInt), 2 * ToDouble(MaxUInt64),
                     2 * MinInt64 - 8}

Idle == [text |-> <<>>]
NoScalar == Scalar("null", 0)
JsonInit ==
    /\ doc = <<>> /\ ValueInit
    /\ subject \in Readers \cup {"scalar", "array", "number", "string"}
    /\ subject # "scalar" => scalar = NoScalar
    /\ parsed = IF subject \in Readers THEN Run(subject, <<>>) ELSE ReaderStart
    /\ probe \in CASE subject = "number" -> [text : NumberTexts]
                   [] subject = "string" -> [text : UNION {[1..n -> CodePoints] : n \in 0..2}]
                   [] OTHER              -> {Idle}

\* What follows "//x" on its line would be part of the comment.
Feed(x) ==
    /\ subject \in Readers /\ Open(parsed)
    /\ \/ Len(doc) < MaxLexemes
       \/ /\ subject \in {"default", "app"}
          /\ \E v \in Vocabularies : Range(doc) \cup {x} \subseteq v[1] /\ Len(doc) < v[2]
    /\ doc # <<>> /\ Last(doc) \in LineComments => x = NewLine
    /\ x \in Trivia => Cardinality({i \in DOMAIN doc : doc[i] \in Trivia}) < MaxTrivia
    /\ doc' = Append(doc, x)
    /\ parsed' = Run(subject, doc')
    /\ UNCHANGED <<subject, probe, valueVars>>

JsonNext == \/ \E x \in Lexemes : Feed(x)
            \/ subject = "array" /\ ArrayNext /\ UNCHANGED <<subject, doc, parsed, probe>>

-----------------------------------------------------------------------------
(* JSON itself: what a comment-free text means.                              *)

NoReading == [none |-> TRUE]
Depth(w, k) == Cardinality({i \in 1..k : w[i] \in {"{", "["}})
               - Cardinality({i \in 1..k : w[i] \in {"}", "]"}})

\* The pieces between the commas that are outside every bracket.
Pieces(w) ==
    LET cuts   == {0, Len(w) + 1} \cup {k \in DOMAIN w : w[k] = "," /\ Depth(w, k) = 0}
        cut(i) == CHOOSE k \in cuts : Cardinality({j \in cuts : j < k}) = i
    IN  [i \in 1..(Cardinality(cuts) - 1) |-> SubSeq(w, cut(i - 1) + 1, cut(i) - 1)]

Hang(name, tree) == [q \in {<<name>> \o p : p \in DOMAIN tree} |-> tree[Tail(q)]]
Merged(trees) == [q \in UNION {DOMAIN trees[i] : i \in DOMAIN trees} |->
                    trees[Max({i \in DOMAIN trees : q \in DOMAIN trees[i]})][q]]

RECURSIVE Reading(_, _)
Reading(f, w) ==
    LET inner    == SubSeq(w, 2, Len(w) - 1)
        isObject == Len(w) > 1 /\ w[1] = "{" /\ Last(w) = "}"
        isArray  == Len(w) > 1 /\ w[1] = "[" /\ Last(w) = "]"
        all      == IF inner = <<>> THEN <<>> ELSE Pieces(inner)
        nameOf(m) == NameOf(m[1])
        trailing == \/ f.allowTrailingCommas /\ (isObject \/ ~f.allowDroppedNullPlaceholders)
                    \* a member named "" looks like no member at all
                    \/ isObject /\ Len(all) > 1 /\ all[Len(all) - 1] # <<>>
                       /\ NameOf(all[Len(all) - 1][1]) = ""
        ps       == IF Len(all) > 1 /\ Last(all) = <<>> /\ trailing THEN Front(all) ELSE all
        member(m) == /\ Len(m) > 1 /\ m[2] = ":"
                     /\ TypeOf(f, m[1]) = "string" \/ (TypeOf(f, m[1]) = "number" /\ f.allowNumericKeys)
        readings == [i \in DOMAIN ps |->
                        IF isArray THEN Reading(f, ps[i])
                        ELSE IF member(ps[i]) THEN Reading(f, SubSeq(ps[i], 3, Len(ps[i])))
                        ELSE NoReading]
        lastOf(i) == ~\E j \in DOMAIN ps : j > i /\ nameOf(ps[j]) = nameOf(ps[i])
    IN  CASE w = <<>> -> IF f.allowDroppedNullPlaceholders THEN <<>> :> "null" ELSE NoReading
          [] Len(w) = 1 -> IF TypeOf(f, w[1]) \in {"string", "number", "literal", "special"}
                           THEN <<>> :> NameOf(w[1]) ELSE NoReading
          [] isArray \/ isObject ->
                IF \/ NoReading \in Range(readings)
                   \/ isObject /\ f.rejectDupKeys /\ \E i \in DOMAIN ps : ~lastOf(i)
                THEN NoReading
                ELSE (<<>> :> IF isArray THEN "array" ELSE "object") @@
                     Merged([i \in DOMAIN ps |->
                                IF isArray THEN Hang(IndexName(i - 1), readings[i])
                                ELSE IF lastOf(i) THEN Hang(nameOf(ps[i]), readings[i])
                                ELSE <<nameOf(ps[i])>> :> "null"])
          [] OTHER -> NoReading

\* A reader that does not insist on the end reads the value at the front.
FrontValue(f, w) ==
    LET fronts == {k \in DOMAIN w : Reading(f, SubSeq(w, 1, k)) # NoReading}
    IN  IF f.failIfExtra \/ fronts = {} THEN w ELSE SubSeq(w, 1, Min(fronts))

Types(val) == [q \in DOMAIN val |-> val[q].type]
Significant(d) == SelectSeq(d, LAMBDA x : x \notin Trivia)
HasComments(d) == \E i \in DOMAIN d : d[i] \in Comments \cup {"/*"}

-----------------------------------------------------------------------------
(* Properties.                                                               *)

\* Under every setting a document without comments is accepted exactly when it
\* is JSON with that setting's extensions, and the value built is the one it
\* denotes: members by name with the last of a duplicate winning, items in
\* order, nothing left over from a value that was replaced (readValue,
\* readObject, readArray of both readers).
ReadsJson ==
    (subject \in Readers /\ ~HasComments(doc) /\ ~parsed.thrown /\ doc # <<>>) =>
        LET f == FeaturesOf[subject]
            meaning == IF Significant(doc) = <<>> THEN NoReading
                       ELSE Reading(f, FrontValue(f, Significant(doc)))
        IN  /\ parsed.ok <=> (meaning # NoReading /\ (f.strictRoot => meaning[<<>>] \in Containers))
            /\ parsed.ok => Types(parsed.val) = meaning

\* Removing the comments from a document that is read without them changes
\* neither the answer nor the value, wherever the comments stand, but for the
\* two places that take none: before a ':' and where a ']' was due.
CommentsChangeNothing ==
    LET bare  == SelectSeq(doc, LAMBDA x : x \notin Trivia)
        plain == Run(subject, bare)
        next(i) == LET later == {j \in DOMAIN doc : j > i /\ doc[j] \notin Trivia}
                   IN  IF later = {} THEN EndOfStream ELSE doc[Min(later)]
        prior(i) == LET earlier == {j \in DOMAIN doc : j < i /\ doc[j] \notin Trivia}
                    IN  IF earlier = {} THEN EndOfStream ELSE doc[Max(earlier)]
        awkward(i) == next(i) = ":" \/ (next(i) = "]" /\ prior(i) \in {"[", ","})
    IN  ( /\ subject \in {"default", "app"} /\ HasComments(doc)
          /\ \A i \in DOMAIN doc : doc[i] # "/*" /\ (doc[i] \in Comments => ~awkward(i))
          /\ plain.ok )
        => parsed.ok /\ Types(parsed.val) = Types(plain.val)

\* The comments of a document that was read to its end without a duplicate
\* name are all in the tree, each once, whatever values they were waiting
\* for: OurReader's lastValueHasAComment_ is what the older Reader lacks.
NoCommentIsLost ==
    LET stored == FoldFunction(LAMBDA node, n :
                      n + Len(SelectSeq(node.comments.before \o node.comments.same
                                          \o node.comments.after, LAMBDA x : x \in Comments)),
                      0, parsed.val)
        names(k) == Cardinality({i \in DOMAIN doc : i < Len(doc) /\ doc[i] = k})
    IN  ( /\ subject \in {"default", "lenient"} /\ parsed.ok /\ parsed.tok = EndOfStream
          /\ \A k \in Range(MCNames) : names(k) < 2 )
        => stored = Len(SelectSeq(doc, LAMBDA x : x \in Comments))

EndsInBlank(val) == \E q \in DOMAIN val : val[q].comments.same # <<>> /\ Last(val[q].comments.same) = "//s"
Uncommented(val) == [q \in DOMAIN val |-> [val[q] EXCEPT !.comments = NoComments]]

\* What a reader accepted, printed and read again is the same tree with the
\* same comments in the same places: through operator<< (as app.cpp prints its
\* messages) and StyledStreamWriter always, through StyledWriter unless a
\* comment on a value's line ends with a blank, through FastWriter and the
\* compact setting with the comments gone.
WhatIsWrittenReadsBack ==
    (subject \in {"default", "app"} /\ parsed.ok) =>
        LET v == parsed.val
            again(d) == Run(subject, d).val
        IN  /\ again(BuiltWrite(DefaultWriter, v)) = v
            /\ again(StyledStreamWrite(v)) = v
            /\ ~EndsInBlank(v) => again(StyledWrite(v)) = v
            /\ again(FastWrite(v, FALSE)) = Uncommented(v)
            /\ again(BuiltWrite(NewStreamWriter(FALSE, FALSE, FALSE), v)) = Uncommented(v)

ValueOf(t) ==
    LET digits == SelectSeq(t, IsDigit)
        n == FoldLeft(LAMBDA acc, c : 10 * acc + c - Zero, 0, digits)
    IN  IF t[1] = Minus THEN -n ELSE n

\* Every integer the widest types hold is read as itself, by both readers, and
\* one beyond them as a double and never as a wrapped integer; every string of
\* Unicode text comes back from its escaped form, with its closing quote found
\* (decodeNumber, valueToString, valueToQuotedStringN, decodeString).
TextIsExact ==
    LET t == probe.text
        text == FlattenSeq([i \in DOMAIN t |-> CodePointToUTF8(t[i])])
        whole == \A i \in 2..Len(t) : IsDigit(t[i])
    IN  /\ subject = "number" =>
            /\ ReadNumber(t \o <<44>>, 2) = Len(t) + 1
            /\ whole /\ ValueOf(t) \in MinLargestInt..MaxLargestUInt =>
                 /\ DecodeNumber(t).value = ValueOf(t) /\ LegacyDecodeNumber(t).value = ValueOf(t)
                 /\ DecodeNumber(t).kind = "uint" <=> ValueOf(t) > MaxLargestInt
                 /\ LegacyDecodeNumber(t).kind = "uint" <=> ValueOf(t) > MaxInt
            /\ ~(whole /\ ValueOf(t) \in MinLargestInt..MaxLargestUInt) =>
                 DecodeNumber(t) = Real(t) /\ LegacyDecodeNumber(t) = Real(t)
        /\ subject = "string" =>
            \A emitUTF8 \in BOOLEAN :
                LET quoted == ValueToQuotedStringN(text, emitUTF8)
                IN  /\ ReadString(quoted \o <<Quote>>, 2, Quote) = Len(quoted) + 1
                    /\ DecodeString(quoted) = <<TRUE, text>>

=============================================================================
