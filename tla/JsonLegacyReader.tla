-------------------------- MODULE JsonLegacyReader --------------------------
(* jsoncpp's older Reader, which echo-worker-cpp's onMessage parses every     *)
(* message with.  OurReader began as a copy of it ("complete copy of Read     *)
(* impl"), so what the copies share is taken from JsonReader; the operators   *)
(* below are the ones whose code differs: no trailing commas, no duplicate    *)
(* keys check, no end-of-document check, a fixed stack limit, and comments    *)
(* that may replace one another.                                              *)
EXTENDS JsonReader

\* Features::all and Features::strictMode; parse collects comments by default.
LegacyAll ==
    [DefaultFeatures EXCEPT !.allowTrailingCommas = FALSE]
LegacyStrict ==
    [LegacyAll EXCEPT !.allowComments = FALSE, !.strictRoot = TRUE]

LegacyReadComment(f, d, i, s) ==
    LET next == CommentEnd(d, i)
        onSameLine == /\ s.lastEnd # 0 /\ ~ContainsNewLine(d, s.lastEnd, i)
                      /\ d[i] \in LineComments \/ ~ContainsNewLine(d, i, next)
        read == [s EXCEPT !.pos = next, !.tok = "comment", !.ok = TRUE]
    IN  IF d[i] = "/*" THEN [s EXCEPT !.pos = next, !.tok = "error", !.ok = FALSE]
        ELSE IF ~f.collect THEN read
        ELSE AddComment(read, IF onSameLine THEN "same" ELSE "before", SubSeq(d, i, next - 1))

LegacyReadToken(f, d, s) ==
    LET i == SkipSpaces(d, s.pos)
        x == Lexeme(d, i)
    IN  IF x \in CommentStarts THEN LegacyReadComment(f, d, i, s)
        ELSE [s EXCEPT !.pos = IF i > Len(d) THEN i ELSE i + 1,
                       !.tok = TypeOf(f, x), !.text = x, !.ok = TypeOf(f, x) # "error"]

RECURSIVE LegacyReadPastComments(_, _, _)
LegacyReadPastComments(f, d, s) ==
    LET t == LegacyReadToken(f, d, s)
    IN  IF t.tok = "comment" THEN LegacyReadPastComments(f, d, t) ELSE t

LegacyAfterComments(f, d, s) == IF s.tok = "comment" THEN LegacyReadPastComments(f, d, s) ELSE s

LegacySkipCommentTokens(f, d, s) ==
    IF f.allowComments THEN LegacyReadPastComments(f, d, s) ELSE LegacyReadToken(f, d, s)

RECURSIVE LegacySkipUntil(_, _, _, _)
LegacySkipUntil(f, d, s, token) ==
    LET t == LegacyReadToken(f, d, s)
    IN  IF t.tok \in {token, EndOfStream} THEN t ELSE LegacySkipUntil(f, d, t, token)

LegacyRecoverFromError(f, d, s, token) ==
    IF s.thrown THEN s
    ELSE [LegacySkipUntil(f, d, s, token) EXCEPT !.errors = s.errors, !.ok = FALSE]

LegacyAddErrorAndRecover(f, d, s, token) == LegacyRecoverFromError(f, d, AddError(s), token)

-----------------------------------------------------------------------------
RECURSIVE LegacyReadValue(_, _, _, _)
RECURSIVE LegacyReadMembers(_, _, _, _, _)
RECURSIVE LegacyReadItems(_, _, _, _, _)

LegacyNextMember(f, d, p, s, name) ==
    IF s.tok = "}" THEN s ELSE LegacyReadMembers(f, d, p, s, name)

LegacyAfterMember(f, d, p, s, name) ==
    IF s.tok \notin {"}", ",", "comment"} THEN LegacyAddErrorAndRecover(f, d, s, "}")
    ELSE LegacyNextMember(f, d, p, LegacyAfterComments(f, d, s), name)

LegacyEndMember(f, d, p, s, name) ==
    IF ~s.ok THEN LegacyRecoverFromError(f, d, s, "}")
    ELSE LegacyAfterMember(f, d, p, LegacyReadToken(f, d, s), name)

LegacyReadMember(f, d, p, s, name) ==
    LET member == Append(p, name)
    IN  IF s.tok # ":" THEN LegacyAddErrorAndRecover(f, d, s, "}")
        ELSE LegacyEndMember(f, d, p,
                LegacyReadValue(f, d, member, [s EXCEPT !.val = ResolveReference(@, member)]), name)

LegacyReadName(f, d, p, s, name) ==
    IF s.tok = "}" /\ name = "" THEN s
    ELSE IF s.tok = "badstring" THEN LegacyRecoverFromError(f, d, AddError(s), "}")
    ELSE IF ~(s.tok = "string" \/ (s.tok = "number" /\ f.allowNumericKeys))
         THEN LegacyAddErrorAndRecover(f, d, s, "}")
    ELSE LegacyReadMember(f, d, p, LegacyReadToken(f, d, s), NameOf(s.text))

LegacyReadMembers(f, d, p, s, name) ==
    LegacyReadName(f, d, p, LegacyAfterComments(f, d, LegacyReadToken(f, d, s)), name)

LegacyAfterItem(f, d, p, s, index) ==
    IF s.tok \notin {",", "]"} THEN LegacyAddErrorAndRecover(f, d, s, "]")
    ELSE IF s.tok = "]" THEN s
    ELSE LegacyReadItems(f, d, p, s, index + 1)

LegacyEndItem(f, d, p, s, index) ==
    IF ~s.ok THEN LegacyRecoverFromError(f, d, s, "]")
    ELSE LegacyAfterItem(f, d, p, LegacyAfterComments(f, d, LegacyReadToken(f, d, s)), index)

LegacyReadItems(f, d, p, s, index) ==
    LET item == Append(p, IndexName(index))
    IN  LegacyEndItem(f, d, p,
            LegacyReadValue(f, d, item, [s EXCEPT !.val = ResolveReference(@, item)]), index)

\* An empty array is recognised once, before the loop.
LegacyReadArray(f, d, p, s) ==
    LET s1 == [s EXCEPT !.val = SwapPayload(@, p, "array")]
    IN  IF Lexeme(d, SkipSpaces(d, s.pos)) = "]" THEN LegacyReadToken(f, d, s1)
        ELSE LegacyReadItems(f, d, p, s1, 0)

LegacyReadPayload(f, d, p, s) ==
    CASE s.tok = "{" ->
            LegacyReadMembers(f, d, p, [s EXCEPT !.val = SwapPayload(@, p, "object")], "")
      [] s.tok = "[" -> LegacyReadArray(f, d, p, s)
      [] s.tok \in {"number", "string", "literal"} ->
            [s EXCEPT !.val = SwapPayload(@, p, s.text)]
      [] s.tok = "badstring" -> AddError(s)
      [] OTHER -> [s EXCEPT !.pos = @ - 1, !.val = SwapPayload(@, p, "null")]

LegacyEndValue(f, p, s) ==
    IF s.thrown \/ ~f.collect THEN s ELSE [s EXCEPT !.last = p, !.lastEnd = s.pos]

LegacyReadStarted(f, d, p, s) ==
    IF \/ s.tok \in {"{", "[", "number", "string", "literal", "badstring"}
       \/ s.tok \in {",", "}", "]"} /\ f.allowDroppedNullPlaceholders
    THEN LegacyEndValue(f, p, LegacyReadPayload(f, d, p, [s EXCEPT !.ok = TRUE]))
    ELSE AddError(s)

LegacyReadValue(f, d, p, s) ==
    IF Len(p) + 1 > f.stackLimit THEN [s EXCEPT !.thrown = TRUE, !.ok = FALSE]
    ELSE LegacyReadStarted(f, d, p,
            TakeComments(p, "before", LegacySkipCommentTokens(f, d, s)))

LegacyCheckRoot(f, s, ok) ==
    IF f.strictRoot /\ s.val[<<>>].type \notin Containers THEN AddError(s)
    ELSE [s EXCEPT !.ok = ok]

LegacyFinishParse(f, d, s) ==
    IF s.thrown THEN s
    ELSE LegacyCheckRoot(f, TakeComments(<<>>, "after", LegacySkipCommentTokens(f, d, s)), s.ok)

LegacyParse(features, d) ==
    LET f == [features EXCEPT !.collect = @ /\ features.allowComments]
    IN  LegacyFinishParse(f, d, LegacyReadValue(f, d, <<>>, ReaderStart))
=============================================================================
