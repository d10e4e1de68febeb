----------------------------- MODULE JsonReader -----------------------------
(* jsoncpp's OurReader, the parser behind Json::CharReaderBuilder: a          *)
(* recursive descent over the lexemes of a document d, under the features f.  *)
(* The state s of a parse holds the reader's members: current_ (pos, the next *)
(* lexeme), the tree built so far, the last value and where it ended, the     *)
(* comments waiting for a value, the errors (the token each was raised at),   *)
(* and of the call that just returned its result (ok) and its token (tok).    *)
EXTENDS JsonTree

EndOfStream == "end"

ReaderStart == [pos |-> 1, val |-> (<<>> :> NullNode), ok |-> TRUE, tok |-> EndOfStream,
                text |-> "", last |-> NoPath, lastEnd |-> 0, lastHas |-> FALSE,
                before |-> <<>>, errors |-> <<>>, thrown |-> FALSE]

Lexeme(d, i) == IF i \in DOMAIN d THEN d[i] ELSE EndOfStream

-----------------------------------------------------------------------------
(* Tokens and comments.                                                      *)

SkipSpaces(d, i) == CHOOSE j \in i..(i + Len(d)) :
                        Lexeme(d, j) # NewLine /\ \A k \in i..(j - 1) : d[k] = NewLine

ContainsNewLine(d, from, to) == \E i \in from..(to - 1) : d[i] \in {NewLine, "/*nl*/"}

TypeOf(f, x) ==
    CASE x \in Range(Names) \ Numbers -> "string"
      [] x \in Numbers -> "number"
      [] x \in Literals -> "literal"
      [] x = "'a'" /\ f.allowSingleQuotes -> "string"
      [] x \in Specials /\ f.allowSpecialFloats -> "special"
      [] x \in {"{", "}", "[", "]", ",", ":", "badstring", EndOfStream} -> x
      [] OTHER -> "error"

AddComment(s, placement, text) ==
    IF placement = "same" THEN [s EXCEPT !.val = SetComment(@, s.last, "same", text)]
    ELSE [s EXCEPT !.before = @ \o text]

\* Mutant: after a carriage return the next character is taken unseen.
CommentEndPastTheLine(d, i) ==
    IF d[i] \in BlockComments THEN i + 1
    ELSE CHOOSE j \in (i + 1)..(Len(d) + 1) :
            /\ \A k \in i..(j - 3) : d[k] # NewLine
            /\ j = Len(d) + 1 \/ (d[i] \in LineComments /\ j > i + 2 /\ d[j - 2] = NewLine)

\* readCStyleComment and readCppStyleComment: the position after the comment.
CommentEnd(d, i) ==
    IF d[i] \in BlockComments THEN i + 1
    ELSE CHOOSE j \in (i + 1)..(Len(d) + 1) :
            /\ \A k \in i..(j - 2) : d[k] # NewLine
            /\ j = Len(d) + 1 \/ (d[i] \in LineComments /\ d[j - 1] = NewLine)

\* Mutant: the older Reader's rule, a second comment replaces the first.
ReadCommentOver(f, d, i, s) ==
    LET next == CommentEnd(d, i)
        onSameLine == /\ s.lastEnd # 0 /\ ~ContainsNewLine(d, s.lastEnd, i)
                      /\ d[i] \in LineComments \/ d[i] # "/*nl*/"
        read == [s EXCEPT !.pos = next, !.tok = "comment", !.ok = TRUE]
    IN  IF d[i] = "/*" THEN [s EXCEPT !.pos = next, !.tok = "error", !.ok = FALSE]
        ELSE IF ~f.collect THEN read
        ELSE AddComment(read, IF onSameLine THEN "same" ELSE "before", SubSeq(d, i, next - 1))

ReadComment(f, d, i, s) ==
    LET next == CommentEnd(d, i)
        onSameLine == /\ ~s.lastHas
                      /\ s.lastEnd # 0 /\ ~ContainsNewLine(d, s.lastEnd, i)
                      /\ d[i] \in LineComments \/ d[i] # "/*nl*/"
        read == [s EXCEPT !.pos = next, !.tok = "comment", !.ok = TRUE]
    IN  IF d[i] = "/*" THEN [s EXCEPT !.pos = next, !.tok = "error", !.ok = FALSE]
        ELSE IF ~f.collect THEN read
        ELSE AddComment([read EXCEPT !.lastHas = @ \/ onSameLine],
                        IF onSameLine THEN "same" ELSE "before", SubSeq(d, i, next - 1))

ReadToken(f, d, s) ==
    LET i == SkipSpaces(d, s.pos)
        x == Lexeme(d, i)
    IN  IF x \in CommentStarts THEN ReadComment(f, d, i, s)
        ELSE [s EXCEPT !.pos = IF i > Len(d) THEN i ELSE i + 1,
                       !.tok = TypeOf(f, x), !.text = x, !.ok = TypeOf(f, x) # "error"]

RECURSIVE ReadPastComments(_, _, _)
ReadPastComments(f, d, s) ==
    LET t == ReadToken(f, d, s) IN IF t.tok = "comment" THEN ReadPastComments(f, d, t) ELSE t

\* Continues past comments from a token already read.
AfterComments(f, d, s) == IF s.tok = "comment" THEN ReadPastComments(f, d, s) ELSE s

SkipCommentTokens(f, d, s) ==
    IF f.allowComments THEN ReadPastComments(f, d, s) ELSE ReadToken(f, d, s)

-----------------------------------------------------------------------------
(* Errors.                                                                   *)

AddError(s) == [s EXCEPT !.errors = Append(@, s.tok), !.ok = FALSE]

RECURSIVE SkipUntil(_, _, _, _)
SkipUntil(f, d, s, token) ==
    LET t == ReadToken(f, d, s)
    IN  IF t.tok \in {token, EndOfStream} THEN t ELSE SkipUntil(f, d, t, token)

\* Errors met while recovering are discarded; an exception is not recovered from.
RecoverFromError(f, d, s, token) ==
    IF s.thrown THEN s
    ELSE [SkipUntil(f, d, s, token) EXCEPT !.errors = s.errors, !.ok = FALSE]

AddErrorAndRecover(f, d, s, token) == RecoverFromError(f, d, AddError(s), token)

-----------------------------------------------------------------------------
(* Values.                                                                   *)

RECURSIVE ReadValue(_, _, _, _)
RECURSIVE ReadMembers(_, _, _, _, _)
RECURSIVE ReadItems(_, _, _, _, _)

NameOf(text) == IF text = "'a'" THEN "a" ELSE text

\* readObject's loop, from its end to its start.  name is the member read last,
\* "" at first; s has read the token the stage begins with.
NextMember(f, d, p, s, name) ==
    IF s.tok = "}" THEN s ELSE ReadMembers(f, d, p, s, name)

AfterMember(f, d, p, s, name) ==
    IF s.tok \notin {"}", ",", "comment"} THEN AddErrorAndRecover(f, d, s, "}")
    ELSE NextMember(f, d, p, AfterComments(f, d, s), name)

EndMember(f, d, p, s, name) ==
    IF ~s.ok THEN RecoverFromError(f, d, s, "}")
    ELSE AfterMember(f, d, p, ReadToken(f, d, s), name)

ReadMember(f, d, p, s, name) ==
    LET member == Append(p, name)
    IN  IF s.tok # ":" THEN AddErrorAndRecover(f, d, s, "}")
        ELSE EndMember(f, d, p,
                ReadValue(f, d, member, [s EXCEPT !.val = ResolveReference(@, member)]), name)

ReadName(f, d, p, s, name) ==
    IF s.tok = "}" /\ (name = "" \/ f.allowTrailingCommas) THEN s
    ELSE IF s.tok = "badstring" THEN RecoverFromError(f, d, AddError(s), "}")
    ELSE IF \/ ~(s.tok = "string" \/ (s.tok = "number" /\ f.allowNumericKeys))
            \/ f.rejectDupKeys /\ Append(p, NameOf(s.text)) \in DOMAIN s.val
         THEN AddErrorAndRecover(f, d, s, "}")
    ELSE ReadMember(f, d, p, ReadToken(f, d, s), NameOf(s.text))

ReadMembers(f, d, p, s, name) ==
    ReadName(f, d, p, AfterComments(f, d, ReadToken(f, d, s)), name)

ReadObject(f, d, p, s) ==
    ReadMembers(f, d, p, [s EXCEPT !.val = SwapPayload(@, p, "object")], "")

\* readArray's loop, in the same order; index is the item's.
AfterItem(f, d, p, s, index) ==
    IF s.tok \notin {",", "]"} THEN AddErrorAndRecover(f, d, s, "]")
    ELSE IF s.tok = "]" THEN s
    ELSE ReadItems(f, d, p, s, index + 1)

EndItem(f, d, p, s, index) ==
    IF ~s.ok THEN RecoverFromError(f, d, s, "]")
    ELSE AfterItem(f, d, p, AfterComments(f, d, ReadToken(f, d, s)), index)

ReadItems(f, d, p, s, index) ==
    LET item == Append(p, IndexName(index))
    IN  IF /\ Lexeme(d, SkipSpaces(d, s.pos)) = "]"
           /\ index = 0 \/ (f.allowTrailingCommas /\ ~f.allowDroppedNullPlaceholders)
        THEN [ReadToken(f, d, s) EXCEPT !.ok = TRUE]
        ELSE EndItem(f, d, p,
                ReadValue(f, d, item, [s EXCEPT !.val = ResolveReference(@, item)]), index)

ReadArray(f, d, p, s) ==
    ReadItems(f, d, p, [s EXCEPT !.val = SwapPayload(@, p, "array")], 0)

\* Mutant: a dropped null placeholder keeps the separator it was found at.
ReadPayloadAndSeparator(f, d, p, s) ==
    CASE s.tok = "{" -> ReadObject(f, d, p, s)
      [] s.tok = "[" -> ReadArray(f, d, p, s)
      [] s.tok \in {"number", "string", "literal", "special"} ->
            [s EXCEPT !.val = SwapPayload(@, p, NameOf(s.text))]
      [] s.tok = "badstring" -> AddError(s)
      [] OTHER -> [s EXCEPT !.val = SwapPayload(@, p, "null")]

ReadPayload(f, d, p, s) ==
    CASE s.tok = "{" -> ReadObject(f, d, p, s)
      [] s.tok = "[" -> ReadArray(f, d, p, s)
      [] s.tok \in {"number", "string", "literal", "special"} ->
            [s EXCEPT !.val = SwapPayload(@, p, NameOf(s.text))]
      [] s.tok = "badstring" -> AddError(s)
      [] OTHER -> [s EXCEPT !.pos = @ - 1, !.val = SwapPayload(@, p, "null")]

\* setComment of the comments waiting for the value at p (parse leaves those after the root
\* value in commentsBefore_ and clears them when it is called again).
TakeComments(p, placement, s) ==
    IF s.before = <<>> THEN s
    ELSE [s EXCEPT !.val = SetComment(@, p, placement, s.before), !.before = <<>>]

EndValue(f, p, s) ==
    IF s.thrown \/ ~f.collect THEN s
    ELSE [s EXCEPT !.last = p, !.lastEnd = s.pos, !.lastHas = FALSE]

ReadStarted(f, d, p, s) ==
    IF \/ s.tok \in {"{", "[", "number", "string", "literal", "special", "badstring"}
       \/ s.tok \in {",", "}", "]"} /\ f.allowDroppedNullPlaceholders
    THEN EndValue(f, p, ReadPayload(f, d, p, [s EXCEPT !.ok = TRUE]))
    ELSE AddError(s)

\* Depth is the size of nodes_, the root included.
ReadValue(f, d, p, s) ==
    IF Len(p) + 1 > f.stackLimit THEN [s EXCEPT !.thrown = TRUE, !.ok = FALSE]
    ELSE ReadStarted(f, d, p, TakeComments(p, "before", SkipCommentTokens(f, d, s)))

\* What parse does after the root value, whose result was ok.
CheckRoot(f, s, ok) ==
    IF f.failIfExtra /\ s.tok # EndOfStream THEN AddError(s)
    ELSE IF f.strictRoot /\ s.val[<<>>].type \notin Containers
         THEN AddError(TakeComments(<<>>, "after", s))
    ELSE [TakeComments(<<>>, "after", s) EXCEPT !.ok = ok]

FinishParse(f, d, s) ==
    IF s.thrown THEN s ELSE CheckRoot(f, SkipCommentTokens(f, d, s), s.ok)

Parse(features, d) ==
    LET f == [features EXCEPT !.collect = @ /\ features.allowComments]
    IN  FinishParse(f, d, ReadValue(f, d, <<>>, ReaderStart))

-----------------------------------------------------------------------------
(* CharReaderBuilder::setDefaults and strictMode (which leaves               *)
(* collectComments as it was; without allowComments it does not matter).     *)

DefaultFeatures ==
    [collect |-> TRUE, allowComments |-> TRUE, allowTrailingCommas |-> TRUE,
     strictRoot |-> FALSE, allowDroppedNullPlaceholders |-> FALSE,
     allowNumericKeys |-> FALSE, allowSingleQuotes |-> FALSE, stackLimit |-> 1000,
     failIfExtra |-> FALSE, rejectDupKeys |-> FALSE, allowSpecialFloats |-> FALSE]

StrictMode ==
    [collect |-> TRUE, allowComments |-> FALSE, allowTrailingCommas |-> FALSE,
     strictRoot |-> TRUE, allowDroppedNullPlaceholders |-> FALSE,
     allowNumericKeys |-> FALSE, allowSingleQuotes |-> FALSE, stackLimit |-> 1000,
     failIfExtra |-> TRUE, rejectDupKeys |-> TRUE, allowSpecialFloats |-> FALSE]
=============================================================================
