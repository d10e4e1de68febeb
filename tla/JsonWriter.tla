----------------------------- MODULE JsonWriter -----------------------------
(* jsoncpp's four writers, as the lexemes they put out: blanks and tabs are   *)
(* left out, newlines are kept, because a line comment ends at one.  The      *)
(* state w of a writer holds the output and whether the position is indented  *)
(* already (for StyledWriter: whether the last character is a blank).         *)
EXTENDS JsonTree

Text(type) == IF type \in Containers THEN <<>> ELSE <<type>>
Put(w, x)  == [w EXCEPT !.out = @ \o x]

\* A child that needs no lines of its own.
IsSimple(val, q) == val[q].type \notin Containers \/ Children(val, q) = {}
HasCommentForValue(val, q) == val[q].comments # NoComments

-----------------------------------------------------------------------------
(* BuiltStyledStreamWriter and StyledStreamWriter.  The setting c says        *)
(* whether there is an indentation, whether comments are written, what null   *)
(* is printed as, and which arrays stay on one line.                          *)

WriteIndent(c, w) == IF c.indentation THEN Put(w, <<NewLine>>) ELSE w

WriteWithIndent(c, w, x) ==
    [Put(IF w.indented THEN w ELSE WriteIndent(c, w), x) EXCEPT !.indented = FALSE]

PushValue(c, w, type) == Put(w, IF type = "null" THEN c.nullSymbol ELSE Text(type))

\* Mutant: the writer forgets that the comment took the indented position.
WriteCommentAtIndent(c, w, node) ==
    IF ~c.comments \/ node.comments.before = <<>> THEN w
    ELSE Put(IF w.indented THEN w ELSE WriteIndent(c, w), node.comments.before)

WriteCommentBeforeValue(c, w, node) ==
    IF ~c.comments \/ node.comments.before = <<>> THEN w
    ELSE [Put(IF w.indented THEN w ELSE WriteIndent(c, w), node.comments.before)
            EXCEPT !.indented = FALSE]

WriteCommentAfterValueOnSameLine(c, w, node) ==
    LET w1 == Put(w, node.comments.same)
    IN  IF ~c.comments THEN w
        ELSE IF node.comments.after = <<>> THEN w1
        ELSE Put(WriteIndent(c, w1), node.comments.after)

IsMultilineArray(c, val, p) ==
    \/ c.alwaysMultiline
    \/ \E q \in Children(val, p) : ~IsSimple(val, q) \/ HasCommentForValue(val, q)

RECURSIVE WriteValue(_, _, _, _)
RECURSIVE WriteMembers(_, _, _, _, _)
RECURSIVE WriteItems(_, _, _, _, _)

WriteMembers(c, val, w, paths, i) ==
    LET q  == paths[i]
        w1 == WriteWithIndent(c, WriteCommentBeforeValue(c, w, val[q]), <<Last(q)>>)
        w2 == WriteValue(c, val, Put(w1, <<":">>), q)
        w3 == WriteCommentAfterValueOnSameLine(c,
                  IF i = Len(paths) THEN w2 ELSE Put(w2, <<",">>), val[q])
    IN  IF i = Len(paths) THEN w3 ELSE WriteMembers(c, val, w3, paths, i + 1)

WriteItems(c, val, w, paths, i) ==
    LET q  == paths[i]
        w1 == WriteCommentBeforeValue(c, w, val[q])
        w2 == WriteValue(c, val, [(IF w1.indented THEN w1 ELSE WriteIndent(c, w1))
                                    EXCEPT !.indented = TRUE], q)
        w3 == [w2 EXCEPT !.indented = FALSE]
        w4 == WriteCommentAfterValueOnSameLine(c,
                  IF i = Len(paths) THEN w3 ELSE Put(w3, <<",">>), val[q])
    IN  IF i = Len(paths) THEN w4 ELSE WriteItems(c, val, w4, paths, i + 1)

\* An array on one line: no newline anywhere between its brackets.
RECURSIVE WriteOneLine(_, _, _, _, _)
WriteOneLine(c, val, w, paths, i) ==
    LET w1 == WriteValue(c, val, IF i = 1 THEN w ELSE Put(w, <<",">>), paths[i])
    IN  IF i = Len(paths) THEN w1 ELSE WriteOneLine(c, val, w1, paths, i + 1)

WriteValue(c, val, w, p) ==
    LET paths == MemberPaths(val, p)
        type  == val[p].type
    IN  CASE type \notin Containers -> PushValue(c, w, type)
          [] type = "array" /\ paths = <<>> -> Put(w, <<"[", "]">>)
          [] type = "object" /\ paths = <<>> -> Put(w, <<"{", "}">>)
          [] type = "array" /\ paths # <<>> /\ IsMultilineArray(c, val, p) ->
                WriteWithIndent(c, WriteItems(c, val, WriteWithIndent(c, w, <<"[">>), paths, 1),
                                <<"]">>)
          [] type = "array" /\ paths # <<>> /\ ~IsMultilineArray(c, val, p) ->
                Put(WriteOneLine(c, val, Put(w, <<"[">>), paths, 1), <<"]">>)
          [] type = "object" /\ paths # <<>> ->
                WriteWithIndent(c, WriteMembers(c, val, WriteWithIndent(c, w, <<"{">>), paths, 1),
                                <<"}">>)

BuiltWrite(c, val) ==
    LET root == val[<<>>]
        w1 == WriteCommentBeforeValue(c, [out |-> <<>>, indented |-> TRUE], root)
        w2 == [(IF w1.indented THEN w1 ELSE WriteIndent(c, w1)) EXCEPT !.indented = TRUE]
    IN  WriteCommentAfterValueOnSameLine(c, WriteValue(c, val, w2, <<>>), root).out

\* newStreamWriter: commentStyle "All" puts every array on lines of its own.
NewStreamWriter(indentation, comments, dropNull) ==
    [indentation |-> indentation, comments |-> comments, alwaysMultiline |-> comments,
     nullSymbol |-> IF dropNull THEN <<>> ELSE <<"null">>]

\* StreamWriterBuilder::setDefaults, behind operator<< and toStyledString.
DefaultWriter == NewStreamWriter(TRUE, TRUE, FALSE)

\* StyledStreamWriter is the same code before it had settings.
StyledStreamWrite(val) ==
    Append(BuiltWrite([DefaultWriter EXCEPT !.alwaysMultiline = FALSE], val), NewLine)

-----------------------------------------------------------------------------
(* StyledWriter looks back at the text instead: a trailing blank means that   *)
(* it has indented already, at whatever the blank is the end of.              *)

StyledPut(w, x)   == [out |-> w.out \o x, blank |-> FALSE]
StyledSpace(w, x) == [out |-> w.out \o x, blank |-> TRUE]

\* depth is the length of indentString_ in levels.
StyledIndent(w, depth) ==
    IF w.blank THEN w
    ELSE [out |-> IF w.out # <<>> /\ Last(w.out) # NewLine THEN Append(w.out, NewLine) ELSE w.out,
          blank |-> depth > 0]

StyledCommentBefore(w, node, depth) ==
    LET w1 == StyledIndent(StyledPut(w, <<NewLine>>), depth)
    IN  IF node.comments.before = <<>> THEN w
        ELSE StyledPut(w1, Append(node.comments.before, NewLine))

\* A comment that ends with a blank looks like an indentation to what follows.
StyledCommentAfter(w, node) ==
    LET same == node.comments.same
        w1   == IF same = <<>> THEN w
                ELSE IF Last(same) = "//s" THEN StyledSpace(w, same) ELSE StyledPut(w, same)
    IN  IF node.comments.after = <<>> THEN w1
        ELSE StyledPut(w1, <<NewLine>> \o node.comments.after \o <<NewLine>>)

RECURSIVE StyledWriteValue(_, _, _, _)
RECURSIVE StyledWriteChildren(_, _, _, _, _)

StyledWriteChildren(val, w, paths, i, depth) ==
    LET q  == paths[i]
        w1 == StyledIndent(StyledCommentBefore(w, val[q], depth), depth)
        w2 == IF val[Front(q)].type = "array" THEN w1
              ELSE StyledSpace(StyledPut(w1, <<Last(q)>>), <<":">>)
        w3 == StyledWriteValue(val, w2, q, depth)
        w4 == StyledCommentAfter(IF i = Len(paths) THEN w3 ELSE StyledPut(w3, <<",">>), val[q])
    IN  IF i = Len(paths) THEN w4 ELSE StyledWriteChildren(val, w4, paths, i + 1, depth)

RECURSIVE OneLine(_, _, _)
OneLine(val, paths, i) ==
    LET x == IF val[paths[i]].type = "array" THEN <<"[", "]">>
             ELSE IF val[paths[i]].type = "object" THEN <<"{", "}">> ELSE Text(val[paths[i]].type)
    IN  IF i = Len(paths) THEN x ELSE x \o <<",">> \o OneLine(val, paths, i + 1)

StyledIsMultilineArray(val, p) ==
    \E q \in Children(val, p) : ~IsSimple(val, q) \/ HasCommentForValue(val, q)

StyledWriteValue(val, w, p, depth) ==
    LET paths == MemberPaths(val, p)
        type  == val[p].type
        open  == IF type = "array" THEN "[" ELSE "{"
        close == IF type = "array" THEN "]" ELSE "}"
        inner == StyledWriteChildren(val, StyledPut(StyledIndent(w, depth), <<open>>),
                                     paths, 1, depth + 1)
    IN  IF type \notin Containers THEN StyledPut(w, Text(type))
        ELSE IF paths = <<>> THEN StyledPut(w, <<open, close>>)
        ELSE IF type = "array" /\ ~StyledIsMultilineArray(val, p)
             THEN StyledPut(w, <<"[">> \o OneLine(val, paths, 1) \o <<"]">>)
        ELSE StyledPut(StyledIndent(inner, depth), <<close>>)

StyledWrite(val) ==
    LET root == val[<<>>]
        w == StyledCommentBefore([out |-> <<>>, blank |-> FALSE], root, 0)
    IN  Append(StyledCommentAfter(StyledWriteValue(val, w, <<>>, 0), root).out, NewLine)

-----------------------------------------------------------------------------
(* FastWriter: one line, no comments.                                        *)

RECURSIVE FastWriteValue(_, _, _)
RECURSIVE FastWriteChildren(_, _, _, _)

FastWriteChildren(val, paths, i, dropNull) ==
    LET q == paths[i]
        name == IF val[Front(q)].type = "array" THEN <<>> ELSE <<Last(q), ":">>
        rest == IF i = Len(paths) THEN <<>>
                ELSE <<",">> \o FastWriteChildren(val, paths, i + 1, dropNull)
    IN  name \o FastWriteValue(val, q, dropNull) \o rest

FastWriteValue(val, p, dropNull) ==
    LET paths == MemberPaths(val, p)
        type  == val[p].type
        inner == IF paths = <<>> THEN <<>> ELSE FastWriteChildren(val, paths, 1, dropNull)
    IN  IF type = "array" THEN <<"[">> \o inner \o <<"]">>
        ELSE IF type = "object" THEN <<"{">> \o inner \o <<"}">>
        ELSE IF type = "null" /\ dropNull THEN <<>>
        ELSE Text(type)

FastWrite(val, dropNull) == Append(FastWriteValue(val, <<>>, dropNull), NewLine)
=============================================================================
