------------------------------ MODULE JsonTree ------------------------------
(* What jsoncpp's readers and writers work on.  A document is a sequence of   *)
(* lexemes; a Json::Value with everything below it is a function from paths   *)
(* (member names and array indexes, from the root) to nodes.  A node's        *)
(* payload can be replaced under its comments, as Value::swapPayload does.    *)
EXTENDS Integers, Sequences, FiniteSets, SequencesExt

CONSTANT Names       \* member names, in the order of std::map; "" may be one

NewLine == "nl"

(* Lexemes.  A line comment takes every lexeme up to its newline.            *)
LineComments  == {"//x", "//s"}                        \* "//s" ends with a blank
BlockComments == {"/*x*/", "/*y*/", "/*nl*/"}           \* the last holds a newline
CommentStarts == LineComments \cup BlockComments \cup {"/*"}   \* "/*" is never closed
Numbers  == {"1"}
Literals == {"null", "true"}
Specials == {"NaN"}                                     \* also Infinity, -Infinity
NoPath == <<"none">>

NoComments == [before |-> <<>>, same |-> <<>>, after |-> <<>>]
NullNode   == [type |-> "null", comments |-> NoComments]
Containers == {"array", "object"}

-----------------------------------------------------------------------------
IsBelow(q, p) == Len(q) > Len(p) /\ SubSeq(q, 1, Len(p)) = p

\* Value::swapPayload: what hung below the node goes with its old payload.
SwapPayload(val, p, type) ==
    [q \in {q \in DOMAIN val : ~IsBelow(q, p)} |->
        IF q = p THEN [val[q] EXCEPT !.type = type] ELSE val[q]]

\* Value::operator[] for a name or an index the container may not have yet.
ResolveReference(val, p) == IF p \in DOMAIN val THEN val ELSE val @@ (p :> NullNode)

\* Value::setComment drops one trailing newline.
TrimEnd(text) == IF text # <<>> /\ Last(text) = NewLine THEN Front(text) ELSE text
SetComment(val, p, placement, text) ==
    [val EXCEPT ![p].comments[placement] = TrimEnd(text)]

\* Value::size of an array or an object without gaps, and its members in order.
Children(val, p) == {q \in DOMAIN val : Len(q) = Len(p) + 1 /\ SubSeq(q, 1, Len(p)) = p}
IndexName(i) == ToString(i)
GetMemberNames(val, p) == SelectSeq(Names, LAMBDA n : Append(p, n) \in DOMAIN val)
MemberPaths(val, p) ==
    IF val[p].type = "array"
    THEN [i \in 1..Cardinality(Children(val, p)) |-> Append(p, IndexName(i - 1))]
    ELSE LET m == GetMemberNames(val, p) IN [i \in DOMAIN m |-> Append(p, m[i])]
=============================================================================
