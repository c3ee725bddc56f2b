----------------------------- MODULE ConfigText -----------------------------
(***************************************************************************)
(* The configuration parser of src/src/config.cpp and                      *)
(* src/include/tac/config.hpp: Document::parse_doc over a CharStream.      *)
(*                                                                         *)
(* A text is a sequence of character classes: a digit that can begin a     *)
(* number for parseToEndOfLine ("1": 1 to 8), one that cannot ("0": 0 and  *)
(* 9), blank, newline, colon, dash, backslash, dot, "e", and a letter.     *)
(* pos is the stream's iterator, Len(text) + 1 its end.  Of a document we  *)
(* keep its members in the order of their keys, each with the depth of     *)
(* parse_doc's recursion, where its key is, and the kind of its value.     *)
(* Values are not kept: Value's containers are declared, not defined, and  *)
(* parse_trivial returns a reference to a temporary.  A name that Cli has  *)
(* as well has cs or parse in front here: ReaderProofs extends both.       *)
(***************************************************************************)
EXTENDS Integers, Sequences

CONSTANTS
    Texts,    \* the inputs
    NDEBUG    \* assert() is compiled out, as in Debug builds

Classes == {"k", "e", "1", "0", "dot", "blank", "nl", "colon", "dash", "back"}

ASSUME TextsAssumption == \A t \in Texts : t \in Seq(Classes)
ASSUME NDEBUGAssumption == NDEBUG \in BOOLEAN

VARIABLES
    text,
    behind,    \* what the text's memory goes on with: "colon", or any "other" character
    pos, step, depth, members

parseVars == <<text, behind, pos, step, depth, members>>

-----------------------------------------------------------------------------
(***************************************************************************)
(* CharStream                                                              *)
(***************************************************************************)
CsHasNext(i) == i # Len(text) + 1

\* rawPeek: NUL at the end.
RawPeek(i) == IF i \in 1..Len(text) THEN text[i] ELSE "end"

\* The first position from i on whose character is not in C.
SkipAll(i, C) == CHOOSE j \in i..(Len(text) + 1) :
                    /\ RawPeek(j) \notin C
                    /\ \A m \in i..(j - 1) : text[m] \in C

SkipWitespace(i) == SkipAll(i, {"blank"})

\* peek looks through a backslash, be it the last character of the text: a
\* string_view has no NUL at its end.  next steps over it and what it escapes.
CsPeek(i)  == IF RawPeek(i) # "back" THEN RawPeek(i)
              ELSE IF i = Len(text) THEN behind ELSE RawPeek(i + 1)
CsAfter(i) == IF RawPeek(i) = "back" THEN i + 2 ELSE i + 1

\* Defect variants (...With..., ...Without...): no specification uses them.
\* Each is the definition that follows it with one plausible bug.

\* The loop's hasNext() is missing.
StopsAtWithoutEnd(i) == CsPeek(i) = "colon"

StopsAt(i) == ~CsHasNext(i) \/ CsPeek(i) = "colon"

\* Where parseKey, from i on, stops; Len(text) + 2 is a step over the end, from
\* where the loop would go on through foreign memory.
KeyEnd(i) ==
    LET f[j \in i..(Len(text) + 2)] ==
            IF j > Len(text) + 1 \/ StopsAt(j) THEN j ELSE f[CsAfter(j)]
    IN f[i]

Digits == {"0", "1"}

\* Whatever is left of the line makes a number a string.
KindWithoutRest(i) ==
    IF RawPeek(i) = "1" THEN "int" ELSE IF CsHasNext(i) THEN "str" ELSE "float"

\* parseToEndOfLine.  parseFloatAfterDot and the exponent's parseInt stand still
\* on the "." and the "e" in front of them, so that what is left of the line
\* makes the value a string; a value that begins with no digit and has nothing
\* left is a Float.
Kind(i) ==
    LET j == IF RawPeek(i) = "1" THEN SkipAll(i, Digits) ELSE i IN
    IF CsHasNext(j) /\ RawPeek(j) # "nl" THEN "str"
    ELSE IF RawPeek(i) = "1" THEN "int" ELSE "float"

\* The newline is taken with the line, be there one or not.
LineEndWithBreak(i) == SkipAll(i, Classes \ {"nl"}) + 1

\* The newline is taken with the line.
LineEndWithBreakIfAny(i) ==
    LET j == SkipAll(i, Classes \ {"nl"}) IN IF CsHasNext(j) THEN j + 1 ELSE j

\* skipUntilEndOfLine.
LineEnd(i) == SkipAll(i, Classes \ {"nl"})

(***************************************************************************)
(* Document::parse_doc                                                     *)
(***************************************************************************)
ParseInit ==
    /\ text \in Texts /\ behind \in {"colon", "other"}
    /\ pos = 1 /\ step = "doc" /\ depth = 1 /\ members = <<>>

\* Only the recursive calls look at hasNext().
ReturnWithoutOutermost ==
    /\ step = "doc" /\ ~CsHasNext(pos) /\ depth > 1
    /\ depth' = depth - 1
    /\ UNCHANGED <<text, behind, pos, step, members>>

\* The loop of parse_doc is over, and with the stream at its end the loops of
\* all its callers.
Return ==
    /\ step = "doc" /\ ~CsHasNext(pos)
    /\ IF depth = 1 THEN step' = "done" /\ UNCHANGED depth
       ELSE depth' = depth - 1 /\ UNCHANGED step
    /\ UNCHANGED <<text, behind, pos, members>>

\* parseKey, assertChar(':') and the blanks around.  The key goes to the next
\* colon, through line ends.  An escaped colon stops peek, but not the assert, nor
\* does a colon behind a backslash that ends the text.
Key ==
    /\ step = "doc" /\ CsHasNext(pos)
    /\ LET from == SkipWitespace(pos)
           to   == KeyEnd(from)
       IN
       \/ to > Len(text) + 1 /\ step' = "overrun" /\ UNCHANGED <<pos, members>>
       \/ to = Len(text) + 1 /\ step' = "throw" /\ UNCHANGED <<pos, members>>
       \/ /\ to <= Len(text) /\ text[to] # "colon" /\ ~NDEBUG
          /\ step' = "abort" /\ UNCHANGED <<pos, members>>
       \/ /\ to <= Len(text) /\ (text[to] = "colon" \/ NDEBUG)
          /\ pos' = SkipWitespace(to + 1)
          /\ members' = Append(members,
                              [depth |-> depth, from |-> from, to |-> to, kind |-> "none"])
          /\ step' = "value"
    /\ UNCHANGED <<text, behind, depth>>

SetKind(kind) == members' = [members EXCEPT ![Len(members)].kind = kind]

\* A value that begins with a newline is a sub document, which goes on at that
\* newline: the test for '-' comes before the newline is skipped, and fails.
SubDocument ==
    /\ step = "value" /\ RawPeek(pos) = "nl"
    /\ SetKind("doc")
    /\ depth' = depth + 1 /\ step' = "doc"
    /\ UNCHANGED <<text, behind, pos>>

\* parse_trivial, which leaves the stream at the end of the line.
Trivial ==
    /\ step = "value" /\ RawPeek(pos) # "nl"
    /\ SetKind(Kind(pos))
    /\ pos' = LineEnd(pos) /\ step' = "doc"
    /\ UNCHANGED <<text, behind, depth>>

ParseNext == Return \/ Key \/ SubDocument \/ Trivial

ParseSpec == ParseInit /\ [][ParseNext]_parseVars

\* parse is a sequential function.
FairParseSpec == ParseSpec /\ WF_parseVars(ParseNext)

-----------------------------------------------------------------------------
ParseTypeOK ==
    /\ text \in Seq(Classes) /\ behind \in {"colon", "other"}
    /\ pos \in 1..(Len(text) + 1) /\ depth \in Nat \ {0}
    /\ step \in {"doc", "value", "done", "throw", "abort", "overrun"}
    /\ \A i \in 1..Len(members) :
          members[i].kind \in {"none", "doc", "int", "float", "str"}

\* Escapes are all that breaks the parser: its iterator leaves the text only for
\* one that ends in a backslash, and assertChar(':') (config.cpp:246), its only
\* check of its own, fails only where peek and next disagree on an escaped colon,
\* be it one that a backslash at the end makes of what is behind the text.
OnlyEscapesBreakIt ==
    /\ step = "overrun" => text[Len(text)] = "back"
    /\ step = "abort" =>
          \/ \E i \in 1..(Len(text) - 1) : text[i] = "back" /\ text[i + 1] = "colon"
          \/ text[Len(text)] = "back" /\ behind = "colon"

\* A value is a number only if the whole line is one, and a Float only if the
\* text ends where the value should be.
NumbersAreWholeLines ==
    \A i \in 1..Len(members) :
        LET from == SkipWitespace(members[i].to + 1) IN
        /\ members[i].kind = "int" => \A j \in from..(LineEnd(from) - 1) : text[j] \in Digits
        /\ members[i].kind = "float" => from = Len(text) + 1

\* Every line break of a parsed document is in a key, or opens a sub document
\* whose first key begins with it: no line is skipped unseen.
BreaksAreInKeys ==
    step = "done" =>
        \A j \in 1..Len(text) : text[j] = "nl" =>
            \E i \in 1..Len(members) : members[i].from <= j /\ j < members[i].to

\* parse returns, throws, aborts, or leaves the text.
ParseEnds == <>(step \in {"done", "throw", "abort", "overrun"})

-----------------------------------------------------------------------------
\* The blanks in front of the key that begins after the newline at or behind
\* position i: the key's indentation.
Lines == {i \in 1..Len(text) : text[i] = "nl"}
Indent(m) ==
    LET breaks == {j \in Lines : m.from <= j /\ j < m.to}
        start  == IF breaks = {} THEN 1
                  ELSE (CHOOSE j \in breaks : \A b \in breaks : b <= j) + 1
    IN SkipWitespace(start) - start

\* What the example of config.cpp:222-230 shows: keys that are indented alike
\* are members of documents of the same depth.
SameIndentSameDepth ==
    step = "done" =>
        \A i, j \in 1..Len(members) :
            Indent(members[i]) = Indent(members[j]) => members[i].depth = members[j].depth
=============================================================================
