----------------------------- MODULE ToolAnswers -----------------------------
(***************************************************************************)
(* How the tools bound their answers: _primitive_helpers.py, its users in  *)
(* _extract_primitives.py, _state_primitives.py and _tor_primitives.py,    *)
(* and the caps of _core_primitives.py; and how browser_find_text scans.   *)
(*                                                                         *)
(* Each answer is a function of what the call is given.                    *)
(***************************************************************************)
EXTENDS Integers, Sequences

CONSTANTS
    MaxItems,       \* bound: items that a page, a jar or tor has
    InlineCap,      \* the cap of inline results, in bytes
    RowCap,         \* _TABLE_ROW_CAP
    SnippetHalf,    \* _SNIPPET_HALF
    Letters,        \* of a page's text
    MaxText,        \* bound: length of that text
    MaxNeedle       \* bound: length of a pattern, and of a text searched by a regular expression

ASSUME CapsAssumption == {MaxItems, InlineCap, RowCap, SnippetHalf, MaxText, MaxNeedle} \subseteq Nat

VARIABLES
    asked,          \* what the call was given
    answer          \* and what it answered

answerVars == <<asked, answer>>

NoLimit == MaxItems + 2     \* None
Limits == -1 .. NoLimit
Refused == [refused |-> TRUE]

LeastOf(a, b) == IF a < b THEN a ELSE b
MostOf(a, b) == IF a < b THEN b ELSE a

AnswersInit == asked = [kind |-> "nothing"] /\ answer = Refused

-----------------------------------------------------------------------------
(* limit and filename                                                      *)

\* _limit_items, for a limit that is not negative.
LimitItems(total, limit) ==
    IF limit = NoLimit THEN [count |-> total, truncated |-> FALSE]
    ELSE [count |-> LeastOf(limit, total), truncated |-> total > limit]

\* The listings of links, forms, inputs, scripts, meta tags, tables, cookies, storage
\* keys, circuits, streams and guards: what a filter leaves of them, up to the limit.  With a filename the same payload is written, and its counts answered.
\* browser_downloads_list and browser_output_list come to the same.
List(items, kept, limit, toFile) ==
    /\ kept <= items
    /\ asked' = [kind |-> "list", items |-> items, kept |-> kept, limit |-> limit, toFile |-> toFile]
    /\ answer' = IF limit < 0 THEN Refused
                 ELSE LET l == LimitItems(kept, limit) IN
                      [refused |-> FALSE, count |-> l.count, total |-> kept, truncated |-> l.truncated,
                       inline |-> IF toFile THEN 0 ELSE l.count, written |-> IF toFile THEN l.count ELSE 0]

\* A table's rows are cut in the page, by the cap.
TableRows(rows) ==
    /\ asked' = [kind |-> "rows", rows |-> rows]
    /\ answer' = [refused |-> FALSE, rowcount |-> LeastOf(rows, RowCap), truncated |-> rows > RowCap]

-----------------------------------------------------------------------------
(* Inline caps                                                             *)

\* browser_page_source: the source is cut, at a whole character.
Cut(bytes) ==
    [inline |-> LeastOf(bytes, InlineCap), truncated |-> bytes > InlineCap, summary |-> FALSE]

\* _bounded_inline_json: too large a result is replaced by a summary.
Bounded(bytes) ==
    IF bytes <= InlineCap THEN [inline |-> bytes, truncated |-> FALSE, summary |-> FALSE]
    ELSE [inline |-> 0, truncated |-> TRUE, summary |-> TRUE]

\* browser_output_read: text whole, or the clipped bytes as base64.
ReadOutput(bytes, utf8) ==
    IF bytes <= InlineCap /\ utf8 THEN [inline |-> bytes, truncated |-> FALSE, summary |-> FALSE] ELSE Cut(bytes)

Inline(tool, bytes, utf8) ==
    /\ asked' = [kind |-> "inline", bytes |-> bytes]
    /\ answer' = CASE tool = "source" -> Cut(bytes)
                   [] tool = "structured" -> Bounded(bytes)
                   [] tool = "output" -> ReadOutput(bytes, utf8)

-----------------------------------------------------------------------------
(* browser_find_text                                                       *)

Texts(length) == UNION {[1..n -> Letters] : n \in 0..length}

\* body.find(pattern, from): offsets count from 0, and -1 is not found.
OccursAt(pattern, body, i) == i + Len(pattern) <= Len(body) /\ SubSeq(body, i + 1, i + Len(pattern)) = pattern
FindFrom(pattern, body, from) ==
    LET found == {i \in from .. Len(body) : OccursAt(pattern, body, i)}
    IN IF found = {} THEN -1 ELSE CHOOSE i \in found : \A j \in found : i <= j

\* Mutant: the scan goes on one character after the beginning of a match.
AfterStart(idx, pattern) == idx + 1

After(idx, pattern) == idx + Len(pattern)

\* The offsets of the matches: each scan begins where the last match ended.
Matches(pattern, body) ==
    LET Scan[from \in 0 .. Len(body) + 1] ==
            LET idx == FindFrom(pattern, body, from)
            IN IF idx < 0 THEN <<>> ELSE <<idx>> \o Scan[After(idx, pattern)]
    IN IF pattern = <<>> THEN <<>> ELSE Scan[0]

\* _snippet: from and to which offset, in a text of some length.
Snippet(length, from, to) == <<MostOf(0, from - SnippetHalf), LeastOf(length, to + SnippetHalf)>>

\* The matches, given by where they begin and end, up to the limit.
Found(spans, length, limit) ==
    IF limit < 0 THEN Refused
    ELSE LET l == LimitItems(Len(spans), limit) IN
         [refused |-> FALSE, count |-> l.count, total |-> Len(spans), truncated |-> l.truncated,
          matches |-> [i \in 1 .. l.count |->
                          [offset |-> spans[i][1], snippet |-> Snippet(length, spans[i][1], spans[i][2])]]]

\* regex=False.  For the empty pattern the call returns before the limit is looked at.
FindText(pattern, body, limit) ==
    /\ asked' = [kind |-> "find", pattern |-> pattern, body |-> body, limit |-> limit]
    /\ answer' = LET m == Matches(pattern, body) IN
          IF pattern = <<>> THEN Found(<<>>, Len(body), NoLimit)
          ELSE Found([i \in 1 .. Len(m) |-> <<m[i], m[i] + Len(pattern)>>], Len(body), limit)

\* What re.finditer yields: spans in their order, that may be empty and do not overlap.
Spans(length) ==
    {s \in UNION {[1..k -> (0..length) \X (0..length)] : k \in 0..MaxItems} :
        /\ \A i \in DOMAIN s : s[i][1] <= s[i][2]
        /\ \A i \in 2 .. Len(s) : s[i - 1][2] <= s[i][1] /\ s[i - 1] # s[i]}

\* regex=True, for a pattern that compiles.
FindRegex(spans, length, limit) ==
    /\ asked' = [kind |-> "regex", spans |-> spans, length |-> length, limit |-> limit]
    /\ answer' = Found(spans, length, limit)

AnswersNext ==
    /\ asked.kind = "nothing"
    /\ \/ \E items, kept \in 0..MaxItems, limit \in Limits, toFile \in BOOLEAN : List(items, kept, limit, toFile)
       \/ \E rows \in 0..RowCap + 1 : TableRows(rows)
       \/ \E tool \in {"source", "structured", "output"}, bytes \in 0..InlineCap + 1, utf8 \in BOOLEAN :
             Inline(tool, bytes, utf8)
       \/ \E pattern \in Texts(MaxNeedle), body \in Texts(MaxText), limit \in Limits :
             FindText(pattern, body, limit)
       \/ \E length \in 0..MaxNeedle, limit \in Limits :
             \E spans \in Spans(length) : FindRegex(spans, length, limit)

-----------------------------------------------------------------------------
(* Properties                                                              *)

\* A listing never shows more than its limit, shows all it has up to the limit, counts
\* what it shows, inline or in the file, and says "truncated" exactly when it has more;
\* and a table likewise of its rows.  A negative limit is refused (by the listings).
ListsAreHonest ==
    /\ asked.kind = "list" =>
          /\ answer.refused <=> asked.limit < 0
          /\ ~answer.refused =>
                /\ answer.total = asked.kept /\ answer.inline + answer.written = answer.count
                /\ answer.truncated <=> answer.count < answer.total
                /\ asked.limit # NoLimit => answer.count <= asked.limit
                /\ answer.truncated => answer.count = asked.limit
    /\ asked.kind = "rows" => (answer.truncated <=> answer.rowcount < asked.rows)

\* What is returned inline never exceeds the cap, and is whole unless it says so.
CapsAreHonest ==
    asked.kind = "inline" =>
       /\ answer.inline <= InlineCap
       /\ answer.truncated <=> answer.inline < asked.bytes
       /\ answer.summary => answer.inline = 0

\* browser_find_text says "truncated" exactly when it has more matches than the limit,
\* and gives as many as the limit then; a negative limit is refused, except for the empty
\* pattern, that never matches.
FindsUpToLimit ==
    asked.kind \in {"find", "regex"} =>
       /\ answer.refused <=> asked.limit < 0 /\ (asked.kind = "find" => asked.pattern # <<>>)
       /\ ~answer.refused =>
             /\ DOMAIN answer.matches = 1 .. answer.count
             /\ answer.truncated <=> answer.count < answer.total
             /\ answer.truncated => answer.count = asked.limit
             /\ asked.limit \in 0 .. NoLimit - 1 => answer.count <= asked.limit

\* What it gives for a text are occurrences that do not overlap, in order and each within
\* its snippet; it skips one only where it overlaps one given, or comes after the last of
\* as many as the limit.
FindsEachOnce ==
    asked.kind = "find" /\ ~answer.refused =>
       LET n == Len(asked.pattern)
           Offset(i) == answer.matches[i].offset
           Shown(i) == answer.matches[i].snippet
       IN /\ \A i \in 1 .. answer.count :
                /\ OccursAt(asked.pattern, asked.body, Offset(i))
                /\ Shown(i)[1] <= Offset(i) /\ Offset(i) + n <= Shown(i)[2] /\ Shown(i)[2] <= Len(asked.body)
                /\ i > 1 => Offset(i) >= Offset(i - 1) + n
          /\ n > 0 => \A j \in 0 .. Len(asked.body) : OccursAt(asked.pattern, asked.body, j) =>
                \/ \E i \in 1 .. answer.count : Offset(i) <= j /\ j < Offset(i) + n
                \/ answer.truncated /\ \A i \in 1 .. answer.count : Offset(i) + n <= j

\* What it gives for a regular expression are the first matches, each within its snippet.
FindsFirstSpans ==
    asked.kind = "regex" /\ ~answer.refused =>
       \A i \in 1 .. answer.count :
          /\ answer.matches[i].offset = asked.spans[i][1]
          /\ answer.matches[i].snippet[1] <= asked.spans[i][1]
          /\ asked.spans[i][2] <= answer.matches[i].snippet[2]
          /\ answer.matches[i].snippet[2] <= asked.length

\* A bounded answer says what it leaves out, and a scan leaves out nothing else.
AnswersAreHonest == ListsAreHonest /\ CapsAreHonest /\ FindsUpToLimit /\ FindsEachOnce /\ FindsFirstSpans
=============================================================================
