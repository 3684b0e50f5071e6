----------------------------- MODULE TelegramText -----------------------------
(***************************************************************************)
(* What the Telegram channel does to texts (ext/channels/telegram/src):    *)
(* markdown to HTML, closing the tags of a text that is still streaming,   *)
(* cutting a long text into messages, the data of a permission button and  *)
(* the slices Telegram counts in UTF-16 units.                             *)
(*                                                                         *)
(* A text is a sequence of symbols.  A symbol stands for one byte, except  *)
(* where a definition says otherwise.                                      *)
(***************************************************************************)
EXTENDS Integers, Sequences, FiniteSets, SequencesExt

-----------------------------------------------------------------------------
(* split_message (deliver.rs).  "w1" "w2" are the bytes of one character;   *)
(* "<" "pre>" stand for <pre>, "</" "pre>" for </pre>: a tag can be cut.     *)

IsCharBoundary(t, b) == ~(b \in 1..(Len(t) - 1) /\ t[b + 1] = "w2")

\* The positions in t where the sequence p begins, counted from 0 as in Rust.
Finds(t, p) == {i \in 0..(Len(t) - Len(p)) : SubSeq(t, i + 1, i + Len(p)) = p}
MaxOf(S) == CHOOSE n \in S : \A m \in S : m <= n
MinOf(S) == CHOOSE n \in S : \A m \in S : n <= m

OpenPre == <<"<", "pre>">>
ClosePre == <<"</", "pre>">>

\* The last place to break before b: after a blank line, a line, or a sentence.
BreakBefore(t, b) ==
    LET head == SubSeq(t, 1, b)
    IN  IF Finds(head, <<"n", "n">>) # {} THEN MaxOf(Finds(head, <<"n", "n">>)) + 2
        ELSE IF Finds(head, <<"n">>) # {} THEN MaxOf(Finds(head, <<"n">>)) + 1
        ELSE IF Finds(head, <<".", " ">>) # {} THEN MaxOf(Finds(head, <<".", " ">>)) + 2
        ELSE b

\* Mutant of ChunkEnd: cut at the limit, be it inside a character.
ChunkEndBytes(t, max) == BreakBefore(t, max)

\* A candidate with more <pre> than </pre> is moved to the end of the first
\* </pre> that is left, which may be before or after the limit.
ChunkEnd(t, max) ==
    LET fits == {b \in 1..max : IsCharBoundary(t, b)}
        b == IF fits = {} THEN max ELSE MaxOf(fits)
        head == SubSeq(t, 1, b)
        inPre == /\ Cardinality(Finds(head, OpenPre)) > Cardinality(Finds(head, ClosePre))
                 /\ Finds(t, ClosePre) # {}
        e == IF inPre THEN MinOf(Finds(t, ClosePre)) + 2 ELSE b
    IN  IF e <= max THEN BreakBefore(t, e) ELSE e

\* The pieces of the text behind the first n bytes.
SplitRest(t, max) ==
    LET rest[n \in 0..Len(t)] ==
            LET left == SubSeq(t, n + 1, Len(t))
            IN  IF left = <<>> THEN <<>>
                ELSE IF Len(left) <= max THEN <<left>>
                ELSE <<SubSeq(left, 1, ChunkEnd(left, max))>> \o rest[n + ChunkEnd(left, max)]
    IN  rest[0]

SplitMessage(t, max) == IF Len(t) <= max THEN <<t>> ELSE SplitRest(t, max)

-----------------------------------------------------------------------------
(* format_telegram_html and close_open_tags (formatting.rs).  A text is a     *)
(* sequence of <<"text", s>>, s one of "*" "~" "_" "tick" "#" "[", a blank, "n" *)
(* for the end of a line, "](u)" for the rest of a link, whose URL has no      *)
(* markers in it, or "x" for any other character; HTML also has               *)
(* <<"open", tag>> and <<"close", tag>>.  <<"code", html>> holds the place of   *)
(* code until the end.  Quoted lines are left out.                          *)

Text(s) == <<"text", s>>
OpenTag(t) == <<"open", t>>
CloseTag(t) == <<"close", t>>
Tagged(tag, html) == <<OpenTag(tag)>> \o html \o <<CloseTag(tag)>>

At(t, i, mark) == \A k \in DOMAIN mark : i + k - 1 \in DOMAIN t /\ t[i + k - 1] = Text(mark[k])

\* Regex::replace_all: the matches from left to right, as if each place were
\* tried in turn.  Found(i) is the match at i, if any: <<first, last, behind>>,
\* the group that is kept and the place behind the match.
ReplaceMatches(t, Found(_), Put(_)) ==
    LET from[i \in 1..(Len(t) + 1)] ==
            LET found == Found(i)
            IN  IF i > Len(t) THEN <<>>
                ELSE IF found = {} THEN <<t[i]>> \o from[i + 1]
                ELSE LET m == CHOOSE m \in found : TRUE
                     IN  Put(SubSeq(t, m[1], m[2])) \o from[m[3]]
    IN  from[1]

\* From a marker at i to the nearest one with at least n elements in between,
\* all of them Inner.
Stretch(t, i, open, close, n, Inner(_)) ==
    LET first == i + Len(open)
        ends == {j \in (first + n)..Len(t) : At(t, j, close) /\ \A k \in first..(j - 1) : Inner(t[k])}
    IN  IF ~At(t, i, open) \/ ends = {} THEN {}
        ELSE {<<first, MinOf(ends) - 1, MinOf(ends) + Len(close)>>}

Restore(t) == FlattenSeq([i \in DOMAIN t |-> IF t[i][1] = "code" THEN t[i][2] ELSE <<t[i]>>])

WordChar(e) == e = Text("x") \/ e = Text("_")
Fence == <<"tick", "tick", "tick">>
\* A word behind the opening fence is taken for the language.
FencedCode(t) ==
    ReplaceMatches(t, LAMBDA i : Stretch(t, i, Fence, Fence, 0, LAMBDA e : TRUE),
               LAMBDA s : <<<<"code", Tagged("pre", IF s # <<>> /\ WordChar(s[1]) THEN Tagged("code", s) ELSE s)>>>>)
InlineCode(t) ==
    ReplaceMatches(t, LAMBDA i : Stretch(t, i, <<"tick">>, <<"tick">>, 1, LAMBDA e : e # Text("tick")),
               LAMBDA s : <<<<"code", Tagged("code", Restore(s))>>>>)

\* Up to six # at the start of a line, blanks, which may go on in the next line,
\* and the rest of the line.
Header(t, i) ==
    LET blank(k) == t[k] = Text(" ") \/ t[k] = Text("n")
        titles == {c \in (i + 2)..Len(t) :
                     /\ t[c] # Text("n")
                     /\ \E h \in 1..6 : /\ i + h < c /\ \A k \in i..(i + h - 1) : t[k] = Text("#")
                                       /\ \A k \in (i + h)..(c - 1) : blank(k)}
        line == {k \in DOMAIN t : \A j \in MaxOf(titles)..k : t[j] # Text("n")}
    IN  IF (i > 1 /\ t[i - 1] # Text("n")) \/ titles = {} THEN {}
        ELSE {<<MaxOf(titles), MaxOf(line), MaxOf(line) + 1>>}

Link(t, i) == Stretch(t, i, <<"[">>, <<"](u)">>, 1, LAMBDA e : e # Text("](u)"))
Bold(t, i) == Stretch(t, i, <<"*", "*">>, <<"*", "*">>, 1, LAMBDA e : e # Text("n"))
Strike(t, i) == Stretch(t, i, <<"~", "~">>, <<"~", "~">>, 1, LAMBDA e : e # Text("n"))
ItalicStar(t, i) == Stretch(t, i, <<"*">>, <<"*">>, 1, LAMBDA e : e # Text("*"))

\* Not inside a word; the name of a place that is held has a _ in it.
ItalicUnderscore(t, i) ==
    LET outside(k) == k \in DOMAIN t => ~WordChar(t[k])
    IN  {m \in Stretch(t, i, <<"_">>, <<"_">>, 1, LAMBDA e : e # Text("_") /\ e[1] # "code") :
            outside(i - 1) /\ outside(m[3])}

\* Each pass works on what the one before it has made, tags included.
Pass(t, tag, Found(_, _)) == ReplaceMatches(t, LAMBDA i : Found(t, i), LAMBDA s : Tagged(tag, s))
FormatTelegramHtml(t) ==
    LET headed == Pass(InlineCode(FencedCode(t)), "b", Header)
        bold   == Pass(Pass(headed, "a", Link), "b", Bold)
        italic == Pass(Pass(bold, "s", Strike), "i", ItalicUnderscore)
    IN  Restore(Pass(italic, "i", ItalicStar))

\* A closing tag takes its last match off the stack, wherever it is.
StackAfter(html) ==
    FoldLeft(LAMBDA stack, e :
                LET matches == {i \in DOMAIN stack : stack[i] = e[2]}
                IN  CASE e[1] = "open"                     -> Append(stack, e[2])
                      [] e[1] = "close" /\ matches # {}    -> RemoveAt(stack, MaxOf(matches))
                      [] OTHER                             -> stack,
             <<>>, html)

CloseOpenTags(html) ==
    html \o [i \in DOMAIN StackAfter(html) |-> CloseTag(Reverse(StackAfter(html))[i])]

-----------------------------------------------------------------------------
(* slice_utf16 (dispatcher.rs): a text is the sequence of the UTF-16 lengths *)
(* of its characters.  The slice is {<<i, j>>} with i its first character and *)
(* j the one behind its last, and {} when there is none.                     *)

\* One turn of the loop: start is byte_start, pos is utf16_pos, done holds the
\* value returned, which is {} when no character begins at the offset.
SliceStep(s, i, units, offset, length) ==
    LET start == IF s.pos = offset THEN {i} ELSE s.start
    IN  IF s.returned THEN s
        ELSE IF s.pos = offset + length
             THEN [s EXCEPT !.returned = TRUE, !.done = {<<b, i>> : b \in start}]
             ELSE [s EXCEPT !.start = start, !.pos = @ + units]

SliceUtf16(text, offset, length) ==
    LET last == FoldLeft(LAMBDA s, i : SliceStep(s, i, text[i], offset, length),
                         [start |-> {}, pos |-> 0, returned |-> FALSE, done |-> {}],
                         [i \in DOMAIN text |-> i])
    IN  IF last.returned \/ last.pos # offset + length THEN last.done
        ELSE {<<b, Len(text) + 1>> : b \in last.start}

-----------------------------------------------------------------------------
(* permissions.rs: the data of a button is the request id and the option id  *)
(* with a colon in between, cut to max bytes at the cost of the request id.  *)

\* How much of the id is kept.  An option that leaves no room for it wraps the
\* usize of max_req_len, and the id is kept whole.
MaxReqLen(request, option, max) ==
    LET room == max - 1 - Len(option)
    IN  IF room < 0 \/ Len(request) < room THEN Len(request) ELSE room
ButtonData(request, option, max) ==
    SubSeq(request, 1, MaxReqLen(request, option, max)) \o <<":">> \o option

\* Mutant of ParseCallbackData: the first colon.
ParseCallbackDataFirst(data) ==
    {<<SubSeq(data, 1, i), SubSeq(data, i + 2, Len(data))>> :
        i \in {i \in Finds(data, <<":">>) : \A k \in Finds(data, <<":">>) : i <= k}}

\* {} when there is no colon, otherwise the ids before and after the last one.
ParseCallbackData(data) ==
    {<<SubSeq(data, 1, i), SubSeq(data, i + 2, Len(data))>> :
        i \in {i \in Finds(data, <<":">>) : \A k \in Finds(data, <<":">>) : k <= i}}
=============================================================================
