-------------------------- MODULE MarkdownSegments --------------------------
(***************************************************************************)
(* The line state machine that cuts markdown into segments.  A line is one *)
(* of "text", "blank", "dashes" (---), "row" (of a table), headings "h1",  *)
(* "h2", "h3", and fences "ticks3", "ticks4", "tildes3"; a heading's title *)
(* is its line number.  internal/indexer/chunk/prose/markdown.go           *)
(***************************************************************************)
EXTENDS Integers, Sequences

MarkdownLines ==
  {"text", "blank", "dashes", "row", "h1", "h2", "h3", "ticks3", "ticks4", "tildes3"}

Level(line) == CASE line = "h1" -> 1 [] line = "h2" -> 2 [] line = "h3" -> 3 [] OTHER -> 0
NoFence == [mark |-> "none", len |-> 0]
Fence(line) ==
  CASE line = "ticks3" -> [mark |-> "tick", len |-> 3] [] line = "ticks4" -> [mark |-> "tick", len |-> 4]
    [] line = "tildes3" -> [mark |-> "tilde", len |-> 3] [] OTHER -> NoFence

\* isFenceClose: the opening mark, as often at least.
Closes(line, open) == Fence(line).mark = open.mark /\ Fence(line).len >= open.len

\* The parser: its segments so far, the lines (by number) it is collecting.
NewState ==
  [out |-> <<>>, current |-> <<>>, start |-> 0, mode |-> "prose", fence |-> NoFence,
   inTable |-> FALSE, frontDone |-> FALSE, stack |-> <<>>, pending |-> 0]

\* Slip: a heading never closes the one before it.
StackGrows(stack, level, title) == Append(stack, title)

\* updateHeadingStack: a deeper level is put on top.
UpdateStack(stack, level, title) ==
  IF level > Len(stack) THEN Append(stack, title)
  ELSE Append(SubSeq(stack, 1, level - 1), title)

\* emitCurrent: the lines collected become a segment unless all are blank.
Emit(st, doc, kind, symbol, lineNum) ==
  LET drop == \A i \in DOMAIN st.current : doc[st.current[i]] = "blank"
      seg == [kind |-> kind, lines |-> st.current, start |-> st.start, end |-> lineNum,
              symbol |-> symbol, scope |-> st.stack]
  IN  [st EXCEPT !.current = <<>>, !.out = IF drop THEN @ ELSE Append(@, seg)]

\* flushProse: a heading in front, or one that is pending, names the section.
FlushProse(st, doc, lineNum) ==
  IF st.current = <<>> THEN st
  ELSE [Emit(st, doc, "prose", IF Level(doc[Head(st.current)]) > 0 THEN Head(st.current) ELSE st.pending,
             lineNum) EXCEPT !.pending = 0]

Collect(st, n) == [st EXCEPT !.current = Append(@, n)]
StartAt(st, n) == [st EXCEPT !.start = n, !.current = <<n>>]

\* The end of a front matter and of a code block, and lines inside them.
FeedFront(st, doc, n) ==
  LET fed == Collect(st, n)
  IN  IF doc[n] = "dashes"
        THEN [Emit(fed, doc, "front", 0, n) EXCEPT !.mode = "prose", !.frontDone = TRUE]
        ELSE fed

FeedCode(st, doc, n) ==
  LET fed == Collect(st, n)
  IN  IF Closes(doc[n], st.fence)
        THEN [Emit(fed, doc, "code", 0, n) EXCEPT !.mode = "prose", !.fence = NoFence]
        ELSE fed

FeedHeading(st, doc, n) ==
  LET flushed == FlushProse(st, doc, n)
  IN  [StartAt(flushed, n) EXCEPT !.stack = UpdateStack(@, Level(doc[n]), n), !.pending = n]

FeedRow(st, doc, n) ==
  IF st.inTable THEN Collect(st, n)
  ELSE [StartAt(FlushProse(st, doc, n), n) EXCEPT !.inTable = TRUE]

\* Any other line ends a table; blank lines do not begin a paragraph.
FeedText(st, doc, n) ==
  LET after == IF st.inTable THEN [Emit(st, doc, "table", 0, n) EXCEPT !.inTable = FALSE] ELSE st
  IN  CASE after.current # <<>> -> Collect(after, n)
        [] after.current = <<>> /\ doc[n] = "blank" -> [after EXCEPT !.start = n]
        [] OTHER -> StartAt(after, n)

\* The first line opens the front matter.
Opens(st, doc, n) == st.mode # "front" /\ ~st.frontDone /\ n = 1 /\ doc[n] = "dashes"

FeedLine(st, doc, n) ==
  IF Opens(st, doc, n) THEN [StartAt(st, n) EXCEPT !.mode = "front"]
  ELSE CASE st.mode = "front" -> FeedFront(st, doc, n)
         [] st.mode = "code" -> FeedCode(st, doc, n)
         [] st.mode = "prose" /\ Fence(doc[n]) # NoFence ->
              [StartAt(FlushProse(st, doc, n), n) EXCEPT !.mode = "code", !.fence = Fence(doc[n])]
         [] st.mode = "prose" /\ Level(doc[n]) > 0 -> FeedHeading(st, doc, n)
         [] st.mode = "prose" /\ doc[n] = "row" -> FeedRow(st, doc, n)
         [] OTHER -> FeedText(st, doc, n)

FlushAll(st, doc) ==
  LET n == Len(doc)
  IN  CASE st.mode = "code" -> Emit(st, doc, "code", 0, n)
        [] st.mode = "front" -> Emit(st, doc, "front", 0, n)
        [] st.mode = "prose" /\ st.inTable -> Emit(st, doc, "table", 0, n)
        [] OTHER -> FlushProse(st, doc, n)

\* parseMarkdownSegments: the parser after each of the first lines.
Parsed(doc) ==
  LET upTo[n \in 0..Len(doc)] == IF n = 0 THEN NewState ELSE FeedLine(upTo[n - 1], doc, n)
  IN  upTo

Segments(doc) == FlushAll(Parsed(doc)[Len(doc)], doc).out
=============================================================================
