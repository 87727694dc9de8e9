---------------------------- MODULE LineWindows ----------------------------
(***************************************************************************)
(* How a file is cut into windows of lines: in memory, streamed, and       *)
(* within a token budget.  A file is a sequence of "x" (a character), "n"  *)
(* (line feed) and "r" (carriage return); a line in a window is its number *)
(* of characters, 0 when it is blank.  A window is <<first, last>>, lines  *)
(* counted from 1.  internal/indexer/chunk/{line_window,stream,chunk,      *)
(* router,batches}.go, prose/markdown.go, ast/config.go                    *)
(***************************************************************************)
EXTENDS Integers, Sequences

IsBreak(c) == c \in {"n", "r"}

---------------------------------------------------------------------------
(* The whole file in memory.                                               *)

\* normalizeLineEndings: "\r\n" and "\r" become "\n"; what is left from every
\* byte on.
Normalized(s) ==
  LET from[k \in 1..(Len(s) + 1)] ==
        CASE k > Len(s) -> <<>>
          [] k < Len(s) /\ s[k] = "r" /\ s[k + 1] = "n" -> <<"n">> \o from[k + 2]
          [] OTHER -> <<IF s[k] = "r" THEN "n" ELSE s[k]>> \o from[k + 1]
  IN  from

\* The first of some lines is a character longer.
Longer(lines) == [lines EXCEPT ![1] = @ + 1]

\* strings.Split(content, "\n"), a line being its length.
Split(s) ==
  LET from[k \in 1..(Len(s) + 1)] ==
        CASE k > Len(s) -> <<0>>
          [] k <= Len(s) /\ s[k] = "n" -> <<0>> \o from[k + 1]
          [] OTHER -> Longer(from[k + 1])
  IN  from

\* prepareContent and the split of FileChunksEmit.
MemoryLines(s) == Split(Normalized(s)[1])[1]

---------------------------------------------------------------------------
(* lineReader: after the last break of the file an empty line is still to  *)
(* come; a file of no bytes has no line.                                   *)

\* Slip: the carriage return and the line feed of one break end two lines.
PastOneByte(s, k) == k + 1

PastBreak(s, k) ==
  IF k < Len(s) /\ s[k] = "r" /\ s[k + 1] = "n" THEN k + 2 ELSE k + 1

LinesRead(s) ==
  LET from[k \in 1..(Len(s) + 1)] ==
        CASE k > Len(s) -> <<0>>
          [] k <= Len(s) /\ IsBreak(s[k]) -> <<0>> \o from[PastBreak(s, k)]
          [] OTHER -> Longer(from[k + 1])
  IN  from

ReadLines(s) == IF s = <<>> THEN <<>> ELSE LinesRead(s)[1]

\* checkMaxLineBytes: the length starts again at either break.  The reader counts
\* the break as well.
WithinLimit(s, maxLine) == \A i \in DOMAIN ReadLines(s) : ReadLines(s)[i] <= maxLine
StreamWithinLimit(s, maxLine) ==
  \A i \in DOMAIN ReadLines(s) :
    (IF i < Len(ReadLines(s)) THEN ReadLines(s)[i] + 1 ELSE ReadLines(s)[i]) <= maxLine

---------------------------------------------------------------------------
(* Window sizes and the windows without a budget.                          *)

DefaultWindow == 40
DefaultOverlap == 8

NormalizeWindow(window, overlap) ==
  LET w == IF window <= 0 THEN DefaultWindow ELSE window
      o == IF overlap <= 0 THEN DefaultOverlap ELSE overlap
  IN  [window |-> w, overlap |-> IF o >= w THEN w \div 4 ELSE o]

Lesser(i, j) == IF i < j THEN i ELSE j
Greater(i, j) == IF i > j THEN i ELSE j

\* chunkFromLineWindow returns nothing for a window of blank lines.
Blank(lines, w) == \A i \in w[1]..w[2] : lines[i] = 0
Kept(lines, w) == IF Blank(lines, w) THEN <<>> ELSE <<w>>

\* streamChunkBatched: a buffer of `window` lines that moves on by a step once
\* another line has come.
StreamFrom(lines, size) ==
  LET n == Len(lines)
      from[start \in 0..n] ==
        CASE start = n -> <<>>
          [] start < n /\ start + size.window >= n -> Kept(lines, <<start + 1, n>>)
          [] OTHER -> Kept(lines, <<start + 1, start + size.window>>)
                        \o from[start + size.window - size.overlap]
  IN  from

StreamWindows(lines, window, overlap) == StreamFrom(lines, NormalizeWindow(window, overlap))[0]

---------------------------------------------------------------------------
(* Windows within a budget.  HeuristicCounter divides the characters, and  *)
(* the line feeds between them, by a ratio and rounds down.                *)

CharsPerToken == 2

\* The characters of the first lines, with the line feed after each.
CharsUpTo(lines) ==
  LET upTo[k \in 0..Len(lines)] == IF k = 0 THEN 0 ELSE upTo[k - 1] + lines[k] + 1
  IN  upTo

Chars(lines, i, j) == CharsUpTo(lines)[j] - CharsUpTo(lines)[i - 1] - 1
Tokens(lines, i, j) == Chars(lines, i, j) \div CharsPerToken

\* A window of blank lines is left out however large it is.
TooLarge(lines, first, last, budget) ==
  ~Blank(lines, <<first, last>>) /\ Tokens(lines, first, last) > budget

\* SlideWindowEmit searches the largest window by bisection, from the first
\* line, which is taken whatever its size, to hi.
Bisect(lines, first, hi, budget) ==
  LET between[r \in (first..hi) \X (first..hi)] ==
        LET mid == r[1] + (r[2] - r[1] + 1) \div 2
        IN  CASE r[1] >= r[2] -> r[1]
              [] r[1] < r[2] /\ TooLarge(lines, first, mid, budget) -> between[<<r[1], mid - 1>>]
              [] OTHER -> between[<<mid, r[2]>>]
  IN  between

\* emitPartialWindows shrinks the window line by line.
Shrink(lines, first, hi, budget) ==
  LET fits == {e \in first..hi : e = first \/ Tokens(lines, first, e) <= budget}
  IN  CHOOSE e \in fits : \A d \in fits : d <= e

\* The next window starts an overlap before the end, and further than this one.
After(first, last, size) == Greater(last + 1 - size.overlap, first + 1)

\* The last line of the window that starts at first, before a budget shortens it.
LastOf(lines, first, size) == Lesser(first + size.window - 1, Len(lines))

\* SlideWindowEmit: no budget when it is 0; windows below the least number of
\* tokens are skipped a line at a time, blank ones as a whole.
SlideEnd(lines, first, size, budget) ==
  LET hi == LastOf(lines, first, size)
  IN  IF budget > 0 THEN Bisect(lines, first, hi, budget)[<<first, hi>>] ELSE hi

SlideSkips(lines, minTokens, first, last) ==
  ~Blank(lines, <<first, last>>) /\ minTokens > 0 /\ Tokens(lines, first, last) < minTokens
SlideTakes(lines, minTokens, first, last) ==
  IF SlideSkips(lines, minTokens, first, last) THEN <<>> ELSE Kept(lines, <<first, last>>)
SlideNext(lines, size, minTokens, first, last) ==
  CASE last = Len(lines) -> Len(lines) + 1
    [] last # Len(lines) /\ SlideSkips(lines, minTokens, first, last) -> first + 1
    [] OTHER -> After(first, last, size)

SlideFrom(lines, size, budget, minTokens) ==
  LET from[first \in 1..Len(lines) + 1] ==
        LET last == SlideEnd(lines, first, size, budget)
        IN  IF first > Len(lines) THEN <<>>
            ELSE SlideTakes(lines, minTokens, first, last)
                   \o from[SlideNext(lines, size, minTokens, first, last)]
  IN  from

SlideWindows(lines, window, overlap, budget, minTokens) ==
  SlideFrom(lines, NormalizeWindow(window, overlap), budget, minTokens)[1]

\* FileChunksEmit.
MemoryWindows(lines, window, overlap) == SlideWindows(lines, window, overlap, 0, 0)

\* emitPartialWindows, for code (with a least number of tokens) and for prose
\* (without): blank windows are skipped a line at a time as well.
PartialEnd(lines, first, size, budget) ==
  LET hi == LastOf(lines, first, size)
  IN  IF budget > 0 THEN Shrink(lines, first, hi, budget) ELSE hi

PartialSkips(lines, minTokens, first, last) ==
  Blank(lines, <<first, last>>) \/ Tokens(lines, first, last) < minTokens
PartialTakes(lines, minTokens, first, last) ==
  IF PartialSkips(lines, minTokens, first, last) THEN <<>> ELSE <<<<first, last>>>>
PartialNext(lines, size, minTokens, first, last) ==
  CASE last = Len(lines) -> Len(lines) + 1
    [] last # Len(lines) /\ PartialSkips(lines, minTokens, first, last) -> first + 1
    [] OTHER -> After(first, last, size)

PartialFrom(lines, size, budget, minTokens) ==
  LET from[first \in 1..Len(lines) + 1] ==
        LET last == PartialEnd(lines, first, size, budget)
        IN  IF first > Len(lines) THEN <<>>
            ELSE PartialTakes(lines, minTokens, first, last)
                   \o from[PartialNext(lines, size, minTokens, first, last)]
  IN  from

PartialWindows(lines, window, overlap, budget, minTokens) ==
  PartialFrom(lines, NormalizeWindow(window, overlap), budget, minTokens)[1]

---------------------------------------------------------------------------
(* ChunkRouter and ProcessBatches: which chunker a file goes to.  A file   *)
(* has a kind: "md" and "txt" are prose, "dcs" holds queries, "code" is of *)
(* a language whose AST chunking is enabled.                               *)

Prose(file) == file.kind \in {"md", "txt"} /\ file.strategy \in {"hybrid", "prose"}
HybridAST(file) ==
  /\ file.strategy # "line_window"
  /\ (file.kind = "dcs" /\ file.sdbl) \/ file.kind = "code"

InMemory(file) ==
  CASE file.strategy = "line_window" -> "windows"
    [] file.strategy # "line_window" /\ Prose(file) ->
         IF file.kind = "md" THEN "markdown" ELSE "plain"
    [] HybridAST(file) -> IF file.kind = "dcs" THEN "queries" ELSE "ast"
    [] OTHER -> "windows"

Streamed(file) == file.big /\ ~HybridAST(file) /\ ~Prose(file)

\* StreamBatched feeds every prose file to the markdown state machine.
Chunker(file) ==
  CASE Streamed(file) -> "windows"
    [] ~Streamed(file) /\ file.big /\ Prose(file) -> "markdown"
    [] OTHER -> InMemory(file)
=============================================================================
