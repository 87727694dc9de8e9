----------------------------- MODULE ProseSplit -----------------------------
(***************************************************************************)
(* How prose is split to a token budget and how chunks overlap.  A text is *)
(* a sequence of bytes: "a" and "A" (a letter, small or not), " ", "n"     *)
(* (line feed), "." (ends a sentence), ":" (ends a clause), and the two    *)
(* bytes "L", "T" of one Cyrillic letter whose second byte, read alone, is *)
(* white space to unicode.IsSpace (0x85 or 0xA0).  "U", "u", "u" are the   *)
(* bytes of U+FFFD, which stands for what is no letter.  Offsets count     *)
(* from 0.                                                                 *)
(* internal/indexer/chunk/prose/{recursive,markdown,config}.go             *)
(***************************************************************************)
EXTENDS Integers, Sequences, FiniteSets, SequencesExt

Space == {" ", "n"}
SpaceByte == Space \cup {"T"}

\* The bytes between two offsets, the second excluded.
Cut(text, from, to) == SubSeq(text, from + 1, to)
Byte(text, i) == text[i + 1]
Offsets(text) == 0..(Len(text) - 1)
Least(S) == CHOOSE i \in S : \A j \in S : i <= j
Greatest(S) == CHOOSE i \in S : \A j \in S : j <= i

\* strings.TrimSpace, and the number of bytes it takes off the front.
Ink(text) == {i \in Offsets(text) : Byte(text, i) \notin Space}
Lead(text) == IF Ink(text) = {} THEN 0 ELSE Least(Ink(text))
Trim(text) ==
  IF Ink(text) = {} THEN <<>> ELSE Cut(text, Lead(text), Greatest(Ink(text)) + 1)

---------------------------------------------------------------------------
(* HeuristicCounter: runes by a ratio, rounded down.                       *)

RunesPerToken == 2

\* The offsets at which runes begin ("T" is always the end of one).
RuneStarts(text) == {i \in Offsets(text) : Byte(text, i) \notin {"T", "u"}}
Runes(text) == Cardinality(RuneStarts(text))
Count(text) == Runes(text) \div RunesPerToken

\* string([]rune(text)): a first byte that lost its second is replaced.
Valid(text) ==
  LET lost(i) == Byte(text, i) = "L" /\ (i + 1 = Len(text) \/ Byte(text, i + 1) # "T")
  IN  FlattenSeq([i \in DOMAIN text |-> IF lost(i - 1) THEN <<"U", "u", "u">> ELSE <<text[i]>>])

---------------------------------------------------------------------------
(* The levels of the hierarchy: where each one separates parts.  A gap is  *)
(* the span from the end of one part to the start of the next.             *)

Levels == <<"paragraph", "line", "sentence", "clause", "word", "char">>

Separator(level) ==
  CASE level = "paragraph" -> <<"n", "n">> [] level = "line" -> <<"n">> [] OTHER -> <<" ">>

\* The first offset from i on that is not white space, or the end.
PastSpace(text, i, space) == Least({j \in i..Len(text) : j = Len(text) \/ Byte(text, j) \notin space})

ParagraphGaps(text) ==
  {<<i, PastSpace(text, i, {"n"})>> :
     i \in {k \in Offsets(text) : /\ Byte(text, k) = "n" /\ k + 1 < Len(text) /\ Byte(text, k + 1) = "n"
                                  /\ k > 0 => Byte(text, k - 1) # "n"}}

LineGaps(text) == {<<i, i + 1>> : i \in {k \in Offsets(text) : Byte(text, k) = "n"}}

\* A sentence ends before a capital letter or a digit.
SentenceGaps(text) ==
  LET next(k) == PastSpace(text, k + 1, Space)
  IN  {<<next(k), next(k)>> :
         k \in {i \in Offsets(text) : Byte(text, i) = "." /\ next(i) < Len(text)
                                        /\ Byte(text, next(i)) = "A"}}

ClauseGaps(text) ==
  LET next(k) == PastSpace(text, k + 1, SpaceByte)
  IN  {<<next(k), next(k)>> :
         k \in {i \in Offsets(text) : Byte(text, i) = ":" /\ next(i) > i + 1}}

\* splitWordsWithSpans looks at bytes.
WordGaps(text) ==
  {<<i, PastSpace(text, i, SpaceByte)>> :
     i \in {k \in Offsets(text) : /\ Byte(text, k) \in SpaceByte
                                  /\ k > 0 => Byte(text, k - 1) \notin SpaceByte}}

Gaps(text, level) ==
  CASE level = "paragraph" -> ParagraphGaps(text) [] level = "line" -> LineGaps(text)
    [] level = "sentence" -> SentenceGaps(text) [] level = "clause" -> ClauseGaps(text)
    [] OTHER -> WordGaps(text)

\* pieceFromRawSpan; a word is taken as it is.
Piece(text, base, from, to) ==
  LET raw == Cut(text, from, to)
      start == base + from + Lead(raw)
  IN  [text |-> Trim(raw), from |-> start, to |-> start + Len(Trim(raw))]

RECURSIVE PartsFrom(_, _, _, _)
PartsFrom(text, base, start, gaps) ==
  IF gaps = {} THEN <<Piece(text, base, start, Len(text))>>
  ELSE LET g == CHOOSE x \in gaps : \A y \in gaps : x[1] <= y[1]
       IN  <<Piece(text, base, start, g[1])>> \o PartsFrom(text, base, g[2], gaps \ {g})

Parts(text, base, level) ==
  SelectSeq(PartsFrom(text, base, 0, Gaps(text, level)), LAMBDA p : p.text # <<>>)

\* mergeGreedyPieces: parts are joined as long as they fit.
RECURSIVE MergeInto(_, _, _, _)
MergeInto(cur, parts, separator, budget) ==
  IF parts = <<>> THEN <<cur>>
  ELSE LET candidate == cur.text \o separator \o Head(parts).text
       IN  IF Count(candidate) <= budget
             THEN MergeInto([text |-> candidate, from |-> cur.from, to |-> Head(parts).to],
                            Tail(parts), separator, budget)
             ELSE <<cur>> \o MergeInto(Head(parts), Tail(parts), separator, budget)

MergeGreedy(parts, separator, budget) ==
  IF parts = <<>> THEN <<>> ELSE MergeInto(Head(parts), Tail(parts), separator, budget)

\* splitByCharsWithSpans: as many runes as fit, one at least.
RECURSIVE ByRunes(_, _, _)
ByRunes(text, base, budget) ==
  IF text = <<>> THEN <<>>
  ELSE LET ends == (RuneStarts(text) \ {0}) \cup {Len(text)}
           fitting == {e \in ends : e = Least(ends) \/ Count(Cut(text, 0, e)) <= budget}
           e == Greatest(fitting)
       IN  <<[text |-> Cut(text, 0, e), from |-> base, to |-> base + e]>>
           \o ByRunes(Cut(text, e, Len(text)), base + e, budget)

RECURSIVE SplitAt(_, _, _, _)
SplitAt(raw, offset, budget, k) ==
  LET text == Trim(raw)
      base == offset + Lead(raw)
      parts == Parts(text, base, Levels[k])
      sep == Separator(Levels[k])
      split(p) == MergeGreedy(SplitAt(p.text, p.from, budget, k + 1), sep, budget)
      out == FlattenSeq([i \in DOMAIN parts |-> split(parts[i])])
  IN  CASE text = <<>> -> <<>>
        [] text # <<>> /\ Count(text) <= budget ->
             <<[text |-> text, from |-> base, to |-> base + Len(text)]>>
        [] text # <<>> /\ Count(text) > budget /\ Levels[k] = "char" -> ByRunes(Valid(text), base, budget)
        [] OTHER -> IF Len(parts) <= 1 \/ out = <<>> THEN SplitAt(text, base, budget, k + 1)
                    ELSE MergeGreedy(out, sep, budget)

RecursiveSplit(text, budget) == SplitAt(text, 0, budget, 1)

---------------------------------------------------------------------------
(* The lines of a piece, and the overlap with the chunk before it.         *)

LineStarts(text) == {0} \cup {i + 1 : i \in {k \in Offsets(text) : Byte(text, k) = "n"}}

\* linesForRange, lines counted from 1.
LinesForRange(text, from, to) ==
  [first |-> Cardinality({s \in LineStarts(text) : s <= from}),
   last |-> Greatest({1, Cardinality({s \in LineStarts(text) : s < to})})]

\* preferredOverlapCut: an overlap that starts inside a sentence is cut to the
\* next sentence, or to the next word.
PreferredCut(s) ==
  LET ends == {i \in Offsets(s) : Byte(s, i) = "." /\ PastSpace(s, i + 1, Space) < Len(s)}
      blanks == {i \in Offsets(s) : Byte(s, i) \in Space}
  IN  CASE s = <<>> \/ Head(s) = "A" -> 0
        [] s # <<>> /\ Head(s) # "A" /\ ends # {} -> PastSpace(s, Least(ends) + 1, Space)
        [] OTHER -> IF blanks = {} THEN 0 ELSE Least(blanks)

TrimStart(s) ==
  LET left == Cut(s, PastSpace(s, 0, Space), Len(s))
      rest == Cut(left, PreferredCut(left), Len(left))
  IN  Cut(rest, PastSpace(rest, 0, Space), Len(rest))

\* overlapSuffix: the longest suffix within the overlap's budget, trimmed.
OverlapSuffix(prev, overlapTokens) ==
  LET starts == {i \in RuneStarts(prev) : Count(Cut(prev, i, Len(prev))) <= overlapTokens}
  IN  IF overlapTokens <= 0 \/ prev = <<>> THEN <<>>
      ELSE TrimStart(IF starts = {} THEN prev ELSE Valid(Cut(prev, Least(starts), Len(prev))))

\* emitChunk: the overlap is put in front of the body when both fit.
Snippet(body, prev, budget, overlapTokens) ==
  LET overlap == OverlapSuffix(prev, overlapTokens)
  IN  IF overlap # <<>> /\ Count(overlap \o body) <= budget THEN overlap \o body ELSE body

=============================================================================
