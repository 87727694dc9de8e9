----------------------------- MODULE AstChunks -----------------------------
(***************************************************************************)
(* How the syntax tree of a file becomes chunks: engine.walkChunk over the *)
(* named nodes.  A node has its lines (from, to), whether it is a boundary *)
(* (a declaration the language's queries name), its kind ("class" descends *)
(* after it was emitted, "wrapper" is a decorator or an export, "solid" a  *)
(* statement that is not divided, "plain" the rest) and its kids.  Lines   *)
(* of a node that belong to no kid are its unnamed tokens.  A chunk is     *)
(* [from, to, name]: a boundary's chunk bears its first line as a name, a  *)
(* preamble the name Comment, other text none (0).                         *)
(* The header that a chunk's scope adds to it is left out: one budget for  *)
(* every scope.  internal/indexer/chunk/ast/engine.go                      *)
(***************************************************************************)
EXTENDS LineWindows, SequencesExt

MinTokens == 2
Budget == 4
Window == 3
Overlap == 1

Size(src, from, to) == Tokens(src, from, to)
Comment == -1
Chunk(from, to, name) == [from |-> from, to |-> to, name |-> name]

RECURSIVE Descendants(_)
Descendants(node) == UNION {{kid} \cup Descendants(kid) : kid \in ToSet(node.kids)}

\* hasBoundaryDescendant and findFirstBoundaryDescendant.
Boundaries(node) == {n \in Descendants(node) : n.bound}
FirstBoundary(node) == CHOOSE n \in Boundaries(node) : \A m \in Boundaries(node) : n.from <= m.from

\* emitPartialWindows, with the lines of the node counted from its first.
Windows(src, from, to, name) ==
  LET cut == PartialWindows(SubSeq(src, from, to), Window, Overlap, Budget, MinTokens)
  IN  [i \in DOMAIN cut |-> Chunk(from + cut[i][1] - 1, from + cut[i][2] - 1, name)]

\* Text that is not a declaration of its own: dropped when it is small, cut
\* into windows when it is large.
Emit(src, from, to, whole, part) ==
  CASE Size(src, from, to) < MinTokens -> <<>>
    [] Size(src, from, to) > Budget -> Windows(src, from, to, part)
    [] OTHER -> <<Chunk(from, to, whole)>>

\* emitPreambleBeforeFirstBoundary and emitTailAfterChildren.
Preamble(src, node) ==
  IF FirstBoundary(node).from = node.from THEN <<>>
  ELSE Emit(src, node.from, FirstBoundary(node).from - 1, Comment, 0)

TailOf(src, node, name) ==
  IF node.kids = <<>> \/ Last(node.kids).to = node.to THEN <<>>
  ELSE Emit(src, Last(node.kids).to + 1, node.to, name, name)

---------------------------------------------------------------------------
(* The walk: the siblings that wait in the buffer and the chunks so far.   *)

Nothing == [buffer |-> <<>>, out |-> <<>>]
Add(walk, chunks) == [walk EXCEPT !.out = @ \o chunks]

\* Slip: what waited is not emitted.
FlushDrops(src, walk, name) == [walk EXCEPT !.buffer = <<>>]

\* flushBuffer: a buffer that was cut into windows is not emptied.
Flush(src, walk, name) ==
  LET from == Head(walk.buffer).from
      to == Last(walk.buffer).to
      full == [walk EXCEPT !.out = @ \o Emit(src, from, to, 0, name)]
  IN  IF walk.buffer = <<>> THEN walk
      ELSE IF Size(src, from, to) > Budget THEN full ELSE [full EXCEPT !.buffer = <<>>]

\* A small sibling waits; the buffer is flushed before it would grow too big.
Hold(src, walk, node, name) ==
  LET held == IF walk.buffer = <<>> THEN 0
              ELSE Size(src, Head(walk.buffer).from, Last(walk.buffer).to)
      ready == IF held + Size(src, node.from, node.to) > Budget THEN Flush(src, walk, name) ELSE walk
  IN  [ready EXCEPT !.buffer = Append(@, node)]

RECURSIVE Walk(_, _, _, _, _)

\* A declaration: a tiny one waits with its siblings, one that fits is a chunk,
\* a larger one is walked, or cut when it is a wrapper.
AtBoundary(src, walk, node, name, extractOnly) ==
  LET size == Size(src, node.from, node.to)
      inner(only) == Walk(src, node, node.from, TRUE, only)
      held == IF extractOnly THEN walk ELSE Hold(src, walk, node, name)
      ready == Flush(src, walk, name)
      descends == Boundaries(node) # {} /\ (extractOnly \/ node.kind \in {"class", "wrapper"})
      own == <<Chunk(node.from, node.to, node.from)>>
  IN  CASE size < MinTokens ->
             IF Boundaries(node) = {} THEN held ELSE Add(Flush(src, held, name), inner(TRUE))
        [] size \in MinTokens..Budget -> Add(ready, own \o IF descends THEN inner(TRUE) ELSE <<>>)
        [] size > Budget /\ node.kind = "wrapper" ->
             IF extractOnly THEN ready ELSE Add(ready, Windows(src, node.from, node.to, node.from))
        [] OTHER -> Add(ready, inner(extractOnly))

\* A node around declarations: its preamble, then its kids.
AtGroup(src, walk, node, name, preamble, extractOnly) ==
  Add(Flush(src, walk, name),
      (IF preamble /\ ~extractOnly THEN Preamble(src, node) ELSE <<>>)
        \o Walk(src, node, name, FALSE, extractOnly))

\* A node without declarations.
AtStatement(src, walk, node, name) ==
  IF Size(src, node.from, node.to) <= Budget THEN Hold(src, walk, node, name)
  ELSE Add(Flush(src, walk, name),
           IF node.kids = <<>> \/ node.kind = "solid" THEN Windows(src, node.from, node.to, name)
           ELSE Walk(src, node, name, TRUE, FALSE))

AtNode(src, walk, node, name, preamble, extractOnly) ==
  CASE node.bound -> AtBoundary(src, walk, node, name, extractOnly)
    [] ~node.bound /\ Boundaries(node) # {} -> AtGroup(src, walk, node, name, preamble, extractOnly)
    [] OTHER -> IF extractOnly THEN walk ELSE AtStatement(src, walk, node, name)

\* walkChunk; the name is that of the declaration around it.
Walk(src, node, name, preamble, extractOnly) ==
  LET walked == FoldLeft(LAMBDA walk, kid : AtNode(src, walk, kid, name, preamble, extractOnly),
                         Nothing, node.kids)
  IN  Flush(src, walked, name).out
      \o (IF extractOnly THEN <<>> ELSE TailOf(src, node, name))

\* ChunkLanguage.
Chunks(src, root) == Walk(src, root, 0, TRUE, FALSE)
=============================================================================
