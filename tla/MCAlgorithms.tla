---------------------------- MODULE MCAlgorithms ----------------------------
(***************************************************************************)
(* The inputs TLC tries (texts that the layers of a setting tell apart,    *)
(* small syntax trees), and what is promised of prose and of code, whose   *)
(* algorithms recurse.                                                     *)
(***************************************************************************)
EXTENDS Algorithms, SequencesExt, TLC

PS == INSTANCE ProseSplit
AC == INSTANCE AstChunks

MCMaxLength == [what \in Growing |-> CASE what = "file" -> 7 [] what = "prose" -> 6 [] OTHER -> 5]

---------------------------------------------------------------------------
(* Layers.                                                                 *)

MCLayers ==
  [name \in Kinds |->
     CASE name = "number" ->
            [key : Keys, yaml : {"none", "0", "-1", "1"}, beside : {"none"},
             workspace : {"none", "", "x", "0", "2"}, envPath : {"none", "", "3"},
             env : {"none", "x", "0", "-1", "4"}, opts : {"none"}, project : {"none", "0", "-1", "5"}]
       [] name = "paths" ->
            [key : {"workspace", "allowlisted", "user", "elsewhere"}, yaml : {"none"}, beside : {"none"},
             workspace : {"none", "", "warn", "strict"}, envPath : {"none", "strict"},
             env : {"none", "warn", "strict"}, opts : {"none", "warn", "strict"}, project : {"none"}]
       [] OTHER ->
            [key : {"named", "unnamed"}, yaml : {"none", "1"}, beside : {"none", "", "2"},
             workspace : {"none", "", "1"}, envPath : {"none", "", "3"},
             env : {"none", "1", "4"}, opts : {"none", "1", "5"}, project : {"none"}]]
MCTexts == {"none", "", "2", "strict"}
---------------------------------------------------------------------------
(* Trees.  A shape has the sizes of its own lines before and after its     *)
(* kids; Placed gives every node its place in the file.  A declaration has a *)
(* name below it: one without kids is small.                               *)

Leaves ==
  [bound : {FALSE}, kind : {"plain"}, head : {<<2>>, <<5>>, <<12>>, <<1, 12>>}, tail : {<<>>}, kids : {<<>>}]
    \cup [bound : {TRUE}, kind : {"plain"}, head : {<<2>>, <<5>>}, tail : {<<>>}, kids : {<<>>}]
OneLine == {s \in Leaves : Len(s.head) = 1}
Nodes(kids) == [bound : BOOLEAN, kind : {"plain", "class", "wrapper", "solid"}, head : {<<>>, <<5>>},
                tail : {<<>>, <<5>>}, kids : kids]
Inner == Nodes([1..1 -> OneLine] \cup [1..2 -> {s \in OneLine : s.head # <<12>>}])
Deep == {s \in Nodes([1..1 -> Nodes([1..1 -> OneLine])]) : s.kind # "solid"}

RECURSIVE LinesOf(_)
LinesOf(shape) ==
  shape.head \o FlattenSeq([i \in DOMAIN shape.kids |-> LinesOf(shape.kids[i])]) \o shape.tail

RECURSIVE Placed(_, _)
Placed(shape, from) ==
  LET before(i) == Len(shape.head) + Len(FlattenSeq([j \in 1..(i - 1) |-> LinesOf(shape.kids[j])]))
  IN  [bound |-> shape.bound, kind |-> shape.kind, from |-> from, to |-> from + Len(LinesOf(shape)) - 1,
       kids |-> [i \in DOMAIN shape.kids |-> Placed(shape.kids[i], from + before(i))]]

Root(kids) == [bound |-> FALSE, kind |-> "plain", head |-> <<>>, tail |-> <<>>, kids |-> kids]

TreeOf(kids) == LET root == Root(kids) IN [src |-> LinesOf(root), root |-> Placed(root, 1)]

\* Up to three leaves, a leaf and a node with kids, and a node with grandchildren.
MCTrees ==
  {TreeOf(kids) : kids \in UNION {[1..n -> Leaves] : n \in 1..3}}
    \cup {TreeOf(<<leaf, node>>) : leaf \in Leaves, node \in Inner}
    \cup {TreeOf(<<[node EXCEPT !.bound = bound]>>) : node \in Deep, bound \in BOOLEAN}

---------------------------------------------------------------------------
(* Prose.                                                                  *)

Inside(bytes, text) == SelectSeq(text, LAMBDA c : c \in bytes)
AsciiInk == {"a", "A", ".", ":"}
Ink == AsciiInk \cup {"L", "T"}

\* A first byte is followed by its second, and so wherever one is.
IsText(text) ==
  \A i \in DOMAIN text : /\ text[i] = "L" => i < Len(text) /\ text[i + 1] = "T"
                         /\ text[i] = "T" => i > 1 /\ text[i - 1] = "L"

\* No word is cut from its line: there is none of the letters whose second byte
\* passes for white space, or every line fits.
NoLetterIsCut(text, budget) ==
  \/ \A i \in DOMAIN text : text[i] # "L"
  \/ \A from, to \in 0..Len(text) :
       Inside({"n"}, PS!Cut(text, from, to)) = <<>> => PS!Count(PS!Cut(text, from, to)) <= budget

\* Splitting prose to a budget loses no letter of one byte, and all pieces are
\* within the budget, and so is a piece with the overlap of the piece before it,
\* which it still ends with.  Where no letter is cut in two no other letter is
\* lost either, and the pieces keep their places: they follow each other in the
\* text, and each is what the text has between its offsets but for white space
\* (recursive.go recursiveSplit, markdown.go emitChunk).
SplitKeepsText ==
  kind = "prose" /\ IsText(data) =>
    \A budget \in 1..2 : \A pieces \in {PS!RecursiveSplit(data, budget)} :
    LET snippet(i) == PS!Snippet(pieces[i].text, pieces[i - 1].text, budget, budget)
        kept(bytes) == FlattenSeq([i \in DOMAIN pieces |-> Inside(bytes, pieces[i].text)])
    IN  /\ kept(AsciiInk) = Inside(AsciiInk, data)
        /\ \A i \in DOMAIN pieces :
             /\ PS!Count(pieces[i].text) <= budget
             /\ i > 1 => /\ PS!Count(snippet(i)) <= budget
                         /\ IsSuffix(pieces[i].text, snippet(i))
        /\ NoLetterIsCut(data, budget) =>
             /\ kept(Ink) = Inside(Ink, data)
             /\ \A i \in DOMAIN pieces :
                  /\ Inside(Ink, pieces[i].text) = Inside(Ink, PS!Cut(data, pieces[i].from, pieces[i].to))
                  /\ i > 1 => pieces[i - 1].to <= pieces[i].from

---------------------------------------------------------------------------
(* Syntax trees.                                                           *)

\* Every line of a leaf that has the least number of tokens is in a chunk, every
\* declaration that fits a chunk is whole in one (unless it is in a wrapper that
\* does not fit, which is cut by lines), and no chunk exceeds the budget
\* by more than a single line (engine.go walkChunk).
AstCoversLeaves ==
  kind = "tree" =>
    \A chunks \in {AC!Chunks(data.src, data.root)} :
      LET size(from, to) == AC!Size(data.src, from, to)
          covered(from, to) == \E i \in DOMAIN chunks : chunks[i].from <= from /\ to <= chunks[i].to
          boundaries == AC!Boundaries(data.root)
          leaves == {n \in AC!Descendants(data.root) : n.kids = <<>>}
      IN  /\ \A i \in DOMAIN chunks : \/ size(chunks[i].from, chunks[i].to) <= AC!Budget
                                       \/ chunks[i].from = chunks[i].to
          /\ \A n \in leaves : \A l \in n.from..n.to : size(l, l) >= AC!MinTokens => covered(l, l)
          /\ \A n \in boundaries :
               size(n.from, n.to) \in AC!MinTokens..AC!Budget =>
                 \/ covered(n.from, n.to)
                 \/ \E w \in boundaries : w.kind = "wrapper" /\ n \in AC!Descendants(w)

\* Both: what the cutting of prose and of code promises.
SplittingIsSound == SplitKeepsText /\ AstCoversLeaves

\* No chunk is emitted twice: TestChunkGoUniqueSpans (ast/engine_test.go:154).
UniqueSpans ==
  kind = "tree" => LET chunks == AC!Chunks(data.src, data.root)
                   IN  \A i, j \in DOMAIN chunks : i # j => chunks[i] # chunks[j]
=============================================================================
