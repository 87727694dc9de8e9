----------------------------- MODULE Algorithms -----------------------------
(***************************************************************************)
(* What the pure algorithms promise of every input: the cutting of files   *)
(* into windows of lines and of markdown into segments, the search under a *)
(* path filter, the layers of a setting.  An input is chosen and, if it is *)
(* a sequence, grows: a file (bytes), the lines of a text (their           *)
(* characters) or of a markdown document, prose (bytes), a collection      *)
(* (documents by distance).  The invariants compare what the code makes of *)
(* the input so far with what it should be; those about prose and about    *)
(* syntax trees are in MCAlgorithms.                                       *)
(***************************************************************************)
EXTENDS LineWindows, MarkdownSegments, SearchHits, Configuration

CONSTANTS
  MaxLength,     \* of an input, by its kind
  Lengths,       \* of a line, in characters
  Boosts,        \* what the second ranking takes off a distance
  Sizes,         \* what a window and an overlap are configured with
  Budgets,       \* of tokens in a window, with one of
  Leasts,        \* the least numbers of tokens
  Marks,         \* the bytes of prose
  Limits,        \* of hits
  Layers,        \* what the layers may say of a setting, by its kind
  Texts,         \* what they say in another world
  Trees          \* files of code, as syntax trees

Bytes == {"x", "n", "r"}
Growing == {"file", "lines", "markdown", "prose", "collection"}

ASSUME InputsAssumption ==
  /\ MaxLength \in [Growing -> Nat]
  /\ Lengths \subseteq Nat /\ Boosts \subseteq Int
  /\ Sizes \subseteq Int /\ Budgets \subseteq Nat \ {0} /\ Leasts \subseteq Nat
  /\ Limits \subseteq Nat \ {0}

Modes == {"process", "workspace", "collection"}
Kinds == {"number", "key", "token", "address", "auto", "paths"}
Said == [key : STRING, yaml : STRING, beside : STRING, workspace : STRING, envPath : STRING,
         env : STRING, opts : STRING, project : STRING]

ASSUME LayersAssumption == Texts \subseteq STRING /\ Layers \in [Kinds -> SUBSET Said]

VARIABLES kind, data
vars == <<kind, data>>

World(mode, name, said) ==
  [mode |-> mode, kind |-> name, key |-> said.key, yaml |-> said.yaml, beside |-> said.beside,
   workspace |-> said.workspace, envPath |-> said.envPath, env |-> said.env, opts |-> said.opts,
   project |-> said.project]

Document(match, boost, place) == [match |-> match, boost |-> boost, distance |-> place]

Choose ==
  /\ kind = "none"
  /\ \/ kind' \in Growing /\ data' = <<>>
     \/ kind' = "tree" /\ data' \in Trees
     \/ /\ kind' = "setting"
        /\ \E mode \in Modes, name \in Kinds : \E said \in Layers[name] :
             /\ mode = "process" => said.opts = "none"
             /\ data' = World(mode, name, said)

Grow ==
  /\ kind \in Growing /\ Len(data) < MaxLength[kind]
  /\ \/ kind = "file" /\ \E byte \in Bytes : data' = Append(data, byte)
     \/ kind = "lines" /\ \E length \in Lengths : data' = Append(data, length)
     \/ kind = "markdown" /\ \E line \in MarkdownLines : data' = Append(data, line)
     \/ kind = "prose" /\ \E mark \in Marks : data' = Append(data, mark)
     \/ /\ kind = "collection"
        /\ \E match \in BOOLEAN, boost \in Boosts :
             data' = Append(data, Document(match, boost, Len(data) + 1))
  /\ UNCHANGED kind

Init == kind = "none" /\ data = <<>>
Next == Choose \/ Grow
Spec == Init /\ [][Next]_vars

Worlds ==
  [mode : Modes, kind : Kinds, key : STRING, yaml : STRING, beside : STRING, workspace : STRING,
   envPath : STRING, env : STRING, opts : STRING, project : STRING]
Documents == [match : BOOLEAN, boost : Boosts, distance : Nat]
TypeOK ==
  \/ kind = "none" /\ data = <<>>
  \/ kind = "file" /\ data \in Seq(Bytes)
  \/ kind = "lines" /\ data \in Seq(Lengths)
  \/ kind = "markdown" /\ data \in Seq(MarkdownLines)
  \/ kind = "prose" /\ data \in Seq(Marks)
  \/ kind = "tree" /\ data \in Trees
  \/ kind = "collection" /\ data \in Seq(Documents)
  \/ kind = "setting" /\ data \in Worlds

---------------------------------------------------------------------------
(* Files and lines.                                                        *)

HasLine(windows, n) == \E i \in DOMAIN windows : windows[i][1] <= n /\ n <= windows[i][2]

\* A file is cut into the same windows of the same lines whether it is read
\* into memory or streamed (line_window.go FileChunksEmit, stream.go), and no
\* line that is not blank is missing from them.  A file of no bytes has one
\* blank line in memory and none in the stream.  The limit on the length of a
\* line is out: the two readers differ on it.
SameWindowsInMemoryAndStreamed ==
  kind = "file" =>
    LET memory == MemoryLines(data)
        streamed == ReadLines(data)
    IN  /\ data # <<>> => memory = streamed
        /\ \A window, overlap \in Sizes :
             LET windows == MemoryWindows(memory, window, overlap)
             IN  /\ windows = StreamWindows(streamed, window, overlap)
                 /\ \A n \in DOMAIN memory : memory[n] > 0 => HasLine(windows, n)

Within(windows, lines, budget) ==
  \A i \in DOMAIN windows :
    Tokens(lines, windows[i][1], windows[i][2]) <= budget \/ windows[i][1] = windows[i][2]
Covers(windows, lines, least) ==
  \A n \in DOMAIN lines : lines[n] > 0 /\ Tokens(lines, n, n) >= least => HasLine(windows, n)

\* Windows within a token budget exceed it by a single line at most, and every
\* line that is not blank (with a least number of tokens: that has as many) is
\* in a window, for the bisecting cut (SlideWindowEmit) and the shrinking one
\* (emitPartialWindows).
BudgetLosesNoLine ==
  kind = "lines" =>
    \A window, overlap \in Sizes, budget \in Budgets, least \in Leasts :
      LET slid == SlideWindows(data, window, overlap, budget, least)
          shrunk == PartialWindows(data, window, overlap, budget, least)
      IN  /\ Within(slid, data, budget) /\ Covers(slid, data, least)
          /\ Within(shrunk, data, budget) /\ Covers(shrunk, data, least)

\* The chunker of a file does not depend on its size (chunker.go ProcessBatches),
\* plain text in the prose strategies apart: a large one is read as markdown.
RouteIgnoresSize ==
  \A name \in {"md", "txt", "dcs", "code", "other"}, sdbl \in BOOLEAN,
     strategy \in {"line_window", "hybrid", "ast", "prose"} :
    LET file(big) == [kind |-> name, strategy |-> strategy, sdbl |-> sdbl, big |-> big] IN
    (name = "txt" /\ Prose(file(TRUE))) \/ Chunker(file(TRUE)) = Chunker(file(FALSE))

\* All three: what the choice of a chunker and the cutting into windows promise.
WindowsAreSound == RouteIgnoresSize /\ SameWindowsInMemoryAndStreamed /\ BudgetLosesNoLine

---------------------------------------------------------------------------
(* Markdown.                                                               *)

LinesIn(seg) == {seg.lines[k] : k \in DOMAIN seg.lines}
FirstLine(seg) == seg.lines[1]
LastLine(seg) == seg.lines[Len(seg.lines)]

\* The headings: lines that look like one outside code and front matter.
Headings(doc, segs) ==
  {n \in DOMAIN doc : /\ Level(doc[n]) > 0
                      /\ \A i \in DOMAIN segs : segs[i].kind \in {"code", "front"} => n \notin LinesIn(segs[i])}

\* The headings a line is under: of those before it, the last of each level that
\* no higher heading has closed.
Above(doc, headings, n) ==
  {h \in headings : h <= n /\ \A g \in headings : h < g /\ g <= n => Level(doc[g]) > Level(doc[h])}

\* Headings that skip no level, and tables that no heading, fence or rule ends.
Regular(doc, headings) == \A h \in headings : Level(doc[h]) <= Cardinality(Above(doc, headings, h))
Closed(doc) == \A n \in 1..(Len(doc) - 1) : doc[n] = "row" => doc[n + 1] \in {"row", "text", "blank"}

\* Segments are runs of lines, in their order; every line that is not blank is in
\* one.
Partition(doc, segs) ==
  /\ \A i \in DOMAIN segs :
       segs[i].lines # <<>> /\ \A k \in DOMAIN segs[i].lines : segs[i].lines[k] = FirstLine(segs[i]) + k - 1
  /\ \A i, j \in DOMAIN segs : i < j => LastLine(segs[i]) < FirstLine(segs[j])
  /\ \A n \in DOMAIN doc : doc[n] # "blank" => \E i \in DOMAIN segs : n \in LinesIn(segs[i])

\* Every line that is not blank is in exactly one segment, at its place, and the
\* scope of a segment is the chain of headings above it: the place in a document
\* where a heading or a fence never follows a table directly, the scope in one
\* that skips no heading level (markdown.go parseMarkdownSegments).
SegmentsPartitionAndScope ==
  kind = "markdown" =>
    LET segs == Segments(data)
        headings == Headings(data, segs)
    IN  /\ Partition(data, segs)
        /\ Closed(data) => \A i \in DOMAIN segs : segs[i].start = FirstLine(segs[i])
        /\ Regular(data, headings) =>
             \A i \in DOMAIN segs :
               {segs[i].scope[k] : k \in DOMAIN segs[i].scope} = Above(data, headings, FirstLine(segs[i]))

---------------------------------------------------------------------------
(* Search.                                                                 *)

AmongFirst(hits, n, h) == \E i \in 1..n : hits[i] = h

\* A path filter answers as if it had been applied to the whole collection
\* (collection.go searchWithGlobExpansion), and ranking the fetched hits again
\* and cutting them leaves out none that is better than one it keeps
\* (search_rerank.go, phase1.go SemanticSearch).
FilterSeesWholeCollection ==
  kind = "collection" =>
    \A topK, limit \in Limits :
      LET hits == Search(data, topK, TRUE)
          answer == Answer(data, limit, topK, TRUE)
      IN  /\ hits = Foremost(Matching(data)[Len(data)], topK)
          /\ Len(answer) = Clamp(Len(hits), 0, limit)
          /\ \A i \in DOMAIN answer : AmongFirst(hits, Len(hits), answer[i])
          /\ \A i \in DOMAIN answer, j \in DOMAIN hits :
               ~AmongFirst(answer, i - 1, hits[j]) => Adjusted(answer[i]) <= Adjusted(hits[j])

---------------------------------------------------------------------------
(* Settings.                                                               *)

\* "Process env stays untouched (same isolation as daemon mode)" (options.go
\* LoadForCollection): no setting of a collection depends on the environment of
\* the daemon or on the .env of the project, and none of a workspace in the
\* daemon on that environment.  A process of its own keeps what its environment
\* says whatever the .env files say (docs/CONFIG.md:17), an api key apart.
SettingsAreIsolated ==
  kind = "setting" =>
    \A text \in Texts :
      LET same(world) == Load(world) = Load(data)
      IN  /\ data.mode # "process" => same([data EXCEPT !.env = text])
          /\ data.mode = "collection" => same([data EXCEPT !.workspace = text])
          /\ data.mode = "process" /\ Given(data.env) /\ data.kind # "key" =>
               same([data EXCEPT !.beside = text, !.workspace = text, !.envPath = text])
=============================================================================
