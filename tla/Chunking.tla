------------------------------ MODULE Chunking ------------------------------
(***************************************************************************)
(* How a document's text is cut up before it is embedded: ChunkSize of     *)
(* internal/index/chunk.go into overlapping spans, and splitSections of    *)
(* internal/index/heading.go into sections under their headings.  A run is *)
(* one call of either, each turn of its loop a step.                       *)
(*                                                                         *)
(* ChunkSize sees a sequence of characters, of which only spaces, line     *)
(* breaks and full stops matter; splitSections a sequence of lines: the    *)
(* level of a heading (a marker in the first column, a space and a title), *)
(* Fence or Prose.  Offsets count from 0 as in the code.                   *)
(***************************************************************************)
EXTENDS Integers, Sequences, SequencesExt, FiniteSetsExt

CONSTANTS
    PlainTexts, Sizes, Overlaps, DefaultSize,  \* arguments of ChunkSize, defaultSize
    Documents, Fence, Prose               \* arguments of splitSections

ASSUME ChunkingAssumption ==
    /\ DefaultSize \in Nat \ {0} /\ Sizes \cup Overlaps \subseteq Int
    /\ PlainTexts \subseteq Seq(STRING)
    /\ Documents \subseteq Seq(Nat \cup {Fence, Prose}) /\ Fence \notin Int /\ Prose \notin Int

VARIABLES
    at,                          \* "start", "chunk", "split" or "done"
    content, size, overlap, start,  \* ChunkSize
    spans,
    pos, bodyStart, inFence, stack, sections  \* splitSections, with content its lines

chunkVars == <<size, overlap, start, spans>>
splitVars == <<pos, bodyStart, inFence, stack, sections>>
chunkingVars == <<at, content, chunkVars, splitVars>>

ChunkingInit ==
    /\ at = "start" /\ content = <<>>
    /\ size = 0 /\ overlap = 0 /\ start = 0 /\ spans = <<>>
    /\ pos = 0 /\ bodyStart = 0 /\ inFence = FALSE /\ stack = <<>> /\ sections = <<>>

-----------------------------------------------------------------------------
\* The offset just past the last separator in content[from:to], or -1.
LastIndexAfter(from, to, sep) ==
    LET found == {i \in from .. to - Len(sep) : SubSeq(content, i + 1, i + Len(sep)) = sep}
    IN  IF found = {} THEN -1 ELSE Max(found) + Len(sep)

\* A paragraph, else a sentence, a line, a word, else the raw cut.
Separators == <<<<"\n", "\n">>, <<".", " ">>, <<"\n">>, <<" ">>>>

\* No chunk is shortened by more than a third.
BreakPoint(from, rawEnd) ==
    LET minCut == rawEnd - (rawEnd - from) \div 3
        cuts == [i \in DOMAIN Separators |-> LastIndexAfter(minCut, rawEnd, Separators[i])]
        good == {i \in DOMAIN cuts : cuts[i] > 0}
    IN  IF good = {} THEN rawEnd ELSE cuts[Min(good)]

Blank(c) == c \in {" ", "\n"}

BeginChunks ==
    /\ at = "start"
    /\ content' \in PlainTexts
    /\ \E s \in Sizes, o \in Overlaps :
          LET real == IF s <= 0 THEN DefaultSize ELSE s
          IN  /\ size' = real
              /\ overlap' = IF o < 0 \/ o >= real THEN 0 ELSE o
    /\ at' = IF content' = <<>> THEN "done" ELSE "chunk"
    /\ UNCHANGED <<start, spans, splitVars>>

\* Mutant of Chunk: the next chunk starts at the overlap, however short the
\* last one was.
ChunkAgain ==
    LET length == Len(content)
        end == IF start + size >= length THEN length ELSE BreakPoint(start, start + size)
    IN  /\ at = "chunk"
        /\ spans' = IF \A i \in start + 1 .. end : Blank(content[i]) THEN spans
                    ELSE Append(spans, [from |-> start, to |-> end])
        /\ at' = IF end >= length THEN "done" ELSE "chunk"
        /\ start' = IF end >= length THEN start ELSE end - overlap
        /\ UNCHANGED <<content, size, overlap, splitVars>>

Chunk ==
    LET length == Len(content)
        end == IF start + size >= length THEN length ELSE BreakPoint(start, start + size)
    IN  /\ at = "chunk"
        /\ spans' = IF \A i \in start + 1 .. end : Blank(content[i]) THEN spans
                    ELSE Append(spans, [from |-> start, to |-> end])
        /\ at' = IF end >= length THEN "done" ELSE "chunk"
        /\ start' = IF end >= length THEN start
                    ELSE IF end - overlap <= start THEN end ELSE end - overlap
        /\ UNCHANGED <<content, size, overlap, splitVars>>

-----------------------------------------------------------------------------
BeginSections ==
    /\ at = "start"
    /\ content' \in Documents
    /\ at' = "split"
    /\ UNCHANGED <<chunkVars, splitVars>>

\* The section that ends before line end, under the open headings.
Flushed(end) ==
    IF end <= bodyStart THEN sections
    ELSE Append(sections, [breadcrumb |-> stack, from |-> bodyStart, to |-> end])

\* Mutant of Enclosing: a heading of the same level stays open.
EnclosingSame(level) ==
    SubSeq(stack, 1, Max({0} \cup {i \in DOMAIN stack : content[stack[i]] <= level}))

\* The open headings above a new one: the last ones are popped until one of a
\* lower level is on top.
Enclosing(level) ==
    SubSeq(stack, 1, Max({0} \cup {i \in DOMAIN stack : content[stack[i]] < level}))

ReadLine ==
    LET line == content[pos + 1]
        heading == ~inFence /\ line \notin {Fence, Prose}
    IN  /\ at = "split" /\ pos < Len(content)
        /\ pos' = pos + 1
        /\ inFence' = (inFence # (line = Fence))
        /\ IF heading
           THEN /\ sections' = Flushed(pos)
                /\ stack' = Append(Enclosing(line), pos + 1)
                /\ bodyStart' = pos + 1
           ELSE UNCHANGED <<sections, stack, bodyStart>>
        /\ UNCHANGED <<at, content, chunkVars>>

\* Without a heading the caller falls back to Chunk.
EndSections ==
    /\ at = "split" /\ pos = Len(content)
    /\ sections' = IF stack = <<>> THEN <<>> ELSE Flushed(pos)
    /\ at' = "done"
    /\ UNCHANGED <<content, chunkVars, pos, bodyStart, inFence, stack>>

ChunkingNext == BeginChunks \/ Chunk \/ BeginSections \/ ReadLine \/ EndSections

ChunkingSpec == ChunkingInit /\ [][ChunkingNext]_chunkingVars

-----------------------------------------------------------------------------
(* What is not in a chunk cannot be found, and a loop that does not        *)
(* advance never ends: the spans move on strictly, each at most size long  *)
(* and all but the last at least two thirds of it, neighbours share no     *)
(* more than the overlap, and at the end no character other than space is  *)
(* outside of all of them.                                                 *)
ChunksCover ==
    /\ \A i \in DOMAIN spans :
        /\ spans[i].to - spans[i].from <= size
        /\ spans[i].to < Len(content) => 3 * (spans[i].to - spans[i].from) >= 2 * size
        /\ i > 1 => /\ spans[i].from > spans[i-1].from
                    /\ spans[i].from >= spans[i-1].to - overlap
    /\ at = "done" /\ size > 0 =>
        \A c \in DOMAIN content : Blank(content[c]) \/
            \E i \in DOMAIN spans : c \in spans[i].from + 1 .. spans[i].to

\* The headings outside of fences, and those still open at a line: no later
\* one up to there is of its level or above.
Headings == {i \in DOMAIN content : content[i] \notin {Fence, Prose}
                /\ Cardinality({f \in 1 .. i : content[f] = Fence}) % 2 = 0}
OpenAt(line) == {i \in Headings : i < line /\ \A k \in Headings \cap i + 1 .. line : content[k] > content[i]}

(* A section's chunks carry "every enclosing heading still open at that    *)
(* point": in a document with headings, every line after the first of them *)
(* that is none is in exactly one section, under the headings that enclose *)
(* it, outermost first; a marker inside a fence is prose.                  *)
SectionsExact ==
    at = "done" /\ size = 0 /\ Headings # {} =>
        \A line \in DOMAIN content \ Headings :
            LET around == {i \in DOMAIN sections : line \in sections[i].from + 1 .. sections[i].to}
            IN  \E i \in around :
                    /\ around = {i}
                    /\ Range(sections[i].breadcrumb) = OpenAt(line)
                    /\ \A j \in 2 .. Len(sections[i].breadcrumb) :
                          sections[i].breadcrumb[j-1] < sections[i].breadcrumb[j]
=============================================================================
