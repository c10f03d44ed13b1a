------------------------------ MODULE Markers ------------------------------
(***************************************************************************)
(* src/core/markers.ts and the mirror block of src/ops/mirror.ts: a block  *)
(* of ours between a start and an end marker, in a file a person edits     *)
(* too.  A text is a sequence of pieces: a marker, one of our bodies, the  *)
(* frontmatter of a rule file, or a passage of the person's.  Blank lines  *)
(* around the block are not pieces.                                        *)
(***************************************************************************)
EXTENDS Integers, Sequences

Start == "start"
End == "end"
Frontmatter == "front"

\* The first start marker and the first end marker after it: a set of at most
\* one pair, empty when there is no terminated block.
find(text) ==
  {span \in (DOMAIN text) \X (DOMAIN text) :
    /\ text[span[1]] = Start /\ text[span[2]] = End /\ span[1] < span[2]
    /\ \A i \in DOMAIN text : text[i] = Start => i >= span[1]
    /\ \A i \in DOMAIN text : text[i] = End => i < span[1] \/ i >= span[2]}

hasBlock(text) == find(text) # {}

\* What is between the markers: a set of at most one text.
extractBlock(text) == {SubSeq(text, span[1] + 1, span[2] - 1) : span \in find(text)}

Before(text) == LET span == CHOOSE s \in find(text) : TRUE IN SubSeq(text, 1, span[1] - 1)
After(text) == LET span == CHOOSE s \in find(text) : TRUE IN SubSeq(text, span[2] + 1, Len(text))

Block(inner) == <<Start>> \o inner \o <<End>>

\* In place when the block exists, appended otherwise; an unterminated start
\* marker counts as no block.
upsertBlock(text, inner) ==
  IF hasBlock(text) THEN Before(text) \o Block(inner) \o After(text) ELSE text \o Block(inner)

\* The text without its block; only asked of a text that has one.
removeBlock(text) == Before(text) \o After(text)

\* mirror: whether the block holds anything but this body.
isStale(text, body) == extractBlock(text) # {<<body>>}

\* mirror: the text a write leaves.  A rule file that mirror creates starts with
\* its frontmatter.
mirrored(there, text, isRule, body) ==
  upsertBlock(IF ~there /\ isRule THEN <<Frontmatter>> ELSE text, <<body>>)

\* mirror: nothing is left that anybody wrote.
isBare(text) == text \in {<<>>, <<Frontmatter>>}

\* A start marker that lost its end: the next marker after it starts a block too,
\* or there is none.
Unterminated(text) ==
  \E i \in DOMAIN text : text[i] = Start
    /\ \A j \in DOMAIN text : j > i /\ text[j] = End
        => \E k \in DOMAIN text : i < k /\ k < j /\ text[k] = Start

=============================================================================
