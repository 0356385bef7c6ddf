------------------------------ MODULE PatchHunks ------------------------------
(***************************************************************************)
(* What apply_patch makes of a unified diff (capability-coding/src/        *)
(* patch.rs): parse_patch, one line of the patch at a time, then           *)
(* target_path, prepare_change and apply_hunks.  How the new content gets  *)
(* to the disk is in AtomicPatch.                                          *)
(*                                                                         *)
(* Text is a sequence of symbols with "N" for the newline, so a line is a  *)
(* sequence that ends in "N", unless it is the last one.  A line of the    *)
(* patch is a record whose kind is what its first characters make it; the  *)
(* paths of the headers are without "a/" and "b/".                         *)
(***************************************************************************)
EXTENDS Naturals, Sequences, SequencesExt, FiniteSetsExt

CONSTANT MAX_PATCH_LINES

VARIABLE patching          \* the apply_patch call that runs

DevNull == "/dev/null"

NoPatching == [state |-> "idle"]

\* The parser before the first line, for a file with the given content; a file
\* that is not there has no content.
StartPatching(exists, original) ==
    [state |-> "outside", exists |-> exists, original |-> original, lines |-> 0, ended |-> FALSE,
     old_path |-> DevNull, new_path |-> DevNull, hunks |-> <<>>, files |-> <<>>,
     result |-> <<>>]

Failed == [state |-> "failed"]

-----------------------------------------------------------------------------
\* parse_patch.

parse_header_path(p, field, line, next) ==
    IF line.path = "" THEN Failed ELSE [p EXCEPT ![field] = line.path, !.state = next]

OldHeader(p, line) ==
    parse_header_path([p EXCEPT !.hunks = <<>>], "old_path", line, "new_header")

FilePatch(p) == [old_path |-> p.old_path, new_path |-> p.new_path, hunks |-> p.hunks]
WithFile(p) == [p EXCEPT !.files = Append(@, FilePatch(p))]

\* Outside a file patch everything is skipped until a header.
Outside(p, line) == IF line.kind = "---" THEN OldHeader(p, line) ELSE p

Complete(hunk) == hunk.old_seen = hunk.old_count /\ hunk.new_seen = hunk.new_count

\* After a whole hunk: the next hunk, or the end of the file patch.
BetweenHunks(p, line) ==
    CASE line.kind = "@@" ->
           LET hunk == [old_start |-> line.old_start, old_count |-> line.old_count,
                        new_count |-> line.new_count, old_seen |-> 0, new_seen |-> 0,
                        lines |-> <<>>]
           IN  [p EXCEPT !.hunks = Append(@, hunk),
                         !.state = IF Complete(hunk) THEN "marker" ELSE "body"]
      [] line.kind # "@@" /\ p.hunks # <<>> /\ line.kind = "---" -> OldHeader(WithFile(p), line)
      [] line.kind # "@@" /\ p.hunks # <<>> /\ line.kind = "metadata" ->
           [WithFile(p) EXCEPT !.state = "outside"]
      [] OTHER -> Failed

EndsIn(text, c) == text # <<>> /\ Last(text) = c

\* "R" is the carriage return, which goes with the newline.
without_line_ending(text) ==
    CASE ~EndsIn(text, "N") -> text
      [] EndsIn(text, "N") /\ ~EndsIn(Front(text), "R") -> Front(text)
      [] OTHER -> Front(Front(text))

strip_last_line_ending(lines) ==
    [lines EXCEPT ![Len(lines)].content = without_line_ending(@)]

\* The marker belongs to the last line of the last hunk.
NoNewline(p, next) ==
    LET last == Len(p.hunks) IN
    IF p.hunks[last].lines = <<>> THEN Failed
    ELSE [p EXCEPT !.hunks[last].lines = strip_last_line_ending(@), !.state = next]

\* Inside a hunk only the first character counts: a header line is content too.
BodyKind(line) ==
    CASE line.kind \in {" ", "-", "+"} -> line.kind
      [] line.kind = "---" -> "-"
      [] line.kind = "+++" -> "+"
      [] OTHER -> "invalid"

HunkLine(p, line) ==
    LET last == Len(p.hunks)
        kind == BodyKind(line)
        hunk == [p.hunks[last] EXCEPT
                   !.old_seen = @ + (IF kind \in {" ", "-"} THEN 1 ELSE 0),
                   !.new_seen = @ + (IF kind \in {" ", "+"} THEN 1 ELSE 0),
                   !.lines = Append(@, [kind |-> kind, content |-> line.content])]
    IN  IF \/ kind = "invalid"
           \/ hunk.old_seen > hunk.old_count
           \/ hunk.new_seen > hunk.new_count
        THEN Failed
        ELSE [p EXCEPT !.hunks[last] = hunk,
                       !.state = IF Complete(hunk) THEN "marker" ELSE "body"]

ParseLine(p, line) ==
    CASE p.state = "outside" -> Outside(p, line)
      [] p.state = "new_header" ->
           IF line.kind = "+++" THEN parse_header_path(p, "new_path", line, "between") ELSE Failed
      [] p.state = "between" -> BetweenHunks(p, line)
      [] p.state = "marker" ->
           IF line.kind = "no_newline" THEN NoNewline(p, "between") ELSE BetweenHunks(p, line)
      [] p.state = "body" ->
           IF line.kind = "no_newline" THEN NoNewline(p, "body") ELSE HunkLine(p, line)

\* The patch ends: what was open is closed, or it is malformed.
EndOfPatch(p) ==
    CASE p.state = "outside" /\ p.files # <<>> -> [p EXCEPT !.state = "parsed"]
      [] p.state \in {"between", "marker"} /\ p.hunks # <<>> ->
           [WithFile(p) EXCEPT !.state = "parsed"]
      [] OTHER -> Failed

-----------------------------------------------------------------------------
\* target_path, prepare_change and apply_hunks.

target_path_is_valid(file) ==
    /\ file.old_path # DevNull \/ file.new_path # DevNull
    /\ file.old_path # DevNull /\ file.new_path # DevNull => file.old_path = file.new_path

\* A new file for a name that is free, or a change of a file that is there;
\* a deletion is refused.
prepare_change_is_valid(file, exists) ==
    /\ file.new_path # DevNull
    /\ exists = (file.old_path # DevNull)

\* The lines of a text, each with its newline.
SplitStep(lines, c) ==
    IF lines = <<>> \/ EndsIn(Last(lines), "N") THEN Append(lines, <<c>>)
    ELSE Append(Front(lines), Append(Last(lines), c))
split_inclusive(text) == FoldLeft(SplitStep, <<>>, text)

require_original_line(original, cursor, expected) ==
    cursor < Len(original) /\ original[cursor + 1] = expected

\* a.output is kept as the sequence of the pieces that push_str appends.
ApplyLine(a, line, original) ==
    LET required == a.ok /\ require_original_line(original, a.cursor, line.content)
        added == Append(a.output, line.content)
    IN  CASE line.kind = " " -> [ok |-> required, cursor |-> a.cursor + 1, output |-> added]
          [] line.kind = "-" -> [ok |-> required, cursor |-> a.cursor + 1, output |-> a.output]
          [] line.kind = "+" -> [a EXCEPT !.output = added]

\* The line the hunk starts at, counted from 0.
StartLine(hunk) == IF hunk.old_start = 0 THEN 0 ELSE hunk.old_start - 1

\* Mutant: a hunk may start before the end of the hunk in front of it.
MutantApplyHunk(a, hunk, original) ==
    LET start == StartLine(hunk)
        at == [ok |-> a.ok, cursor |-> start,
               output |-> a.output \o SubSeq(original, a.cursor + 1, start)]
    IN  IF ~a.ok \/ start > Len(original) THEN [a EXCEPT !.ok = FALSE]
        ELSE FoldLeft(LAMBDA b, line : ApplyLine(b, line, original), at, hunk.lines)

ApplyHunk(a, hunk, original) ==
    LET start == StartLine(hunk)
        at == [ok |-> a.ok, cursor |-> start,
               output |-> a.output \o SubSeq(original, a.cursor + 1, start)]
    IN  IF ~a.ok \/ start < a.cursor \/ start > Len(original) THEN [a EXCEPT !.ok = FALSE]
        ELSE FoldLeft(LAMBDA b, line : ApplyLine(b, line, original), at, hunk.lines)

apply_hunks(text, hunks) ==
    LET original == split_inclusive(text)
        a == FoldLeft(LAMBDA b, hunk : ApplyHunk(b, hunk, original),
                      [ok |-> TRUE, cursor |-> 0, output |-> <<>>], hunks)
    IN  [a EXCEPT !.output = @ \o SubSeq(original, a.cursor + 1, Len(original))]

-----------------------------------------------------------------------------
\* The call.  The lines of the patch are chosen as they are read, so a behaviour
\* stands for every patch that starts with them.

Parsing == patching.state \in {"outside", "new_header", "between", "marker", "body"}

\* Only the last line of the patch may be without its newline.
ReadPatchLine(line) ==
    /\ Parsing /\ ~patching.ended
    /\ patching' = IF patching.lines = MAX_PATCH_LINES THEN Failed
                   ELSE ParseLine([patching EXCEPT !.lines = @ + 1,
                                                   !.ended = ~EndsIn(line.content, "N")], line)

FinishPatch ==
    /\ Parsing /\ patching.lines > 0
    /\ patching' = EndOfPatch(patching)

\* Exactly one file patch; the limits on the file and the cancellation flag may
\* end the call too.
ApplyPatch ==
    /\ patching.state = "parsed"
    /\ \/ patching' = Failed
       \/ LET file == patching.files[1]
              applied == apply_hunks(patching.original, file.hunks)
          IN  /\ Len(patching.files) = 1
              /\ target_path_is_valid(file)
              /\ prepare_change_is_valid(file, patching.exists)
              /\ applied.ok
              /\ patching' = [patching EXCEPT !.state = "done", !.result = applied.output]

PatchStep(Lines) ==
    \/ \E line \in Lines : ReadPatchLine(line)
    \/ FinishPatch
    \/ ApplyPatch

-----------------------------------------------------------------------------
\* The patch that undoes a patch: additions and removals change places, and the
\* hunks start where the lines went.

ReverseLine(line) ==
    [line EXCEPT !.kind = CASE @ = "-" -> "+" [] @ = "+" -> "-" [] OTHER -> @]

\* start is counted from 0.
ReverseHunk(hunk, start) ==
    [old_start |-> start + 1,
     old_count |-> hunk.new_count, new_count |-> hunk.old_count,
     old_seen |-> hunk.new_seen, new_seen |-> hunk.old_seen,
     lines |-> [k \in DOMAIN hunk.lines |-> ReverseLine(hunk.lines[k])]]

ReverseHunks(hunks) ==
    LET Before(i) == SubSeq(hunks, 1, i - 1)
        Added(i) == FoldLeft(LAMBDA n, hunk : n + hunk.new_count, 0, Before(i))
        Removed(i) == FoldLeft(LAMBDA n, hunk : n + hunk.old_count, 0, Before(i))
    IN  [i \in DOMAIN hunks |->
           ReverseHunk(hunks[i], StartLine(hunks[i]) + Added(i) - Removed(i))]

\* A text of these lines has these lines: only the last one has no newline, and
\* none is empty.
Whole(lines) ==
    \A k \in DOMAIN lines : lines[k] # <<>> /\ (k < Len(lines) => EndsIn(lines[k], "N"))

\* A patch that was applied changes what it says and nothing else: its reverse,
\* applied to the result, is accepted and gives back the original file, byte for
\* byte, whatever the order and the counts of its hunks.  (A line that loses its
\* newline before the end of the file is joined with the next one, and an empty
\* line that loses it is no line; the reverse then has no such lines to find.)
PatchIsReversible ==
    patching.state = "done" /\ Whole(patching.result) =>
        LET back == apply_hunks(FlattenSeq(patching.result),
                                ReverseHunks(patching.files[1].hunks))
        IN  back.ok /\ FlattenSeq(back.output) = patching.original
=============================================================================
