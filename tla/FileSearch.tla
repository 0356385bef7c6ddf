------------------------------ MODULE FileSearch ------------------------------
(***************************************************************************)
(* search_files (capability-coding/src/search.rs): a depth-first walk of a *)
(* directory that reads each file in chunks, feeds them to a UTF-8         *)
(* validator and to a Knuth-Morris-Pratt matcher, and keeps the matching   *)
(* lines within several budgets.  A read may return any number of bytes.   *)
(*                                                                         *)
(* Bytes are "a" and "b", the newline "N", the carriage return "R" and the *)
(* two bytes "L" "C" of a longer character.  A match costs one unit of the *)
(* content budget per visible byte and one for the rest of its JSON object.*)
(* The tree does not change during a search.                               *)
(***************************************************************************)
EXTENDS Naturals, Sequences, SequencesExt, FiniteSetsExt

CONSTANTS MAX_SEARCH_MATCHES, MAX_SEARCH_LINE_BYTES, MAX_SEARCH_DIRECTORIES,
          MAX_SEARCH_ENTRIES, MAX_SEARCH_DIRECTORY_ENTRIES, MAX_SEARCH_DEPTH,
          MAX_SEARCH_FILES, MAX_SEARCH_BYTES, MAX_TOOL_CONTENT_SERIALIZED_BYTES, MAX_OUTPUT_BYTES

VARIABLE search           \* the state of the one search that runs

-----------------------------------------------------------------------------
\* LiteralPattern.

\* fallback[i]: the length of the longest proper border of the first i bytes.
fallback(needle) ==
    LET f[i \in 1 .. Len(needle)] ==
          IF i = 1 THEN 0
          ELSE LET g[m \in 0 .. (i - 1)] ==
                     IF needle[i] = needle[m + 1] THEN m + 1
                     ELSE IF m = 0 THEN 0 ELSE g[f[m]]
               IN  g[f[i - 1]]
    IN  f

\* Mutant: a mismatch starts over.
mutant_advance(needle, matched, byte) ==
    IF byte = needle[matched + 1] THEN matched + 1
    ELSE IF byte = needle[1] THEN 1 ELSE 0

advance(needle, matched, byte) ==
    LET fb == fallback(needle)
        h[m \in 0 .. (Len(needle) - 1)] ==
          IF byte = needle[m + 1] THEN m + 1
          ELSE IF m = 0 THEN 0 ELSE h[fb[m]]
    IN  h[matched]

-----------------------------------------------------------------------------
\* Utf8Validator and visible_utf8_prefix.

ValidUtf8(bytes) ==
    \A i \in DOMAIN bytes :
        /\ bytes[i] = "L" => i < Len(bytes) /\ bytes[i + 1] = "C"
        /\ bytes[i] = "C" => i > 1 /\ bytes[i - 1] = "L"

IncompleteTail(bytes) ==
    bytes # <<>> /\ Last(bytes) = "L" /\ ValidUtf8(Front(bytes))

\* feed: what was held back goes in front of the new bytes.
Utf8Accepts(pending, bytes) ==
    ValidUtf8(pending \o bytes) \/ IncompleteTail(pending \o bytes)
Utf8Pending(pending, bytes) ==
    IF ValidUtf8(pending \o bytes) THEN <<>> ELSE <<"L">>

visible_utf8_prefix(bytes) == IF IncompleteTail(bytes) THEN Front(bytes) ELSE bytes

StripCr(bytes) == IF bytes # <<>> /\ Last(bytes) = "R" THEN Front(bytes) ELSE bytes

-----------------------------------------------------------------------------
\* LineState.

NewLine == [visible |-> <<>>, bytes_seen |-> 0, matcher_state |-> 0,
            matched |-> FALSE, truncated |-> FALSE]

feed(line, byte, needle) ==
    LET fits == Len(line.visible) < MAX_SEARCH_LINE_BYTES
        state == IF line.matched THEN line.matcher_state
                 ELSE advance(needle, line.matcher_state, byte)
    IN  [visible |-> IF fits THEN Append(line.visible, byte) ELSE line.visible,
         bytes_seen |-> line.bytes_seen + 1,
         matcher_state |-> state,
         matched |-> line.matched \/ state = Len(needle),
         truncated |-> line.truncated \/ ~fits]

-----------------------------------------------------------------------------
\* SearchResults.

NoResults == [matches |-> <<>>, serialized |-> 0, bytes |-> 0, files |-> 0, directories |-> 0,
              entries |-> 0, skipped |-> 0, truncated |-> FALSE, limit_reached |-> FALSE]

mark_limit_reached(r) == [r EXCEPT !.truncated = TRUE, !.limit_reached = TRUE]

record_directory(r) ==
    IF r.directories = MAX_SEARCH_DIRECTORIES THEN mark_limit_reached(r)
    ELSE [r EXCEPT !.directories = @ + 1]

\* sorted_entries: every entry is recorded until the budget is used up.
record_entries(r, n) ==
    IF r.entries + n > MAX_SEARCH_ENTRIES
    THEN mark_limit_reached([r EXCEPT !.entries = MAX_SEARCH_ENTRIES])
    ELSE [r EXCEPT !.entries = @ + n]

Restored(r, checkpoint) ==
    [r EXCEPT !.matches = SubSeq(@, 1, checkpoint.matches),
              !.serialized = checkpoint.serialized,
              !.truncated = checkpoint.truncated,
              !.limit_reached = checkpoint.limit_reached]

discard_binary_file(r, checkpoint) == [Restored(r, checkpoint) EXCEPT !.skipped = @ + 1]
discard_incomplete_file(r, checkpoint) == mark_limit_reached(Restored(r, checkpoint))

Cost(text) == Len(text) + 1

finish_line(r, file, number, line) ==
    LET text == StripCr(visible_utf8_prefix(line.visible))
        seen == [r EXCEPT !.truncated = @ \/ line.truncated]
    IN  IF ~line.matched \/ r.limit_reached THEN r
        ELSE IF \/ Len(r.matches) = MAX_SEARCH_MATCHES
                \/ r.serialized + Cost(text) > MAX_TOOL_CONTENT_SERIALIZED_BYTES
        THEN mark_limit_reached(seen)
        ELSE [seen EXCEPT !.serialized = @ + Cost(text),
                          !.matches = Append(@, [file |-> file, line |-> number, text |-> text])]

\* The loop of search_reader over the bytes of one read.
FeedByte(f, byte, needle) ==
    IF byte = "N"
    THEN [f EXCEPT !.results = finish_line(f.results, f.path, f.number, f.line),
                   !.line = NewLine,
                   !.number = @ + 1]
    ELSE [f EXCEPT !.line = feed(f.line, byte, needle)]

FeedBytes(f, bytes, needle) ==
    FoldLeft(LAMBDA acc, byte : FeedByte(acc, byte, needle), f, bytes)

-----------------------------------------------------------------------------
\* The walk.  tree maps a directory to the sequence of its entries in the order
\* of their names; an entry is [kind, of], with the content of a file or the
\* name of a directory in of; a symbolic link is neither.

NoSearch == [state |-> "idle"]

\* One directory alone may be too large, which is seen before the budget.
TooManyEntries(results, n) ==
    /\ n > MAX_SEARCH_DIRECTORY_ENTRIES
    /\ results.entries + MAX_SEARCH_DIRECTORY_ENTRIES <= MAX_SEARCH_ENTRIES

Opened(s, dir, results) ==
    LET n == Len(s.tree[dir])
        counted == record_entries(results, n)
    IN  IF TooManyEntries(results, n) THEN [s EXCEPT !.state = "failed"]
        ELSE [s EXCEPT !.results = counted,
                       !.state = IF counted.limit_reached THEN "built" ELSE "walk",
                       !.stack = Append(@, [dir |-> dir, next |-> 1])]

\* search_file: the budget of files, then a checkpoint.
OpenedFile(s, path, content) ==
    IF s.results.files = MAX_SEARCH_FILES
    THEN [s EXCEPT !.results = mark_limit_reached(@), !.state = "built"]
    ELSE [s EXCEPT !.state = "read", !.content = content, !.path = path,
                   !.pos = 0, !.line = NewLine, !.number = 1, !.pending = <<>>,
                   !.results.files = @ + 1,
                   !.checkpoint = [matches |-> Len(s.results.matches),
                                   serialized |-> s.results.serialized,
                                   truncated |-> s.results.truncated,
                                   limit_reached |-> s.results.limit_reached]]

\* execute: the path is a directory, tree["root"], or the one file of it.
StartSearch(tree, needle, overhead, is_dir) ==
    LET s == [state |-> "walk", tree |-> tree, needle |-> needle, overhead |-> overhead,
              stack |-> <<>>, results |-> NoResults, path |-> <<>>, content |-> <<>>,
              pos |-> 0, line |-> NewLine, number |-> 1, pending |-> <<>>,
              checkpoint |-> [matches |-> 0, serialized |-> 0, truncated |-> FALSE,
                              limit_reached |-> FALSE],
              output |-> <<>>, output_truncated |-> FALSE]
    IN  IF is_dir THEN Opened(s, "root", record_directory(NoResults))
        ELSE OpenedFile(s, <<"root", 1>>, tree["root"][1].of)

Top == Last(search.stack)
Entry == search.tree[Top.dir][Top.next]
Skipped(dir) == dir \in {".git", ".young-agent-recovery"}
Advanced == [search EXCEPT !.stack[Len(search.stack)].next = @ + 1]

PopDirectory ==
    /\ search.state = "walk"
    /\ Top.next > Len(search.tree[Top.dir])
    /\ search' = [search EXCEPT !.stack = Front(@),
                                !.state = IF Len(search.stack) = 1 THEN "built" ELSE "walk"]

NextEntry ==
    /\ search.state = "walk"
    /\ Top.next <= Len(search.tree[Top.dir])

SkipEntry ==
    /\ NextEntry
    /\ Entry.kind = "other" \/ (Entry.kind = "dir" /\ Skipped(Entry.of))
    /\ search' = Advanced

EnterDirectory ==
    /\ NextEntry
    /\ Entry.kind = "dir" /\ ~Skipped(Entry.of)
    /\ LET counted == record_directory(search.results) IN
         search' = IF Len(search.stack) = MAX_SEARCH_DEPTH \/ counted.limit_reached
                   THEN [search EXCEPT !.results = mark_limit_reached(@), !.state = "built"]
                   ELSE Opened(Advanced, Entry.of, counted)

OpenFile ==
    /\ NextEntry
    /\ Entry.kind = "file"
    /\ search' = OpenedFile(Advanced, <<Top.dir, Top.next>>, Entry.of)

AfterFile(s, results) ==
    [s EXCEPT !.results = results,
              !.state = IF results.limit_reached \/ s.stack = <<>> THEN "built" ELSE "walk"]

Remaining == MAX_SEARCH_BYTES - search.results.bytes
AtEnd == search.pos = Len(search.content)

\* finish_search_file, also when the last byte of the budget was the last byte.
FinishFile ==
    /\ search.state = "read" /\ AtEnd
    /\ search' = AfterFile(search,
         IF search.pending # <<>> THEN discard_binary_file(search.results, search.checkpoint)
         ELSE IF search.line.bytes_seen > 0
         THEN finish_line(search.results, search.path, search.number, search.line)
         ELSE search.results)

\* The byte budget is used up and the probe finds one more byte.
OutOfBytes ==
    /\ search.state = "read" /\ ~AtEnd /\ Remaining = 0
    /\ search' = AfterFile(search, discard_incomplete_file(search.results, search.checkpoint))

\* One read, of any number of bytes within the buffer and the budget.
ReadChunk(n) ==
    /\ search.state = "read" /\ ~AtEnd /\ Remaining > 0
    /\ n \in 1 .. Min({Remaining, Len(search.content) - search.pos})
    /\ LET bytes == SubSeq(search.content, search.pos + 1, search.pos + n)
           counted == [search EXCEPT !.pos = @ + n, !.results.bytes = @ + n]
       IN  search' =
             IF ~Utf8Accepts(search.pending, bytes)
             THEN AfterFile(counted, discard_binary_file(counted.results, search.checkpoint))
             ELSE FeedBytes([counted EXCEPT !.pending = Utf8Pending(@, bytes)],
                            bytes, search.needle)

-----------------------------------------------------------------------------
\* bounded_search_output.

\* What n matches take in the output, with the metadata of the call.
OutputBytes(s, n) ==
    s.overhead + FoldLeft(LAMBDA acc, m : acc + Cost(m.text), 0, SubSeq(s.results.matches, 1, n))
search_output_fits(s, n) == OutputBytes(s, n) <= MAX_OUTPUT_BYTES

\* The binary search for the largest prefix that fits; 0 is known to fit.
largest_fitting_prefix(s, total) ==
    LET range == {r \in (0 .. total) \X (0 .. total) : r[1] <= r[2]}
        bisect[r \in range] ==
          LET low == r[1]
              high == r[2]
              middle == low + (high - low + 1) \div 2
          IN  IF low = high THEN low
              ELSE IF search_output_fits(s, middle) THEN bisect[<<middle, high>>]
              ELSE bisect[<<low, middle - 1>>]
    IN  bisect[<<0, total>>]

BuildOutput ==
    /\ search.state = "built"
    /\ LET total == Len(search.results.matches)
           fitting == largest_fitting_prefix(search, total)
       IN  search' =
             IF search_output_fits(search, total)
             THEN [search EXCEPT !.state = "done", !.output = search.results.matches,
                                 !.output_truncated = search.results.truncated]
             ELSE IF ~search_output_fits(search, 0)
             THEN [search EXCEPT !.state = "failed"]
             ELSE [search EXCEPT !.state = "done", !.output_truncated = TRUE,
                                 !.output = SubSeq(search.results.matches, 1, fitting)]

\* The cancellation flag is read before every entry and every read, and every
\* system call may fail: either ends the search without a result.
AbortSearch ==
    /\ search.state \in {"walk", "read"}
    /\ search' = [search EXCEPT !.state = "failed"]

SearchStep ==
    \/ PopDirectory \/ SkipEntry \/ EnterDirectory \/ OpenFile
    \/ FinishFile \/ OutOfBytes
    \/ \E n \in 1 .. MAX_SEARCH_BYTES : ReadChunk(n)
    \/ BuildOutput
    \/ AbortSearch

-----------------------------------------------------------------------------
\* What a search is for: every line that contains the query, in every file of
\* the tree that is text, in the order of the walk.

HasSubstring(text, needle) ==
    \E i \in 0 .. (Len(text) - Len(needle)) : SubSeq(text, i + 1, i + Len(needle)) = needle

\* The lines of a content, without their newlines.
SplitLines(content) ==
    LET ends == {0} \cup {i \in DOMAIN content : content[i] = "N"}
        starts == {e \in ends : e < Len(content)}
        End(e) == Min({i \in DOMAIN content : i > e /\ content[i] = "N"} \cup {Len(content) + 1})
    IN  [k \in 1 .. Cardinality(starts) |->
           LET e == CHOOSE e \in starts : Cardinality({x \in starts : x < e}) = k - 1
           IN  SubSeq(content, e + 1, End(e) - 1)]

MatchesOf(path, content, needle) ==
    LET lines == SplitLines(content)
        all == [k \in DOMAIN lines |-> [file |-> path, line |-> k, text |-> lines[k]]]
    IN  IF ValidUtf8(content) THEN SelectSeq(all, LAMBDA m : HasSubstring(m.text, needle))
        ELSE <<>>

\* The files below dir, in the order of the walk, at most depth levels down.
FilesBelow(tree, dir, depth) ==
    LET below[d \in DOMAIN tree, n \in 0 .. depth] ==
          FlattenSeq([i \in DOMAIN tree[d] |->
            LET item == tree[d][i] IN
            IF item.kind = "file" THEN <<[path |-> <<d, i>>, content |-> item.of]>>
            ELSE IF item.kind = "dir" /\ ~Skipped(item.of) /\ n > 0
                 THEN below[item.of, n - 1] ELSE <<>>])
    IN  below[dir, depth]

Expected(s) ==
    LET found == FilesBelow(s.tree, "root", Cardinality(DOMAIN s.tree))
    IN  FlattenSeq([i \in DOMAIN found |-> MatchesOf(found[i].path, found[i].content, s.needle)])

\* The output of a search holds the matching lines of the text files, in the
\* order of the walk, from the first one on and none twice, however the reads
\* split the bytes; each text is the start of its line; and unless the output
\* says that it is truncated, it is all of them, in full.
SearchIsExact ==
    search.state = "done" =>
        LET expected == Expected(search)
            output == search.output
        IN  /\ Len(output) <= Len(expected)
            /\ \A k \in DOMAIN output :
                 /\ output[k].file = expected[k].file
                 /\ output[k].line = expected[k].line
                 /\ IsPrefix(output[k].text, expected[k].text)
            /\ ~search.output_truncated =>
                 /\ Len(output) = Len(expected)
                 /\ \A k \in DOMAIN output : output[k].text = StripCr(expected[k].text)
=============================================================================
