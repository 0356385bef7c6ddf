----------------------------- MODULE CommandPolicy -----------------------------
(***************************************************************************)
(* CommandApprovalPolicy (capability-coding/src/command_policy.rs): what   *)
(* run_command does with a command line before it runs: it is allowed,     *)
(* needs approval ("ask") or is rejected.                                  *)
(*                                                                         *)
(* A command line is a sequence of symbols: the characters that the shell  *)
(* reads specially, and fragments of words.  A word of one fragment is     *)
(* looked up in the tables below; a word of several fragments is a name    *)
(* the tables do not have.  The reasons of the decisions are left out.     *)
(***************************************************************************)
EXTENDS Naturals, Sequences, SequencesExt, FiniteSetsExt

CONSTANTS
    lexicon,           \* word -> what its characters say of it
    entry,             \* absolute path -> [kind, link]: "dir", "file", "link" or "denied",
                       \* and the canonical path a link leads to, or <<>>
    root,              \* the root of the workspace, an absolute path
    MAX_SIMPLE_COMMANDS, MAX_POLICY_WORDS,
    MAX_PATH_PROBE_CANDIDATES, MAX_WORKSPACE_PATH_INSPECTIONS,
    MAX_TRANSPARENT_WRAPPER_DEPTH

\* A word of the lexicon is plain, a short cluster of options, a long option or
\* an assignment.  Its options are those that the code's own check of each one
\* finds in it (some look for a letter, some for a prefix, some for the word).
\* It has a first "=" or none; as an option it has a name (its first letter or
\* what precedes the "=") with the value that follows, and the value that
\* follows the first letter of an option that names paths.  It is a list of the
\* words between its colons, it has a base name and it is a path.
kind(word) == lexicon[word].kind
options(word) == lexicon[word].options
equals(word) == lexicon[word].equals
option_name(word) == lexicon[word].name
value(word) == lexicon[word].value
attached(word, option) == lexicon[word].attached[option]
list(word) == lexicon[word].list
program_basename(word) == lexicon[word].base
path(word) == lexicon[word].path

PathOptions == {"--file", "--exclude-from", "--magic-file"}

Dash(word) == kind(word) \in {"short", "long"}
is_env_assignment(word) == kind(word) = "assignment" \/ (Dash(word) /\ equals(word))
Denotes(words, some) == \E i \in 2 .. Len(words) : options(words[i]) \cap some # {}
At(s, i) == IF i \in DOMAIN s THEN <<s[i]>> ELSE <<>>
Second(words) == IF Len(words) > 1 THEN words[2] ELSE ""

\* What the tables say is of the right kind; "" and "." are the directory itself
\* and "--" has no value.
ASSUME LexiconAssumption ==
    /\ {"", "other", "\\", "NL"} \subseteq DOMAIN lexicon /\ DOMAIN lexicon \subseteq STRING
    /\ \A word \in DOMAIN lexicon :
          /\ value(word) \in DOMAIN lexicon /\ list(word) \in Seq(DOMAIN lexicon)
          /\ \A option \in PathOptions : attached(word, option) \in DOMAIN lexicon
          /\ path(word).comps \in Seq(STRING)
          /\ path(word).abs \in BOOLEAN /\ path(word).home \in BOOLEAN
    /\ \A word \in {"", "."} \cap DOMAIN lexicon :
          path(word).comps = <<>> /\ ~path(word).abs /\ ~path(word).home
    /\ "--" \in DOMAIN lexicon => Dash("--") /\ value("--") = ""

ASSUME PolicyLimitsAssumption ==
    /\ MAX_SIMPLE_COMMANDS \in Nat /\ MAX_POLICY_WORDS \in Nat
    /\ MAX_PATH_PROBE_CANDIDATES \in Nat /\ MAX_WORKSPACE_PATH_INSPECTIONS \in Nat
    /\ MAX_TRANSPARENT_WRAPPER_DEPTH \in Nat

-----------------------------------------------------------------------------
\* ParsedShellCommand::parse, one symbol at a time.

Start ==
    [commands |-> <<>>, words |-> <<>>, word |-> <<>>, word_started |-> FALSE,
     word_count |-> 0, quote |-> "none", flags |-> {}, error |-> "none",
     requires_following_command |-> FALSE, skip |-> FALSE, comment |-> FALSE]

Error(p, error) == [p EXCEPT !.error = error]

WordOf(fragments) ==
    CASE fragments = <<>> -> ""
      [] Len(fragments) = 1 -> fragments[1]
      [] OTHER -> "other"

push_word(p) ==
    IF ~p.word_started THEN p
    ELSE IF p.word_count >= MAX_POLICY_WORDS THEN Error(p, "too_complex")
    ELSE [p EXCEPT !.words = Append(@, WordOf(p.word)), !.word = <<>>,
                   !.word_started = FALSE, !.word_count = @ + 1]

push_command(p, following) ==
    IF p.error # "none" THEN p
    ELSE IF p.words = <<>> THEN Error(p, "malformed")
    ELSE IF Len(p.commands) >= MAX_SIMPLE_COMMANDS THEN Error(p, "too_complex")
    ELSE [p EXCEPT !.commands = Append(@, p.words), !.words = <<>>,
                   !.requires_following_command = following]

Push(p, symbols) == [p EXCEPT !.word = @ \o symbols, !.word_started = TRUE]
Flag(p, flag) == [p EXCEPT !.flags = @ \cup {flag}]

\* A newline, also the one that ends a comment, and the end of the text.
EndCommand(p) == IF p.error = "none" /\ p.words # <<>> THEN push_command(p, FALSE) ELSE p
LineEnd(p) == EndCommand(push_word([p EXCEPT !.comment = FALSE]))

\* A backslash; next is <<>> at the end of the command.
Backslash(p, next) ==
    CASE next = <<>> -> Flag(Push(p, <<"\\">>), "unclassified")
      [] next = <<"NL">> -> [p EXCEPT !.skip = TRUE]
      [] OTHER ->
           LET keeps == p.quote = "double" /\ next[1] \notin {"$", "\"", "\\"}
           IN  [Push(p, IF keeps THEN <<"\\">> \o next ELSE next) EXCEPT !.skip = TRUE]

Unquoted(p, symbol, next) ==
    CASE symbol = "'" -> [p EXCEPT !.quote = "single", !.word_started = TRUE]
      [] symbol = "\"" -> [p EXCEPT !.quote = "double", !.word_started = TRUE]
      [] symbol = "\\" -> Backslash(p, next)
      [] symbol = "$" -> Flag(Push(p, <<symbol>>), "dynamic_expansion")
      [] symbol = "*" -> Flag(Push(p, <<symbol>>), "pathname_expansion")
      [] symbol = "#" /\ ~p.word_started -> [Flag(p, "comment") EXCEPT !.comment = TRUE]
      [] symbol = ">" -> Flag(push_word(p), "redirection")
      [] symbol = "&" ->
           IF next = <<"&">> THEN [push_command(push_word(p), TRUE) EXCEPT !.skip = TRUE]
           ELSE Flag(push_command(push_word(p), FALSE), "background")
      [] symbol = "|" -> [push_command(push_word(p), TRUE) EXCEPT !.skip = (next = <<"|">>)]
      [] symbol = ";" -> push_command(push_word(p), FALSE)
      [] symbol = "NL" -> LineEnd(p)
      [] symbol = " " -> push_word(p)
      [] OTHER -> Push(p, <<symbol>>)

DoubleQuoted(p, symbol, next) ==
    CASE symbol = "\"" -> [p EXCEPT !.quote = "none"]
      [] symbol = "\\" -> Backslash(p, next)
      [] symbol = "$" -> Flag(Push(p, <<symbol>>), "dynamic_expansion")
      [] OTHER -> Push(p, <<symbol>>)

SingleQuoted(p, symbol) ==
    IF symbol = "'" THEN [p EXCEPT !.quote = "none"] ELSE Push(p, <<symbol>>)

ParseSymbol(p, symbol, next) ==
    CASE p.error # "none" -> p
      [] p.error = "none" /\ p.skip -> [p EXCEPT !.skip = FALSE]
      [] p.error = "none" /\ ~p.skip /\ p.comment -> IF symbol = "NL" THEN LineEnd(p) ELSE p
      [] OTHER ->
           CASE p.quote = "none" -> Unquoted(p, symbol, next)
             [] p.quote = "double" -> DoubleQuoted(p, symbol, next)
             [] p.quote = "single" -> SingleQuoted(p, symbol)

Symbols(command) ==
    FoldLeft(LAMBDA p, i : ParseSymbol(p, command[i], At(command, i + 1)),
             Start, [i \in DOMAIN command |-> i])

RequireComplete(p) ==
    IF p.error = "none" /\ (p.commands = <<>> \/ p.requires_following_command)
    THEN Error(p, "malformed") ELSE p

Finish(p) ==
    IF p.error # "none" THEN p
    ELSE IF p.quote # "none" THEN Error(p, "malformed")
    ELSE RequireComplete(EndCommand(push_word(p)))

parse(command) == Finish(Symbols(command))

-----------------------------------------------------------------------------
\* PathProbeBudget: candidates and inspections are counted over the whole
\* command line, and what a candidate turned out to be is kept.

NewProbes ==
    [candidates |-> MAX_PATH_PROBE_CANDIDATES, inspections |-> MAX_WORKSPACE_PATH_INSPECTIONS,
     cached |-> {}, found |-> "within"]

EntryAt(p) == IF p \in DOMAIN entry THEN entry[p].kind ELSE "missing"
IsLink(p) == EntryAt(p) = "link"
UnderRoot(p) == IsPrefix(root, p)

\* The root is canonical: a directory that is reached without a link.
ASSUME RootAssumption ==
    /\ root \in Seq(STRING) /\ root # <<>> /\ root[1] = "/"
    /\ \A n \in 2 .. Len(root) : EntryAt(SubSeq(root, 1, n)) = "dir"
    /\ \A p \in DOMAIN entry : entry[p].link \in Seq(STRING)

\* Mutant: a link is followed wherever it leads.
MutantWalk(w, component) ==
    LET at == Append(w.current, component)
        cost == IF IsLink(at) THEN 2 ELSE 1
        paid == [w EXCEPT !.inspections = IF @ < cost THEN 0 ELSE @ - cost]
    IN  IF w.found # "walking" THEN w
        ELSE IF w.inspections < cost THEN [paid EXCEPT !.found = "budget"]
        ELSE IF EntryAt(at) = "missing" THEN [paid EXCEPT !.found = "within"]
        ELSE IF EntryAt(at) = "denied" THEN [paid EXCEPT !.found = "escapes"]
        ELSE [paid EXCEPT !.current = IF IsLink(at) THEN entry[at].link ELSE at]

\* One component of path_escapes_workspace_with, with inspect_workspace_path.
Walk(w, component) ==
    LET at == Append(w.current, component)
        cost == IF IsLink(at) THEN 2 ELSE 1
        paid == [w EXCEPT !.inspections = IF @ < cost THEN 0 ELSE @ - cost]
    IN  IF w.found # "walking" THEN w
        ELSE IF w.inspections < cost THEN [paid EXCEPT !.found = "budget"]
        ELSE IF EntryAt(at) = "missing" THEN [paid EXCEPT !.found = "within"]
        ELSE IF EntryAt(at) = "denied" THEN [paid EXCEPT !.found = "escapes"]
        ELSE IF ~IsLink(at) THEN [paid EXCEPT !.current = at]
        ELSE IF ~UnderRoot(entry[at].link) THEN [paid EXCEPT !.found = "escapes"]
        ELSE [paid EXCEPT !.current = entry[at].link]

escapes_workspace(word, inspections) ==
    LET p == path(word)
        refused == \/ p.home
                   \/ \E i \in DOMAIN p.comps : p.comps[i] = ".."
                   \/ p.abs /\ ~UnderRoot(<<"/">> \o p.comps)
        relative == IF p.abs THEN SubSeq(p.comps, Len(root), Len(p.comps)) ELSE p.comps
    IN  IF refused THEN [current |-> root, inspections |-> inspections, found |-> "escapes"]
        ELSE LET w == FoldLeft(Walk, [current |-> root, inspections |-> inspections,
                                      found |-> "walking"], relative)
             IN  [w EXCEPT !.found = IF @ = "walking" THEN "within" ELSE @]

\* PathProbeBudget::classify; probes.found is the answer.
Inspected(probes, word, w) ==
    [probes EXCEPT !.candidates = @ - 1, !.inspections = w.inspections, !.found = w.found,
                   !.cached = IF w.found = "budget" THEN @
                              ELSE @ \cup {[word |-> word, found |-> w.found]}]

Probe(probes, word) ==
    LET known == {c \in probes.cached : c.word = word}
    IN  IF known # {} THEN [probes EXCEPT !.found = (CHOOSE c \in known : TRUE).found]
        ELSE IF probes.candidates = 0 THEN [probes EXCEPT !.found = "budget"]
        ELSE Inspected(probes, word, escapes_workspace(word, probes.inspections))

\* A list of candidates, up to the first that is not within the workspace.
ProbeAll(probes, words) ==
    FoldLeft(LAMBDA p, word : IF p.found = "within" THEN Probe(p, word) ELSE p,
             [probes EXCEPT !.found = "within"], words)

-----------------------------------------------------------------------------
\* The words of a simple command that name paths.

\* classify_path_bearing_options.
PathOption(words) ==
    CASE words[1] \in {"rg", "grep"} \/ IsPrefix(<<"git", "grep">>, words) -> "--file"
      [] IsPrefix(<<"git", "ls-files">>, words) -> "--exclude-from"
      [] words[1] = "file" -> "--magic-file"
      [] OTHER -> "none"

ShortOptions(option) ==
    CASE option = "--file" -> {"-f"}
      [] option = "--exclude-from" -> {"-X"}
      [] option = "--magic-file" -> {"-m", "-M"}

\* The value that word i gives the option: the next argument, what follows the
\* "=" of the long option, or what is attached to the letter in a word that has
\* no "=" at all.
OptionValue(words, i, option) ==
    LET word == words[i]
        matches == option \in options(word)
        after_letter == attached(word, option)
    IN  CASE word \in ShortOptions(option) \/ (matches /\ ~equals(word)) -> At(words, i + 1)
          [] word \notin ShortOptions(option) /\ equals(word) ->
               IF matches THEN <<value(word)>> ELSE <<>>
          [] OTHER ->
               IF kind(word) = "short" /\ after_letter # "" THEN <<after_letter>> ELSE <<>>

\* classify_option_paths, for one argument; the value of file -m is a list.
ValuePaths(words, i) ==
    LET option == PathOption(words)
        read == OptionValue(words, i, option)
    IN  IF i = 1 \/ option = "none" THEN <<>>
        ELSE IF option = "--magic-file" /\ read # <<>> THEN list(read[1])
        ELSE read

OptionPaths(words) == FlattenSeq([i \in DOMAIN words |-> ValuePaths(words, i)])

\* path_candidate: the value of a long option or the word, unless it is an option.
Candidate(word) == IF kind(word) = "long" /\ value(word) # "" THEN value(word) ELSE word
path_candidate(word) ==
    IF Dash(Candidate(word)) \/ Candidate(word) \in {"", "."} THEN <<>>
    ELSE <<Candidate(word)>>

\* classify_argument_paths: every word after "--" is a path.
ArgumentPaths(words) ==
    LET ends == {i \in 2 .. Len(words) : words[i] = "--"}
        end == IF ends = {} THEN Len(words) + 1 ELSE Min(ends)
    IN  FlattenSeq([i \in DOMAIN words |->
            IF i = 1 \/ i = end THEN <<>>
            ELSE IF i > end THEN <<words[i]>> ELSE path_candidate(words[i])])

-----------------------------------------------------------------------------
\* classify_simple_command.  It only tells what is allowed from what is asked
\* for, so the order of its checks does not show.

Mutators == {"touch", "mkdir", "cp", "mv", "chmod", "chown", "tee"}

known_filesystem_mutator(words) ==
    \/ program_basename(words[1]) \in Mutators
    \/ /\ program_basename(words[1]) = "sed"
       /\ \E i \in 2 .. Len(words) : option_name(words[i]) = "-i" \/ "--in-place" \in options(words[i])

find_may_mutate_or_execute(words) ==
    Denotes(words, {"-delete", "-exec", "-execdir", "-ok", "-okdir",
                    "-fprint", "-fprint0", "-fprintf", "-fls"})

\* Options that run a helper, read a list of paths, follow links, write, or
\* watch a file.
file_may_execute_uncompress_helper(words) ==
    words[1] = "file" /\ Denotes(words, {"z", "Z", "--uncompress", "--uncompress-noreport"})
git_may_use_signature_verification(words) ==
    words[1] = "git" /\ (Second(words) \in {"log", "show"} \/ Denotes(words, {"--show-signature", "%G"}))
RunsGitHelper(words) ==
    /\ words[1] = "git"
    /\ \/ Denotes(words, {"--output", "O", "--open-files-in-pager", "--ext-diff", "--textconv"})
       \/ Second(words) \in {"status", "diff", "ls-files", "grep"}
FollowsOrLoadsPaths(words) ==
    \/ words[1] = "rg" /\ Denotes(words, {"--follow", "L"})
    \/ words[1] = "grep" /\ Denotes(words, {"--dereference-recursive", "R"})
    \/ words[1] = "find" /\ Denotes(words, {"-L", "-follow", "-files0-from"})
    \/ words[1] = "file" /\ Denotes(words, {"f", "--files-from"})
    \/ words[1] = "wc" /\ Denotes(words, {"--files0-from"})
    \/ words[1] = "ls" /\ Denotes(words, {"L", "--dereference"})
RunsSearchHelper(words) ==
    words[1] = "rg" /\ (Denotes(words, {"--pre", "--search-zip", "z"}) \/ Second(words) # "--no-config")
WatchesFile(words) ==
    words[1] = "tail" /\ Denotes(words, {"f", "F", "--follow", "--retry", "--pid"})
is_file_compile_option(words) == words[1] = "file" /\ Denotes(words, {"C", "--compile"})
printf_format_may_amplify_output(words) ==
    LET format == IF Second(words) = "--" THEN 3 ELSE 2
        Of(some) == format <= Len(words) /\ some \in options(words[format])
    IN  words[1] = "printf" /\ (Of("width") \/ (Of("long_format") /\ Len(words) > format + 1))
\* printf -v names a shell variable.
ChangesVariable(words) == words[1] = "printf" /\ Len(words) > 1 /\ option_name(words[2]) = "-v"
ChangesDependencies(words) ==
    \/ words[1] = "cargo" /\ Second(words) \in {"add", "install", "update"}
    \/ words[1] \in {"npm", "pnpm", "yarn", "pip", "pip3"} /\ Second(words) \in {"install", "add", "update"}
Destroys(words) ==
    words[1] = "rm" \/ (words[1] = "git" /\ Second(words) \in {"reset", "clean"})
CargoRunsMore(words) ==
    words[1] = "cargo" /\ (Denotes(words, {"--config"}) \/ (Second(words) = "clippy" /\ Denotes(words, {"--fix"})))

\* is_safe_sed_read: the scripts only address, print and quit.
SedWord(a, word) ==
    LET script(w) == [a EXCEPT !.scripts = @ \cup {w}, !.wants = FALSE] IN
    CASE a.wants \/ (a.ended /\ a.scripts = {}) -> script(word)
      [] ~a.wants /\ a.ended /\ a.scripts # {} -> a
      [] OTHER ->
           IF word = "--" THEN [a EXCEPT !.ended = TRUE]
           ELSE IF word \in {"-e", "--expression"} THEN [a EXCEPT !.wants = TRUE]
           ELSE IF option_name(word) \in {"-e", "--expression"} THEN script(value(word))
           ELSE IF Dash(word)
           THEN [a EXCEPT !.ok = @ /\ word \in {"-n", "--quiet", "--silent"}]
           ELSE IF a.scripts = {} THEN script(word) ELSE a

is_safe_sed_read(words) ==
    LET a == FoldLeft(SedWord, [scripts |-> {}, wants |-> FALSE, ended |-> FALSE, ok |-> TRUE],
                      Tail(words))
    IN  /\ a.ok /\ ~a.wants
        /\ a.scripts # {}
        /\ \A script \in a.scripts : "sed_read" \in options(script)

LowRisk == {"rg", "ls", "cat", "grep", "head", "tail", "wc", "stat", "file", "find"}

is_low_risk_external_command(words) ==
    \/ words[1] = "git" /\ (Second(words) = "rev-parse" \/ words = <<"git", "branch", "--show-current">>)
    \/ words[1] = "cargo" /\ Second(words) \in {"check", "test", "clippy", "metadata"}
    \/ words[1] = "cargo" /\ Second(words) = "fmt" /\ Denotes(words, {"--check"})
    \/ words[1] = "sed" /\ is_safe_sed_read(words)
    \/ words[1] \in LowRisk

Builtin(words) ==
    \/ words = <<"pwd">>
    \/ Len(words) = 3 /\ IsPrefix(<<"command", "-v">>, words)
    \/ words[1] \in {"echo", "printf", "true", "false"}

\* The probes after the command, with found = "ask" when it is not allowed.
classify_simple_command(words, probes) ==
    LET probed == ProbeAll(probes, OptionPaths(words) \o ArgumentPaths(words))
        asks == \/ file_may_execute_uncompress_helper(words)
                \/ git_may_use_signature_verification(words)
                \/ RunsGitHelper(words)
                \/ probed.found # "within"
                \/ ChangesDependencies(words) \/ Destroys(words)
                \/ known_filesystem_mutator(words)
                \/ CargoRunsMore(words)
                \/ is_file_compile_option(words)
                \/ RunsSearchHelper(words) \/ FollowsOrLoadsPaths(words) \/ WatchesFile(words)
                \/ ChangesVariable(words) \/ printf_format_may_amplify_output(words)
                \/ words[1] = "find" /\ find_may_mutate_or_execute(words)
                \/ ~(Builtin(words) \/ is_low_risk_external_command(words))
    IN  [probed EXCEPT !.found = IF asks THEN "ask" ELSE "within"]

-----------------------------------------------------------------------------
\* classify_hard_rejection, behind the wrappers that only start a program.

\* What a word does in the scan for the wrapped program.
command_word(word) ==
    CASE word = "--" -> "end"
      [] word = "-p" -> "flag"
      [] word \in {"-v", "-V"} -> "stop"
      [] OTHER -> IF Dash(word) THEN "unsupported" ELSE "program"

exec_word(word) ==
    CASE word = "--" -> "end"
      [] word = "-a" -> "flag_with_value"
      [] OTHER -> IF ~Dash(word) THEN "program"
                  ELSE IF kind(word) = "short" /\ options(word) \subseteq {"c", "l"} THEN "flag"
                  ELSE "unsupported"

env_word(word) ==
    CASE word = "--" -> "end"
      [] word \in {"-u", "--unset", "-C", "--chdir", "-P", "-a", "--argv0"} -> "flag_with_value"
      [] word \in {"--help", "--version"} -> "stop"
      [] OTHER -> IF kind(word) = "assignment" THEN "flag"
                  ELSE IF ~Dash(word) THEN "program"
                  ELSE IF \/ option_name(word) \in {"-u", "-C", "-P", "-a", "--unset", "--chdir", "--argv0"}
                          \/ options(word) # {} /\ options(word) \subseteq {"0", "i", "v"}
                          \/ options(word) \cap {"--block-signal", "--default-signal", "--ignore-signal",
                                                 "--list-signal-handling", "--debug"} # {}
                  THEN "flag" ELSE "unsupported"

WrapperWord(wrapper, word) ==
    CASE wrapper = "command" -> command_word(word)
      [] wrapper = "exec" -> exec_word(word)
      [] wrapper = "env" -> env_word(word)

\* One word of the scan for the wrapped program.
ScanWord(scan, i, words) ==
    LET wrapper == program_basename(words[1])
        Found(index, ok) == [at |-> "done", ok |-> ok, index |-> index]
        After(at) == [at |-> at, ok |-> TRUE, index |-> 0]
        w == WrapperWord(wrapper, words[i])
    IN  CASE scan.at = "done" -> scan
          [] scan.at = "value" -> After("options")
          [] scan.at = "ended" ->
               IF wrapper = "env" /\ is_env_assignment(words[i]) THEN scan ELSE Found(i, TRUE)
          [] scan.at = "options" ->
               CASE w = "end" -> After("ended")
                 [] w = "flag" -> scan
                 [] w = "flag_with_value" -> After("value")
                 [] w = "stop" -> Found(0, TRUE)
                 [] w = "unsupported" -> Found(0, FALSE)
                 [] w = "program" -> Found(i, TRUE)

\* The index of the wrapped program, 0 when there is none, or ok = FALSE for
\* syntax that is not supported.
WrappedProgram(words) ==
    FoldLeft(LAMBDA scan, i : ScanWord(scan, i, words),
             [at |-> "options", ok |-> TRUE, index |-> 0],
             [i \in 1 .. (Len(words) - 1) |-> i + 1])

\* One wrapper is taken off; <<>> when it is too deep or not understood.
Unwrap(words, found, depth) ==
    IF ~found.ok THEN [done |-> TRUE, words |-> <<>>]
    ELSE IF found.index = 0 THEN [done |-> TRUE, words |-> words]
    ELSE IF depth = MAX_TRANSPARENT_WRAPPER_DEPTH THEN [done |-> TRUE, words |-> <<>>]
    ELSE [done |-> FALSE, words |-> SubSeq(words, found.index, Len(words))]

unwrap_transparent_command_wrappers(command) ==
    FoldLeft(LAMBDA u, depth :
               IF u.done \/ u.words = <<>>
                  \/ program_basename(u.words[1]) \notin {"command", "exec", "env"}
               THEN [u EXCEPT !.done = TRUE]
               ELSE Unwrap(u.words, WrappedProgram(u.words), depth),
             [done |-> FALSE, words |-> command],
             [d \in 1 .. (MAX_TRANSPARENT_WRAPPER_DEPTH + 1) |-> d - 1]).words

\* An absolute path that ends at the root, or a pattern right below it.
targets_filesystem_root(word) ==
    LET p == path(word)
        end == FoldLeft(LAMBDA d, c : IF d.pattern THEN d
                                      ELSE IF c = ".." THEN [d EXCEPT !.depth = IF @ = 0 THEN 0 ELSE @ - 1]
                                      ELSE [depth |-> d.depth + 1, pattern |-> d.depth = 0 /\ c = "*"],
                        [depth |-> 0, pattern |-> FALSE], p.comps)
    IN  p.abs /\ (end.pattern \/ end.depth = 0)

command_mutates_filesystem_root(words) ==
    /\ \E i \in 2 .. Len(words) : targets_filesystem_root(words[i])
    /\ \/ program_basename(words[1]) = "rm"
       \/ known_filesystem_mutator(words)
       \/ program_basename(words[1]) = "find" /\ find_may_mutate_or_execute(words)

\* The probes after the command, with found "reject", "ask" (the budget of the
\* probes ran out at a cd) or "within".
HardRejection(invocation, probes) ==
    LET probed == IF invocation[1] = "cd" THEN ProbeAll(probes, At(invocation, 2))
                  ELSE [probes EXCEPT !.found = "within"]
    IN  IF \/ invocation = <<>>
           \/ program_basename(invocation[1]) \in {"sudo", "doas", "su"}
           \/ command_mutates_filesystem_root(invocation)
        THEN [probes EXCEPT !.found = "reject"]
        ELSE [probed EXCEPT !.found = CASE @ = "escapes" -> "reject"
                                        [] @ = "budget" -> "ask"
                                        [] OTHER -> @]

classify_hard_rejection(words, probes) ==
    HardRejection(unwrap_transparent_command_wrappers(words), probes)

\* A pass over the commands that stops at the first decision.
Pass(Op(_, _), probes, commands) ==
    FoldLeft(LAMBDA p, words : IF p.found = "within" THEN Op(words, p) ELSE p, probes, commands)

HardPass(parsed) == Pass(classify_hard_rejection, NewProbes, parsed.commands)

Decide(parsed, hard) ==
    IF parsed.error # "none" THEN "reject"
    ELSE IF hard.found # "within" THEN hard.found
    ELSE IF parsed.flags # {} THEN "ask"
    ELSE IF Pass(classify_simple_command, hard, parsed.commands).found = "within" THEN "allow"
    ELSE "ask"

\* classify_validated; the text is not blank.
DecideParsed(parsed) == Decide(parsed, HardPass(parsed))
classify_validated(command) == DecideParsed(parse(command))

Blank(command) == \A i \in DOMAIN command : command[i] \in {" ", "NL"}
classify(command) == IF Blank(command) THEN "reject" ELSE classify_validated(command)

-----------------------------------------------------------------------------
\* Properties of the decision, for command lines that the runs choose.

\* A line that a newline really ends: no quote, escape or list is open.
Closed(parsed) == parsed.error = "none" /\ "unclassified" \notin parsed.flags

\* The limits of the parser and of the probes, which count the whole text.
WithinLimits(parsed) == parsed.error # "too_complex" /\ HardPass(parsed).found # "ask"

JudgedAlike(whole, first, second, within_limits) ==
    /\ whole = "allow" => first = "allow" /\ second = "allow"
    /\ within_limits => (whole = "reject") = (first = "reject" \/ second = "reject")

\* A line without a command: blank, a comment, a line continuation.
NothingToRun(command) ==
    LET end == EndCommand(push_word(Symbols(command)))
    IN  end.error = "none" /\ end.quote = "none" /\ end.commands = <<>>

\* Two lines are judged as each of them is: together they are allowed only if
\* each one is, and rejected exactly if one of them is.  Nothing in one line can
\* hide a command of the next: no quote, comment, operator, cached path.
PolicyIsCompositional(first, second) ==
    Closed(parse(first)) /\ ~NothingToRun(second) =>
        JudgedAlike(classify(first \o <<"NL">> \o second), classify(first), classify(second),
                    WithinLimits(parse(first \o <<"NL">> \o second)))

\* Where the kernel gets to from the directory cwd: through links and "..", or
\* <<>> when nothing is there.
Resolve(cwd, p) ==
    FoldLeft(LAMBDA at, c :
               LET next == Append(at, c) IN
               IF at = <<>> THEN <<>>
               ELSE IF c = ".." THEN IF Len(at) = 1 THEN at ELSE Front(at)
               ELSE IF EntryAt(next) \in {"missing", "denied"} THEN <<>>
               ELSE IF IsLink(next) THEN entry[next].link ELSE next,
             IF p.abs THEN <<"/">> ELSE cwd, p.comps)

\* The paths that word k of a command names: the word itself when it is an
\* operand, the value of a long option unless it is an option itself, and the
\* value of an option that is known to name paths, as the code reads it.  What
\* follows the letter of such an option in a word with a "=" is not read
\* (OptionValue), so it is not among them.
Named(words, k) ==
    LET word == words[k]
        operand == ~Dash(word) \/ \E j \in 2 .. (k - 1) : words[j] = "--"
        long == kind(word) = "long" /\ value(word) # "" /\ ~Dash(value(word))
    IN  (IF operand THEN {word} ELSE IF long THEN {value(word)} ELSE {})
          \cup ToSet(ValuePaths(words, k))

\* Every path that the commands name, from the directory that a cd before it may
\* have changed to, ends inside the workspace or nowhere.
StayInside(commands) ==
    LET Moved(cwd, words) ==
          IF words[1] = "cd" /\ Len(words) > 1 THEN Resolve(cwd, path(words[2])) ELSE cwd
        Cwd(i) == FoldLeft(Moved, root, SubSeq(commands, 1, i - 1))
        Inside(at, word) == ~path(word).home /\ (at = <<>> \/ UnderRoot(at))
    IN  \A i \in DOMAIN commands : \A k \in 2 .. Len(commands[i]) :
          \A target \in Named(commands[i], k) : Inside(Resolve(Cwd(i), path(target)), target)

\* A command line that runs without approval names no path outside the workspace.
AllowedStaysInside(command) ==
    classify(command) = "allow" => StayInside(parse(command).commands)
=============================================================================
