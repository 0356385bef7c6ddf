----------------------------- MODULE MCCodingTools -----------------------------
(***************************************************************************)
(* CodingTools for TLC.  Each behaviour has one workload: either two calls *)
(* of another tool over two runtimes, or one call of a coding tool, with   *)
(* any small file, patch or command line.                                  *)
(***************************************************************************)
EXTENDS CodingTools

\* Workloads of the Tool Runtime itself.  "twin" is call-dependent or not, as it
\* is registered; a reason may be longer than the limit, or blank up to it.
Reason(n, c) == [i \in 1 .. n |-> c]
MCDefinitions ==
    {[policy |-> "always_allow", reason |-> <<>>],
     [policy |-> "call_dependent", reason |-> <<>>],
     [policy |-> "requires_approval", reason |-> <<"x", "q", "x", "q", "x", "x", "x">>],
     [policy |-> "always_reject", reason |-> <<" ", "n">>],
     [policy |-> "always_reject", reason |-> Reason(6, " ") \o <<"x">>]}
MCAnswers ==
    {[kind |-> "allow", reason |-> <<>>], [kind |-> "reject", reason |-> <<"c", "x", "x">>]} \cup
    [kind : {"requires_approval"},
     reason : {<<" ">>, <<"x", "c">>, <<"x", "q", "x", "q">>, Reason(7, "x"), Reason(9, " ") \o <<"x">>}]

Call(id, name, arguments) == [id |-> id, tool_name |-> name, arguments |-> arguments]
DispatchCalls == {Call(id, "twin", <<>>) : id \in CallIds}

\* Files: every content of up to three bytes, longer ones of fewer symbols.
Contents ==
    UNION {[1 .. n -> {"a", "b", "N", "R", "L", "C"}] : n \in 0 .. 3}
        \cup [1 .. 5 -> {"a", "b"}] \cup [1 .. 4 -> {"a", "N"}]
Queries == {<<"a">>, <<"a", "a", "b">>, <<"a", "b", "a">>, <<"L", "C">>}

File(c) == [kind |-> "file", of |-> c]
Dir(d) == [kind |-> "dir", of |-> d]
Tree(top, sub, subs, hidden) ==
    ("root" :> <<File(top), Dir("s"), hidden, File(sub)>>)
      @@ ("s" :> (IF subs = 1 THEN <<File(sub)>> ELSE <<File(sub), Dir("t")>>))
      @@ ("t" :> [i \in 1 .. subs |-> File(sub)])
      @@ (".git" :> <<File(top)>>)
Trees ==
    {Tree(top, sub, subs, hidden) :
       top \in {<<"a">>, <<"a", "N", "L">>, <<"a", "N", "a">>, <<"a", "a", "a", "a">>},
       sub \in {<<"a">>, <<"b", "L", "N">>, <<"a", "N", "a">>},
       subs \in 1 .. 6,
       hidden \in {Dir(".git"), [kind |-> "other", of |-> <<>>]}}

Search(tree, query, overhead, is_dir) ==
    Call("c1", "search_files",
         [tree |-> tree, query |-> query, overhead |-> overhead, is_dir |-> is_dir])
SearchCalls ==
    {Search("root" :> <<File(content)>>, query, 0, FALSE) : content \in Contents, query \in Queries}
      \cup {Search(tree, <<"a">>, overhead, TRUE) : tree \in Trees, overhead \in {0, 2, 9}}

\* Also contents over the limit of the read, with a character across it.
LongContents ==
    {Reason(8, "a") \o end : end \in {<<"a">>, <<"a", "N">>, <<"L", "C">>, <<"C", "a">>}}
      \cup {Reason(5, "a") \o <<"L", "C">>, <<"a", "N", "N", "L", "C">>}
ReadCalls ==
    {Call("c1", "read_file", [content |-> content]) : content \in Contents \cup LongContents}

\* Patches of a new file and of files of two and three lines; an added line may
\* be empty.
Newline == <<"N">>
MCPatchLines ==
    [kind : {" ", "-"}, content : {<<"a", "N">>, <<"b", "N">>, <<"b">>}]
      \cup [kind : {"+"}, content : {<<"a", "N">>, <<"N">>, <<"b">>}]
      \cup [kind : {"---"}, path : {"p", "", DevNull}, content : {<<"h", "N">>}]
      \cup [kind : {"+++"}, path : {"p", DevNull}, content : {<<"h", "N">>}]
      \cup [kind : {"@@"}, old_start : 0 .. 3, old_count : 0 .. 2, new_count : 0 .. 2,
            content : {Newline}]
      \cup [kind : {"no_newline", "metadata"}, content : {Newline}]
Patch(exists, original) ==
    Call("c1", "apply_patch", [exists |-> exists, original |-> original])
PatchCalls ==
    {Patch(FALSE, <<>>)} \cup
    {Patch(TRUE, original) : original \in {<<"a", "N", "b", "N">>, <<"a", "N", "a", "N", "b">>}}

\* Command lines: a first line of a start and two pieces, then a second line.
Special == {"'", "\"", "\\", "$", "*", "#", ">", "&", "|", ";", "NL", " "}
Names == {"cat", "rm", "sudo", "env", "command", "cd", "sed", "grep", "file", "d", "denied", "other"}
           \cup Special
Words == Names \cup
    {"", "in", "linked", "out", "up", "~", "/", "/w/in", "X=1", "--", "--file=out", "--fi",
     "-f", "-nfout", "-fX=1", "-m", "-kMin:out", "in:out", "in:linked", "1p", "-i", "-iu",
     "-ni", "-u"}
MCLexicon ==
    LET Path(abs, comps) == [home |-> FALSE, abs |-> abs, comps |-> comps]
        Plain(name, path_) ==
            [kind |-> "plain", options |-> {}, equals |-> FALSE, name |-> "", value |-> "",
             attached |-> [option \in PathOptions |-> ""], list |-> <<name>>,
             base |-> name, path |-> path_]
        Word(name) == Plain(name, Path(FALSE, <<name>>))
        \* A cluster of letters, with what follows the first of them.
        Short(word, letters, first, rest) ==
            [Word(word) EXCEPT !.kind = "short", !.options = letters, !.name = first, !.value = rest]
    IN  [word \in Words |->
          CASE word \in Names -> Word(word)
            [] word = "" -> Plain("", Path(FALSE, <<>>))
            [] word = "in" -> Plain("in", Path(FALSE, <<"d", "f">>))
            [] word = "linked" -> Plain("linked", Path(FALSE, <<"here", "f">>))
            [] word = "out" -> Plain("out", Path(FALSE, <<"there", "f">>))
            [] word = "up" -> Plain("up", Path(FALSE, <<"d", "..", "..", "o">>))
            [] word = "~" -> [Word("~") EXCEPT !.path.home = TRUE]
            [] word = "/" -> Plain("/", Path(TRUE, <<>>))
            [] word = "/w/in" -> Plain("in", Path(TRUE, <<"w", "d", "f">>))
            [] word = "X=1" -> [Word("X=1") EXCEPT !.kind = "assignment", !.equals = TRUE]
            [] word = "--" -> [Word("--") EXCEPT !.kind = "long", !.name = "--"]
            [] word = "--file=out" -> [Word("--file=out") EXCEPT
                     !.kind = "long", !.options = {"--file"}, !.equals = TRUE,
                     !.name = "--file", !.value = "out"]
            [] word = "--fi" -> [Word("--fi") EXCEPT
                     !.kind = "long", !.options = {"--file"}, !.name = "--fi"]
            [] word = "-f" -> Short("-f", {"f"}, "-f", "")
            [] word = "-nfout" -> [Short("-nfout", {"n", "f", "o", "u", "t"}, "-n", "other") EXCEPT
                     !.attached["--file"] = "out"]
            [] word = "-fX=1" -> [Short("-fX=1", {"f", "X", "=", "1"}, "-f", "X=1") EXCEPT
                     !.equals = TRUE, !.attached["--file"] = "X=1"]
            [] word = "-m" -> Short("-m", {"m"}, "-m", "")
            [] word = "-kMin:out" -> [Short("-kMin:out", {"k", "M", "i", "n", ":", "o", "u", "t"}, "-k", "other")
                     EXCEPT !.attached["--magic-file"] = "in:out"]
            [] word = "in:out" -> [Word("in:out") EXCEPT !.list = <<"in", "out">>]
            [] word = "in:linked" -> [Word("in:linked") EXCEPT !.list = <<"in", "linked">>]
            [] word = "1p" -> [Word("1p") EXCEPT !.options = {"sed_read"}]
            [] word = "-i" -> Short("-i", {"i"}, "-i", "")
            [] word = "-iu" -> Short("-iu", {"i", "u"}, "-i", "other")
            [] word = "-ni" -> Short("-ni", {"n", "i"}, "-n", "-i")
            [] word = "-u" -> Short("-u", {"u"}, "-u", "")]
Links == {<<"/", "w", "here">>, <<"/", "w", "there">>}
Files == {<<"/", "o", "f">>, <<"/", "w", "d", "f">>}
Directories == {<<"/">>, <<"/", "w">>, <<"/", "o">>, <<"/", "w", "d">>}
MCEntry ==
    [p \in Links \cup Files \cup Directories \cup {<<"/", "w", "denied">>} |->
        [kind |-> CASE p \in Links -> "link" [] p \in Files -> "file"
                    [] p \in Directories -> "dir" [] OTHER -> "denied",
         link |-> CASE p = <<"/", "w", "here">> -> <<"/", "w", "d">>
                    [] p = <<"/", "w", "there">> -> <<"/", "o">>
                    [] OTHER -> <<>>]]
MCRoot == <<"/", "w">>

Starts == {<<"cat">>, <<"rm">>, <<"sudo">>, <<"env", " ">>, <<"command", " ">>,
           <<"cd">>, <<"sed">>, <<"'">>}
Pieces ==
    {<<>>} \cup {<<s>> : s \in {"'", "\"", "\\", "$", "#", ">", "&", "|", ";", "NL", " ", "rm"}}
      \cup {<<" ", w>> : w \in {"in", "linked", "out", "up", "~", "/", "denied", "--",
                                "--file=out", "X=1", "sudo", "1p", "-i", "/w/in"}}
Seconds ==
    {<<"cat", " ", "linked">>, <<"rm">>, <<"'", "sudo">>, <<"cd", " ", "out">>, <<"#", "rm">>}
Firsts == {start \o p \o q : start \in Starts, p \in Pieces, q \in Pieces}
\* Options that name paths, of a wrapper and of sed, spelled in every way.
Arguments ==
    {<<" ", w>> : w \in {"in", "out", "--", "--file=out", "--fi", "-f", "-nfout", "-fX=1", "-m",
                         "-kMin:out", "in:out", "in:linked", "-i", "-iu", "-ni", "-u",
                         "sudo", "/", "1p"}}
OptionLines ==
    {<<program>> \o p \o q : program \in {"grep", "file", "env", "sed"},
                             p \in Arguments, q \in Arguments}
CommandCalls ==
    {Call("c1", "run_command", [first |-> first, second |-> second]) :
       first \in Firsts, second \in Seconds}
      \cup {Call("c1", "run_command", [first |-> first, second |-> <<"cat", " ", "linked">>]) :
              first \in OptionLines}

MCWorkloads ==
    LET One(calls_) == [calls |-> calls_, definitions |-> {}, runtimes |-> 1, plans |-> 1]
    IN  [dispatch |-> [calls |-> DispatchCalls, definitions |-> MCDefinitions,
                       runtimes |-> 2, plans |-> 2],
         search |-> One(SearchCalls), read |-> One(ReadCalls),
         patch |-> One(PatchCalls), command |-> One(CommandCalls)]
=============================================================================
