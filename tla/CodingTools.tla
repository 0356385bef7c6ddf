------------------------------ MODULE CodingTools ------------------------------
(***************************************************************************)
(* The coding capability (capability-coding/src/tools.rs) behind the Tool  *)
(* Runtime: its four tools are registered as one pack; run_command is      *)
(* classified by CommandPolicy when it is prepared; search_files, read_file*)
(* and the parsing side of apply_patch run to their end inside             *)
(* execute_prepared.  How a patch is committed and how a command runs is in*)
(* AtomicPatch and ShellCommand.                                           *)
(***************************************************************************)
EXTENDS ToolRuntime, FileSearch, PatchHunks, CommandPolicy

CONSTANTS PatchLines,    \* the lines a patch may have
          Answers,       \* what other call-dependent tools answer
          CallIds,       \* the ids of calls
          Workloads      \* what may be asked of the tools, by name: [calls, definitions,
                         \* runtimes, plans], the calls as [id, tool_name, arguments]

Policies == {"always_allow", "call_dependent", "requires_approval", "always_reject"}

\* Calls name tools the registry may hold; ToolApprovalPolicy has four values; a
\* reason is a text.
ASSUME WorkloadsAssumption ==
    /\ \A w \in DOMAIN Workloads :
         /\ \A call \in Workloads[w].calls : call.tool_name \in ToolNames
         /\ \A definition \in Workloads[w].definitions :
              definition.policy \in Policies /\ definition.reason \in Seq(Characters)
    /\ \A answer \in Answers : answer.reason \in Seq(Characters)

\* A file and what a patch has for it are texts; a line of the patch has a newline
\* only at its end, and what its kind says it has.
ASSUME PatchesAssumption ==
    /\ \A w \in DOMAIN Workloads : \A call \in Workloads[w].calls :
          call.tool_name = "apply_patch" =>
             call.arguments.exists \in BOOLEAN /\ call.arguments.original \in Seq(STRING)
    /\ \A line \in PatchLines :
          /\ line.content \in Seq(STRING)
          /\ \A i \in 1 .. (Len(line.content) - 1) : line.content[i] # "N"
          /\ line.kind = "@@" =>
               line.old_start \in Nat /\ line.old_count \in Nat /\ line.new_count \in Nat

\* A command is made of the symbols that the lexicon has.
ASSUME CommandsAssumption ==
    \A w \in DOMAIN Workloads : \A call \in Workloads[w].calls :
        call.tool_name = "run_command" =>
            /\ call.arguments.first \in Seq(DOMAIN lexicon)
            /\ call.arguments.second \in Seq(DOMAIN lexicon)

VARIABLES reading,       \* what read_file returned
          workload       \* the name of what is asked in this behaviour

vars == <<registry, calls, search, patching, reading, workload>>

BUILTIN_TOOL_NAMES == {"read_file", "search_files", "apply_patch", "run_command"}

\* coding-capability.toml through the manifest.
coding_manifest ==
    [name \in BUILTIN_TOOL_NAMES |->
       CASE name \in {"read_file", "search_files"} -> [policy |-> "always_allow", reason |-> <<>>]
         [] name = "apply_patch" -> [policy |-> "requires_approval", reason |-> <<"x">>]
         [] name = "run_command" -> [policy |-> "call_dependent", reason |-> <<>>]]

Text(command) == command.first \o <<"NL">> \o command.second

\* BuiltinCodingTool::classify; any other tool answers as it likes.
ClassifyAnswers(call) ==
    IF call.tool_name = "run_command"
    THEN LET decision == classify(Text(call.arguments)) IN
         {CASE decision = "allow" -> [kind |-> "allow", reason |-> <<>>]
            [] decision = "ask" -> [kind |-> "requires_approval", reason |-> <<"x">>]
            [] OTHER -> [kind |-> "reject", reason |-> <<"x">>]}
    ELSE IF call.tool_name \in BUILTIN_TOOL_NAMES THEN {[kind |-> "allow", reason |-> <<>>]}
    ELSE Answers

Init ==
    /\ InitRuntime
    /\ search = NoSearch
    /\ patching = NoPatching
    /\ reading = [state |-> "idle"]
    /\ workload \in DOMAIN Workloads

Asked == Workloads[workload]

tools == <<search, patching, reading>>

-----------------------------------------------------------------------------
\* read_file.

\* A character of two bytes is kept or dropped as a whole, so its first byte
\* costs both; a line break is escaped.
JsonBytes(byte) == CASE byte \in {"N", "R", "L"} -> 2 [] byte = "C" -> 0 [] OTHER -> 1

truncate_json_string(text, limit) ==
    FoldLeft(LAMBDA a, byte :
               IF a.full \/ a.bytes + JsonBytes(byte) > limit THEN [a EXCEPT !.full = TRUE]
               ELSE [a EXCEPT !.bytes = @ + JsonBytes(byte), !.text = Append(@, byte)],
             [full |-> FALSE, bytes |-> 2, text |-> <<>>], text)

\* The bytes within the budget, cut back to a whole character, then to the
\* size of the content in JSON.
ReadFile(content) ==
    LET truncated == Len(content) > MAX_OUTPUT_BYTES
        visible == SubSeq(content, 1, Min({Len(content), MAX_OUTPUT_BYTES}))
        text == IF truncated THEN visible_utf8_prefix(visible) ELSE visible
        cut == truncate_json_string(text, MAX_TOOL_CONTENT_SERIALIZED_BYTES)
    IN  IF ~ValidUtf8(text) THEN [state |-> "failed"]
        ELSE [state |-> "done", content |-> content, text |-> cut.text,
              truncated |-> truncated \/ cut.full]

-----------------------------------------------------------------------------
\* Calls.

Prepare(r) ==
    /\ prepared < Asked.plans
    /\ \E call \in Asked.calls : \E answer \in ClassifyAnswers(call) : prepare(r, call, answer)
    /\ UNCHANGED tools

\* BuiltinCodingTool::execute starts the tool.
Execute(r, plan, authorization) ==
    /\ execute_prepared(r, plan, authorization)
    /\ LET args == plan.call.arguments
           starts == handling' # Idle
           Is(name) == starts /\ plan.call.tool_name = name
       IN  /\ search' = IF Is("search_files")
                        THEN StartSearch(args.tree, args.query, args.overhead, args.is_dir)
                        ELSE search
           /\ patching' = IF Is("apply_patch") THEN StartPatching(args.exists, args.original)
                          ELSE patching
           /\ reading' = IF Is("read_file") THEN ReadFile(args.content) ELSE reading

ToolRuns(name) == handling # Idle /\ handling.call.tool_name = name

RunSearch ==
    /\ ToolRuns("search_files")
    /\ SearchStep
    /\ UNCHANGED <<registry, calls, patching, reading>>

RunPatch ==
    /\ ToolRuns("apply_patch")
    /\ PatchStep(PatchLines)
    /\ UNCHANGED <<registry, calls, search, reading>>

\* The tool is done; another tool may return any code.
Return ==
    /\ handling # Idle
    /\ ToolRuns("search_files") => search.state \in {"done", "failed"}
    /\ ToolRuns("apply_patch") => patching.state \in {"done", "failed"}
    /\ \E code \in {"ok", "failed", "approval_denied"} : HandlerReturns(code)
    /\ UNCHANGED tools

Register(r) ==
    /\ \/ \E name \in ToolNames \ BUILTIN_TOOL_NAMES, definition \in Asked.definitions :
            register(r, name, definition)
       \/ RegisterPack(r, coding_manifest)
    /\ UNCHANGED tools

Authorizations == {NotRequired} \cup CallIds

Next ==
    /\ \/ Len(runtimes) < Asked.runtimes /\ NewRuntime /\ UNCHANGED tools
       \/ \E r \in DOMAIN runtimes :
            \/ Register(r)
            \/ Prepare(r)
            \/ \E plan \in plans, authorization \in Authorizations :
                 Execute(r, plan, authorization)
       \/ RunSearch
       \/ RunPatch
       \/ Return
    /\ UNCHANGED workload

Spec == Init /\ [][Next]_vars

-----------------------------------------------------------------------------
\* Properties; see also ToolRuntime and PatchHunks.

\* What a tool shows of a file is true: read_file returns the file, or says that
\* it is truncated and returns the start of it, in whole characters; search_files
\* is exact.
ReadsAreExact ==
    /\ SearchIsExact
    /\ reading.state = "done" =>
         /\ IsPrefix(reading.text, reading.content)
         /\ ValidUtf8(reading.text)
         /\ ~reading.truncated => reading.text = reading.content

\* A prepared command is judged line by line, and one that needs no approval
\* stays inside the workspace.
PolicyIsSound ==
    \A plan \in plans : plan.call.tool_name = "run_command" =>
        /\ PolicyIsCompositional(plan.call.arguments.first, plan.call.arguments.second)
        /\ plan.disposition = "ready" => AllowedStaysInside(Text(plan.call.arguments))
=============================================================================
