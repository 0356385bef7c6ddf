SPECIFICATION Spec
CONSTANTS
    ToolNames = {"read_file", "search_files", "apply_patch", "run_command", "twin"}
    MAX_IDENTITY = 3
    MAX_APPROVAL_REASON_SERIALIZED_BYTES = 8
    MaxPlans = 2
    MAX_SEARCH_MATCHES = 4
    MAX_SEARCH_LINE_BYTES = 3
    MAX_SEARCH_DIRECTORIES = 3
    MAX_SEARCH_ENTRIES = 10
    MAX_SEARCH_DIRECTORY_ENTRIES = 4
    MAX_SEARCH_DEPTH = 3
    MAX_SEARCH_FILES = 5
    MAX_SEARCH_BYTES = 8
    MAX_TOOL_CONTENT_SERIALIZED_BYTES = 8
    MAX_OUTPUT_BYTES = 9
    MAX_PATCH_LINES = 6
    MAX_SIMPLE_COMMANDS = 3
    MAX_POLICY_WORDS = 5
    MAX_PATH_PROBE_CANDIDATES = 3
    MAX_WORKSPACE_PATH_INSPECTIONS = 6
    MAX_TRANSPARENT_WRAPPER_DEPTH = 2
    lexicon <- MCLexicon
    entry <- MCEntry
    root <- MCRoot
    PatchLines <- MCPatchLines
    Answers <- MCAnswers
    CallIds = {"c1", "c2"}
    Workloads <- MCWorkloads
INVARIANTS
    ReadsAreExact
    PatchIsReversible
    PolicyIsSound
    ExecutedAsPrepared
    ReasonsAreBounded
CHECK_DEADLOCK FALSE
