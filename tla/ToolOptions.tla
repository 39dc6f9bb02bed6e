------------------------------ MODULE ToolOptions ------------------------------
(****************************************************************************)
(* The command line: what program_options makes of it, and how the creator  *)
(* of a tool finds the binary to run and makes its option_t.                *)
(*                                                                          *)
(* Options that are given are a function from their names to values;        *)
(* variables_map adds the defaults, and "contains" is membership in its     *)
(* domain.  A host is what the creators find on the machine: plain, from a  *)
(* tool to the path of its binary; versioned, from a tool and a version to  *)
(* that of clang-tidy-18; files, what which finds when it is named; and     *)
(* reply, from executables to what they answer to --version.                *)
(*                                                                          *)
(* What may throw is a set: it is empty when the call throws, and holds its *)
(* result when it returns.                                                  *)
(****************************************************************************)
GeneralDefaults ==
  [action_output |-> TRUE, step_summary |-> TRUE, issue_comment |-> TRUE, review |-> FALSE,
   log_level |-> "info"]

\* register_option: version and binary have no default.
ToolDefaults == [enable |-> TRUE, enable_fastly_exit |-> FALSE, file_iregex |-> "default"]

Parse(given, defaults) ==
  [name \in DOMAIN given \cup DOMAIN defaults |->
     IF name \in DOMAIN given THEN given[name] ELSE defaults[name]]

SupportedLogLevels == {"trace", "debug", "info", "error"}

\* to_lower_copy, on the levels of which one is given in capitals.
ToLower(level) == IF level = "INFO" THEN "info" ELSE level

SetsLogLevel(variables) == ToLower(variables.log_level) \in SupportedLogLevels

MustSpecify(variables, options) == options \subseteq DOMAIN variables
MustNotSpecify(variables, options) == options \cap DOMAIN variables = {}

FindClangTool(tool, version, host) ==
  {host.versioned[tool][v] : v \in {version} \cap DOMAIN host.versioned[tool]}

\* A name that which finds on the PATH is as good as a path, and is kept as it is.
GivenBinary(binary, host) == {binary} \cap host.files

Which(tool, host) == {host.plain[t] : t \in {tool} \cap DOMAIN host.plain}

\* The tool on the PATH goes before the version that was asked for (a plausible
\* mistake; no specification uses it).
BinarySlip(tool, variables, host) ==
  IF "binary" \in DOMAIN variables THEN GivenBinary(variables.binary, host) ELSE Which(tool, host)

Binary(tool, variables, host) ==
  IF "version" \in DOMAIN variables
    THEN {path \in FindClangTool(tool, variables.version, host) :
            MustNotSpecify(variables, {"binary"})}
  ELSE IF "binary" \in DOMAIN variables THEN GivenBinary(variables.binary, host)
  ELSE Which(tool, host)

NoVersion == "no version"
Fails == "fails"

\* A bare name does not start, and an answer without a version throws; a binary
\* that fails has the version "".
GetVersion(binary, host) ==
  {IF host.reply[b] = Fails THEN "" ELSE host.reply[b] :
     b \in {b \in {binary} \cap DOMAIN host.reply : host.reply[b] # NoVersion}}

\* create_option of an enabled tool.
CreateOption(tool, variables, host) ==
  UNION {{[tool |-> tool, binary |-> binary, version |-> version,
           enabled_fastly_exit |-> variables.enable_fastly_exit,
           file_iregex |-> variables.file_iregex] : version \in GetVersion(binary, host)} :
         binary \in Binary(tool, variables, host)}
===============================================================================
