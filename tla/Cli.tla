-------------------------------- MODULE Cli --------------------------------
(***************************************************************************)
(* The command line of kls: parse (src/cli/parser/cli_parser.cpp), one     *)
(* action per turn of its loop, validate (src/cli/validator), the special  *)
(* options of main and to_scan_options (src/cli/adapter).  A word of the   *)
(* command line is its text up to the first '=' (head) and, for a long     *)
(* option, what follows it (inline); what the parser asks of a text is     *)
(* given by the sets the text is in.                                       *)
(***************************************************************************)
EXTENDS Integers, Sequences, FiniteSets

CONSTANTS
  Argvs,          (* the command lines to try                              *)
  LongWord,       (* heads that begin with "--"                            *)
  ShortWord,      (* heads that begin with '-', have more, and are not long *)
  OtherText,      (* every other text                                      *)
  NoText,         (* no inline value, no value yet                         *)
  IntegerText,    (* texts made of digits, a '-' before them or not        *)
  IntOf,          (* IntOf[t]: value of those that fit in an int32_t       *)
  DateText,       (* texts of the form dddd-dd-dd                          *)
  SeverityText,   (* texts parser_severity understands                     *)
  Cwd,            (* what getcwd returns                                   *)
  SizeMax         (* largest value of std::size_t                          *)

Text == LongWord \cup ShortWord \cup OtherText
Word == [head : Text, inline : Text \cup {NoText}]

Flag == {"--help", "--version", "--no-color", "--quiet", "--verbose", "--all",
         "--recursive", "--only-findings", "--reverse", "--dirs-first",
         "--findings-first", "--long", "--no-header"}

ValueType ==
  [o \in {"--depth", "--filter", "--modified-before", "--modified-after",
          "--min-severity", "--fail-on", "--sort"} |->
     CASE o = "--depth"                               -> "INTEGER"
       [] o \in {"--modified-before", "--modified-after"} -> "DATE"
       [] o = "--filter"                              -> "PATTERN"
       [] OTHER                                       -> "STRING"]

ValueOption == DOMAIN ValueType
Option == Flag \cup ValueOption

Alias == [s \in {"-h", "-v", "-q", "-a", "-r", "-d", "-l"} |->
            CASE s = "-h" -> "--help"      [] s = "-v" -> "--version"
              [] s = "-q" -> "--quiet"     [] s = "-a" -> "--all"
              [] s = "-r" -> "--recursive" [] s = "-d" -> "--depth"
              [] s = "-l" -> "--long"]

Conflicts == [o \in Option |-> CASE o = "--quiet"   -> {"--verbose"}
                                 [] o = "--verbose" -> {"--quiet"}
                                 [] OTHER           -> {}]
Requirements == [o \in Option |-> IF o = "--depth" THEN {"--recursive"} ELSE {}]

ASSUME CliAssumption ==
  /\ Argvs \subseteq Seq(Word)
  /\ \A argv \in Argvs : \A k \in DOMAIN argv :
       argv[k].head \notin LongWord => argv[k].inline = NoText
  /\ "--" \in LongWord
  /\ Option \subseteq LongWord /\ DOMAIN Alias \subseteq ShortWord
  /\ LongWord \cap (ShortWord \cup OtherText) = {}
  /\ ShortWord \cap OtherText = {}
  /\ "" \in OtherText /\ "." \in OtherText /\ Cwd \in OtherText
  /\ NoText \notin Text
  /\ IntegerText \cup DateText \cup SeverityText \subseteq Text \ {""}
  /\ IntOf \in [DOMAIN IntOf -> Int] /\ DOMAIN IntOf \subseteq IntegerText
  /\ SizeMax \in Nat /\ \A t \in DOMAIN IntOf : IntOf[t] <= SizeMax

VARIABLES
  argv, i,
  opts,             (* ParsedOptions: flags set, values given, target_path *)
  positional_set,
  error,            (* ErrorCode of the CliError, "none" for none          *)
  scan_opts,
  pc                (* the stage main is in                                *)

vars == <<argv, i, opts, positional_set, error, scan_opts, pc>>

ErrorCode == {"UNKNOWN_OPTION", "MISSING_VALUE", "INVALID_VALUE",
              "CONFLICTING_OPTIONS", "MISSING_REQUIRED_OPTION",
              "INVALID_POSITIONAL"}

ParsedOptions == [flags : SUBSET Flag,
                  values : [ValueOption -> Text \cup {NoText}],
                  target_path : Text]

DefaultOptions == [flags |-> {}, values |-> [o \in ValueOption |-> NoText],
                   target_path |-> "."]

(* The part of ScanOptions that the command line decides. *)
ScanOptions == [recursive : BOOLEAN, include_hidden : BOOLEAN,
                maximum_depth : 0..SizeMax, audit_root : Text]

DefaultScanOptions == [recursive |-> FALSE, include_hidden |-> FALSE,
                       maximum_depth |-> SizeMax, audit_root |-> ""]

CliTypeOK ==
  /\ argv \in Seq(Word)
  /\ i \in 1..(Len(argv) + 1)
  /\ opts \in ParsedOptions
  /\ positional_set \in BOOLEAN
  /\ error \in ErrorCode \cup {"none"}
  /\ scan_opts \in ScanOptions
  /\ pc \in {"parse", "validate", "special", "audit", "exit_0", "exit_2"}

CliInit ==
  /\ argv \in Argvs
  /\ i = 1
  /\ opts = DefaultOptions
  /\ positional_set = FALSE
  /\ error = "none"
  /\ scan_opts = DefaultScanOptions
  /\ pc = "parse"

---------------------------------------------------------------------------

Arg == argv[i]
InArgv(k) == k <= Len(argv)

IsDoubleDash(w) == w.head = "--" /\ w.inline = NoText
IsOption(w) == w.head \in LongWord \cup ShortWord /\ ~IsDoubleDash(w)

(* The option a word names, NoText when find_spec returns nullptr. *)
FindSpec(w) ==
  IF w.head \in Option THEN w.head
  ELSE IF w.head \in DOMAIN Alias THEN Alias[w.head] ELSE NoText

(* The whole word as a text: with an '=' in it, it is a text like its head, *)
(* not empty and neither a number, a date nor a severity.                  *)
TextOf(w) == w.head

ValidateValue(type, text) ==
  CASE type = "INTEGER" -> text \in IntegerText
    [] type = "DATE"    -> text \in DateText
    [] OTHER            -> text # ""

(* What set_value accepts of what validate_value let through. *)
SetValueAccepts(option, text) ==
  CASE option = "--depth"                         -> text \in DOMAIN IntOf
    [] option \in {"--min-severity", "--fail-on"} -> text \in SeverityText
    [] OTHER                                      -> TRUE

Reject(code) ==
  /\ error' = code
  /\ pc' = "exit_2"
  /\ UNCHANGED <<argv, i, opts, positional_set, scan_opts>>

(* Mutant: the word after "--" is taken without looking. *)
HandleDoubleDashAlways ==
  /\ pc = "parse" /\ InArgv(i) /\ IsDoubleDash(Arg)
  /\ pc' = "validate"
  /\ IF InArgv(i + 1)
     THEN /\ opts' = [opts EXCEPT !.target_path = TextOf(argv[i + 1])]
          /\ positional_set' = TRUE
     ELSE UNCHANGED <<opts, positional_set>>
  /\ i' = i + 1
  /\ UNCHANGED <<argv, error, scan_opts>>

(* One word after "--" is the target; the loop ends there. *)
HandleDoubleDash ==
  /\ pc = "parse" /\ InArgv(i) /\ IsDoubleDash(Arg)
  /\ IF InArgv(i + 1) /\ positional_set THEN Reject("INVALID_POSITIONAL")
     ELSE /\ pc' = "validate"
          /\ IF InArgv(i + 1)
             THEN /\ opts' = [opts EXCEPT !.target_path = TextOf(argv[i + 1])]
                  /\ positional_set' = TRUE
             ELSE UNCHANGED <<opts, positional_set>>
          /\ i' = i + 1
          /\ UNCHANGED <<argv, error, scan_opts>>

HandleUnknown ==
  /\ pc = "parse" /\ InArgv(i) /\ IsOption(Arg)
  /\ FindSpec(Arg) = NoText
  /\ Reject("UNKNOWN_OPTION")

HandleFlag ==
  /\ pc = "parse" /\ InArgv(i) /\ IsOption(Arg)
  /\ FindSpec(Arg) \in Flag
  /\ IF Arg.inline # NoText THEN Reject("INVALID_VALUE")
     ELSE /\ opts' = [opts EXCEPT !.flags = @ \cup {FindSpec(Arg)}]
          /\ i' = i + 1
          /\ UNCHANGED <<argv, positional_set, error, scan_opts, pc>>

(* The value is the inline one or the whole next word, whatever it is. *)
HandleValue ==
  /\ pc = "parse" /\ InArgv(i) /\ IsOption(Arg)
  /\ FindSpec(Arg) \in ValueOption
  /\ LET option == FindSpec(Arg)
         here   == Arg.inline # NoText
         value  == IF here THEN Arg.inline ELSE TextOf(argv[i + 1])
     IN IF ~here /\ ~InArgv(i + 1) THEN Reject("MISSING_VALUE")
        ELSE IF \/ ~ValidateValue(ValueType[option], value)
                \/ ~SetValueAccepts(option, value)
        THEN Reject("INVALID_VALUE")
        ELSE /\ opts' = [opts EXCEPT !.values[option] = value]
             /\ i' = IF here THEN i + 1 ELSE i + 2
             /\ UNCHANGED <<argv, positional_set, error, scan_opts, pc>>

HandlePositional ==
  /\ pc = "parse" /\ InArgv(i)
  /\ ~IsDoubleDash(Arg) /\ ~IsOption(Arg)
  /\ IF positional_set THEN Reject("INVALID_POSITIONAL")
     ELSE /\ opts' = [opts EXCEPT !.target_path = TextOf(Arg)]
          /\ positional_set' = TRUE
          /\ i' = i + 1
          /\ UNCHANGED <<argv, error, scan_opts, pc>>

ParseEnds ==
  /\ pc = "parse" /\ ~InArgv(i)
  /\ pc' = "validate"
  /\ UNCHANGED <<argv, i, opts, positional_set, error, scan_opts>>

---------------------------------------------------------------------------

IsPresent(o) == IF o \in Flag THEN o \in opts.flags
                ELSE o # "--fail-on" /\ opts.values[o] # NoText

Clashes(o) == IsPresent(o) /\ \E c \in Conflicts[o] : IsPresent(c)
Lacks(o) == IsPresent(o) /\ \E r \in Requirements[o] : ~IsPresent(r)

(* Mutant: requirements are not looked at. *)
ValidateConflictsOnly ==
  /\ pc = "validate"
  /\ \/ /\ \E o \in Option : Clashes(o)
        /\ Reject("CONFLICTING_OPTIONS")
     \/ /\ \A o \in Option : ~Clashes(o)
        /\ pc' = "special"
        /\ UNCHANGED <<argv, i, opts, positional_set, error, scan_opts>>

(* CLI_SPECS is sorted by name: --depth, which may lack an option, is met  *)
(* before --quiet and --verbose, which may clash.                          *)
Validate ==
  /\ pc = "validate"
  /\ \/ /\ \E o \in Option : Lacks(o)
        /\ Reject("MISSING_REQUIRED_OPTION")
     \/ /\ \A o \in Option : ~Lacks(o)
        /\ \E o \in Option : Clashes(o)
        /\ Reject("CONFLICTING_OPTIONS")
     \/ /\ \A o \in Option : ~Lacks(o) /\ ~Clashes(o)
        /\ pc' = "special"
        /\ UNCHANGED <<argv, i, opts, positional_set, error, scan_opts>>

SpecialOption ==
  /\ pc = "special"
  /\ opts.flags \cap {"--help", "--version"} # {}
  /\ pc' = "exit_0"
  /\ UNCHANGED <<argv, i, opts, positional_set, error, scan_opts>>

(* Mutant: no cast. *)
DepthUncast == IF opts.values["--depth"] = NoText THEN SizeMax
               ELSE IntOf[opts.values["--depth"]]

(* static_cast<std::size_t> of an int32_t *)
Depth == IF opts.values["--depth"] = NoText THEN SizeMax
         ELSE IntOf[opts.values["--depth"]] % (SizeMax + 1)

(* getcwd may fail. *)
ToScanOptions ==
  /\ pc = "special"
  /\ opts.flags \cap {"--help", "--version"} = {}
  /\ \E root \in IF opts.target_path = "." THEN {Cwd, "."} ELSE {opts.target_path} :
       scan_opts' = [recursive      |-> "--recursive" \in opts.flags,
                     include_hidden |-> "--all" \in opts.flags,
                     maximum_depth  |-> Depth,
                     audit_root     |-> root]
  /\ pc' = "audit"
  /\ UNCHANGED <<argv, i, opts, positional_set, error>>

CliDone == pc \in {"audit", "exit_0", "exit_2"} /\ UNCHANGED vars

CliNext ==
  \/ HandleDoubleDash \/ HandleUnknown \/ HandleFlag \/ HandleValue
  \/ HandlePositional \/ ParseEnds
  \/ Validate \/ SpecialOption \/ ToScanOptions
  \/ CliDone

CliSpec == CliInit /\ [][CliNext]_vars

---------------------------------------------------------------------------

(* The grammar, word by word: what a word is depends on the word before.   *)
Reads(before, w) ==
  CASE before = "takes value"            -> "value"
    [] before = "terminator"             -> "operand"
    [] before \in {"operand", "unread"}  -> "unread"
    [] OTHER ->
         IF IsDoubleDash(w) THEN "terminator"
         ELSE IF ~IsOption(w) THEN "positional"
         ELSE IF FindSpec(w) \in ValueOption /\ w.inline = NoText THEN "takes value"
         ELSE "option"

Reading[k \in Nat] ==
  IF k = 0 THEN "start" ELSE Reads(Reading[k-1], argv[k])

Role ==
  [k \in DOMAIN argv |->
     IF Reading[k] \in {"positional", "operand"} THEN "target" ELSE Reading[k]]

Target == {k \in DOMAIN argv : Role[k] = "target"}

GivenValue(k) == IF Role[k] = "takes value" THEN TextOf(argv[k+1]) ELSE argv[k].inline

Legal(option, text) ==
  /\ option \in {"--min-severity", "--fail-on"} => text \in SeverityText
  /\ option = "--depth" => text \in DOMAIN IntOf
  /\ option \in {"--modified-before", "--modified-after"} => text \in DateText
  /\ text # ""

WellFormed(k) ==
  CASE Role[k] = "option" ->
         \/ FindSpec(argv[k]) \in Flag /\ argv[k].inline = NoText
         \/ FindSpec(argv[k]) \in ValueOption /\ Legal(FindSpec(argv[k]), GivenValue(k))
    [] Role[k] = "takes value" ->
         k < Len(argv) /\ Legal(FindSpec(argv[k]), GivenValue(k))
    [] Role[k] = "target" -> \A j \in Target : j >= k
    [] OTHER -> TRUE

Uses(option) == {k \in DOMAIN argv : /\ Role[k] \in {"option", "takes value"}
                                     /\ FindSpec(argv[k]) = option}

(* parse accepts the command lines of the grammar and no other, and gives  *)
(* each option the value of its last use and the target its word: no word  *)
(* is ever taken both as a value and as an option, or as neither.          *)
ParserMatchesGrammar ==
  /\ pc = "validate" =>
       /\ \A k \in DOMAIN argv : WellFormed(k)
       /\ opts.flags = {o \in Flag : Uses(o) # {}}
       /\ \A o \in ValueOption :
            opts.values[o] = IF Uses(o) = {} THEN NoText
                             ELSE GivenValue(CHOOSE k \in Uses(o) :
                                               \A j \in Uses(o) : j <= k)
       /\ opts.target_path = IF Target = {} THEN "."
                             ELSE TextOf(argv[CHOOSE k \in Target : TRUE])
  /\ error \in {"UNKNOWN_OPTION", "MISSING_VALUE", "INVALID_VALUE",
                "INVALID_POSITIONAL"} =>
       /\ ~WellFormed(i) \/ (IsDoubleDash(Arg) /\ ~WellFormed(i + 1))
       /\ \A k \in 1..(i-1) : WellFormed(k)

(* What reaches the audit is consistent: the options that exclude or need  *)
(* each other, and both severities, so that main never drops a --fail-on   *)
(* it cannot parse, and the cast of --depth has an argument.               *)
AuditedOptionsConsistent ==
  pc = "audit" =>
    /\ ~({"--quiet", "--verbose"} \subseteq opts.flags)
    /\ opts.values["--depth"] # NoText =>
         scan_opts.recursive /\ opts.values["--depth"] \in DOMAIN IntOf
    /\ opts.values["--fail-on"] \in SeverityText \cup {NoText}
    /\ opts.values["--min-severity"] \in SeverityText \cup {NoText}
=============================================================================
