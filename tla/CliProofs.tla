------------------------------ MODULE CliProofs ------------------------------
(***************************************************************************)
(* For every set of command lines: the states of Cli are well typed, and   *)
(* what reaches the audit is consistent.                                   *)
(***************************************************************************)
EXTENDS Cli, Induction

(* The values in hand are those set_value let through. *)
Accepted ==
  \A o \in ValueOption :
    opts.values[o] # NoText => SetValueAccepts(o, opts.values[o])

(* What validate established holds from there on, and the scan options     *)
(* are those of the command line.                                          *)
Validated ==
  /\ pc \in {"special", "audit"} => \A o \in Option : ~Lacks(o) /\ ~Clashes(o)
  /\ pc = "audit" => (scan_opts.recursive <=> "--recursive" \in opts.flags)

CliInv == CliTypeOK /\ Accepted /\ Validated

LEMMA WordTexts ==
  ASSUME CliTypeOK, NEW k \in 1..Len(argv)
  PROVE  /\ argv[k].head \in Text
         /\ argv[k].inline \in Text \cup {NoText}
         /\ TextOf(argv[k]) \in Text
  <1>1. argv[k] \in Word
    BY DEF CliTypeOK
  <1> QED
    BY <1>1 DEF Word, TextOf

(* What the assumption says of the defaults. *)
LEMMA DefaultsTyped ==
  /\ Argvs \subseteq Seq(Word)
  /\ SizeMax \in Nat /\ SizeMax \in 0..SizeMax
  /\ "." \in Text /\ "" \in Text /\ Cwd \in Text
  <1>1. SizeMax \in Nat
    BY CliAssumption
  <1>2. "." \in OtherText /\ "" \in OtherText /\ Cwd \in OtherText
    BY CliAssumption
  <1>3. Argvs \subseteq Seq(Word)
    BY CliAssumption, Zenon
  <1>4. SizeMax \in 0..SizeMax
    BY <1>1
  <1>5. "." \in Text /\ "" \in Text /\ Cwd \in Text
    BY <1>2 DEF Text
  <1> QED
    BY <1>1, <1>3, <1>4, <1>5

LEMMA CliInitInv == CliInit => CliInv
  <1> SUFFICES ASSUME CliInit PROVE CliInv
    OBVIOUS
  <1>1. argv \in Seq(Word) /\ Len(argv) \in Nat
    <2>1. argv \in Seq(Word)
      BY DefaultsTyped, Zenon DEF CliInit
    <2> QED
      BY <2>1
  <1>2. opts \in ParsedOptions
    BY DefaultsTyped DEF CliInit, DefaultOptions, ParsedOptions
  <1>3. scan_opts \in ScanOptions
    BY DefaultsTyped DEF CliInit, DefaultScanOptions, ScanOptions
  <1>4. i \in 1..(Len(argv) + 1)
    BY <1>1 DEF CliInit
  <1>5. CliTypeOK
    BY <1>1, <1>2, <1>3, <1>4 DEF CliInit, CliTypeOK
  <1>6. Accepted
    BY DEF CliInit, Accepted, DefaultOptions
  <1>7. Validated
    BY DEF CliInit, Validated
  <1> QED
    BY <1>5, <1>6, <1>7 DEF CliInv

(* A step that leaves the parsed options alone, does not reach the later   *)
(* stages and stays well typed keeps the rest.                             *)
LEMMA RejectStep ==
  ASSUME CliInv, NEW code \in ErrorCode, Reject(code)
  PROVE  CliInv'
  BY DEF CliInv, CliTypeOK, Accepted, Validated, Reject, SetValueAccepts

LEMMA DepthInRange ==
  ASSUME CliInv
  PROVE  Depth \in 0..SizeMax
  <1>1. CASE opts.values["--depth"] = NoText
    BY <1>1, DefaultsTyped DEF Depth
  <1>2. CASE opts.values["--depth"] # NoText
    <2>1. "--depth" \in ValueOption
      BY DEF ValueOption, ValueType
    <2>2. opts.values["--depth"] \in DOMAIN IntOf
      BY <1>2, <2>1 DEF CliInv, Accepted, SetValueAccepts
    <2> DEFINE v == IntOf[opts.values["--depth"]]
    <2>3. v \in Int
      BY <2>2, CliAssumption
    <2>4. SizeMax \in Nat
      BY CliAssumption
    <2>5. v % (SizeMax + 1) \in 0..SizeMax
      <3> HIDE DEF v
      <3> QED
        BY <2>3, <2>4
    <2> QED
      BY <1>2, <2>5 DEF Depth
  <1> QED
    BY <1>1, <1>2

(* One step per action. *)
LEMMA CliStepInv == CliInv /\ [CliNext]_vars => CliInv'
  <1> SUFFICES ASSUME CliInv, [CliNext]_vars PROVE CliInv'
    OBVIOUS
  <1> USE DEF CliInv
  <1>0. /\ argv \in Seq(Word) /\ Len(argv) \in Nat /\ i \in Nat /\ i >= 1
        /\ opts.values \in [ValueOption -> Text \cup {NoText}]
        /\ opts.flags \subseteq Flag
        /\ opts \in ParsedOptions
        /\ scan_opts \in ScanOptions
    BY DEF CliTypeOK, ParsedOptions
  <1>a. \A code \in ErrorCode : Reject(code) => CliInv'
    BY RejectStep
  <1>1. CASE HandleDoubleDash
    <2>1. CASE InArgv(i + 1) /\ positional_set
      BY <1>1, <2>1, <1>a DEF HandleDoubleDash, ErrorCode
    <2>2. CASE ~(InArgv(i + 1) /\ positional_set)
      <3>1. i' \in 1..(Len(argv') + 1)
        BY <1>0, <1>1, <2>2 DEF HandleDoubleDash, InArgv
      <3>2. InArgv(i + 1) => TextOf(argv[i + 1]) \in Text
        BY <1>0, WordTexts DEF InArgv
      <3>3. opts' \in ParsedOptions /\ opts'.values = opts.values
        BY <1>0, <1>1, <2>2, <3>2 DEF HandleDoubleDash, ParsedOptions
      <3>4. CliTypeOK'
        BY <1>0, <1>1, <2>2, <3>1, <3>3 DEF HandleDoubleDash, CliTypeOK
      <3>5. Accepted'
        BY <3>3 DEF Accepted, SetValueAccepts
      <3>6. Validated'
        BY <1>1, <2>2 DEF HandleDoubleDash, Validated
      <3> QED
        BY <3>4, <3>5, <3>6
    <2> QED
      BY <2>1, <2>2
  <1>2. CASE HandleUnknown
    BY <1>2, <1>a DEF HandleUnknown, ErrorCode
  <1>3. CASE HandleFlag
    <2>1. CASE Arg.inline # NoText
      BY <1>3, <2>1, <1>a DEF HandleFlag, ErrorCode
    <2>2. CASE Arg.inline = NoText
      <3>1. i' \in 1..(Len(argv') + 1)
        BY <1>0, <1>3, <2>2 DEF HandleFlag, InArgv
      <3>2. opts' \in ParsedOptions /\ opts'.values = opts.values
        BY <1>0, <1>3, <2>2 DEF HandleFlag, ParsedOptions
      <3>3. CliTypeOK'
        BY <1>0, <1>3, <2>2, <3>1, <3>2 DEF HandleFlag, CliTypeOK
      <3>4. Accepted'
        BY <3>2 DEF Accepted, SetValueAccepts
      <3>5. Validated'
        BY <1>3, <2>2 DEF HandleFlag, Validated
      <3> QED
        BY <3>3, <3>4, <3>5
    <2> QED
      BY <2>1, <2>2
  <1>4. CASE HandleValue
    <2> DEFINE option == FindSpec(Arg)
               here   == Arg.inline # NoText
               value  == IF here THEN Arg.inline ELSE TextOf(argv[i + 1])
    <2>1. CASE ~here /\ ~InArgv(i + 1)
      BY <1>4, <2>1, <1>a DEF HandleValue, ErrorCode
    <2>2. CASE \/ ~ValidateValue(ValueType[option], value)
               \/ ~SetValueAccepts(option, value)
      BY <1>4, <2>2, <1>a DEF HandleValue, ErrorCode
    <2>3. CASE /\ here \/ InArgv(i + 1)
               /\ ValidateValue(ValueType[option], value)
               /\ SetValueAccepts(option, value)
      <3>1. i \in 1..Len(argv) /\ option \in ValueOption
        BY <1>0, <1>4 DEF HandleValue, InArgv
      <3>2. value \in Text
        BY <1>0, <2>3, <3>1, WordTexts DEF InArgv, Arg
      <3>3. /\ opts' = [opts EXCEPT !.values[option] = value]
            /\ i' = IF here THEN i + 1 ELSE i + 2
            /\ UNCHANGED <<argv, positional_set, error, scan_opts, pc>>
        BY <1>4, <2>3 DEF HandleValue
      <3>4. i' \in 1..(Len(argv') + 1)
        BY <1>0, <2>3, <3>1, <3>3 DEF InArgv
      <3> HIDE DEF option, value, here
      <3>5. opts' \in ParsedOptions
        BY <1>0, <3>1, <3>2, <3>3 DEF ParsedOptions
      <3>6. opts'.values = [opts.values EXCEPT ![option] = value]
        BY <1>0, <3>3 DEF ParsedOptions
      <3>7. CliTypeOK'
        BY <1>0, <3>3, <3>4, <3>5 DEF CliTypeOK
      <3>8. Accepted'
        <4>1. SUFFICES ASSUME NEW o \in ValueOption, opts'.values[o] # NoText
              PROVE  SetValueAccepts(o, opts'.values[o])
          BY DEF Accepted, SetValueAccepts
        <4>2. CASE o = option
          BY <1>0, <2>3, <3>1, <3>6, <4>2
        <4>3. CASE o # option
          BY <1>0, <3>1, <3>6, <4>1, <4>3 DEF Accepted
        <4> QED
          BY <4>2, <4>3
      <3>9. Validated'
        BY <1>4, <3>3 DEF HandleValue, Validated
      <3> QED
        BY <3>7, <3>8, <3>9
    <2> QED
      BY <2>1, <2>2, <2>3
  <1>5. CASE HandlePositional
    <2>1. CASE positional_set
      BY <1>5, <2>1, <1>a DEF HandlePositional, ErrorCode
    <2>2. CASE ~positional_set
      <3>1. i' \in 1..(Len(argv') + 1) /\ i \in 1..Len(argv)
        BY <1>0, <1>5, <2>2 DEF HandlePositional, InArgv
      <3>2. TextOf(Arg) \in Text
        BY <3>1, WordTexts DEF Arg
      <3>3. opts' \in ParsedOptions /\ opts'.values = opts.values
        BY <1>0, <1>5, <2>2, <3>2 DEF HandlePositional, ParsedOptions
      <3>4. CliTypeOK'
        BY <1>0, <1>5, <2>2, <3>1, <3>3 DEF HandlePositional, CliTypeOK
      <3>5. Accepted'
        BY <3>3 DEF Accepted, SetValueAccepts
      <3>6. Validated'
        BY <1>5, <2>2 DEF HandlePositional, Validated
      <3> QED
        BY <3>4, <3>5, <3>6
    <2> QED
      BY <2>1, <2>2
  <1>6. CASE ParseEnds
    BY <1>6 DEF ParseEnds, CliTypeOK, Accepted, Validated, SetValueAccepts
  <1>7. CASE Validate
    <2>1. CASE Reject("MISSING_REQUIRED_OPTION") \/ Reject("CONFLICTING_OPTIONS")
      BY <2>1, <1>a DEF ErrorCode
    <2>2. CASE /\ \A o \in Option : ~Lacks(o) /\ ~Clashes(o)
               /\ pc' = "special"
               /\ UNCHANGED <<argv, i, opts, positional_set, error, scan_opts>>
      <3>1. CliTypeOK' /\ Accepted'
        BY <2>2 DEF CliTypeOK, Accepted, SetValueAccepts
      <3>2. Validated'
        BY <2>2 DEF Validated, Lacks, Clashes, IsPresent
      <3> QED
        BY <3>1, <3>2
    <2> QED
      BY <1>7, <2>1, <2>2 DEF Validate
  <1>8. CASE SpecialOption
    BY <1>8 DEF SpecialOption, CliTypeOK, Accepted, Validated, SetValueAccepts
  <1>9. CASE ToScanOptions
    <2>1. PICK root \in IF opts.target_path = "." THEN {Cwd, "."} ELSE {opts.target_path} :
            scan_opts' = [recursive      |-> "--recursive" \in opts.flags,
                          include_hidden |-> "--all" \in opts.flags,
                          maximum_depth  |-> Depth,
                          audit_root     |-> root]
      BY <1>9 DEF ToScanOptions
    <2>2. root \in Text
      BY <1>0, CliAssumption DEF ParsedOptions, Text
    <2>3. scan_opts' \in ScanOptions
      BY <2>1, <2>2, DepthInRange DEF ScanOptions
    <2>4. CliTypeOK'
      BY <1>9, <2>3 DEF ToScanOptions, CliTypeOK
    <2>5. Accepted'
      BY <1>9 DEF ToScanOptions, Accepted, SetValueAccepts
    <2>6. Validated'
      BY <1>9, <2>1 DEF ToScanOptions, Validated, Lacks, Clashes, IsPresent
    <2> QED
      BY <2>4, <2>5, <2>6
  <1>10. CASE UNCHANGED vars
    BY <1>10 DEF vars, CliTypeOK, Accepted, Validated, SetValueAccepts, Lacks,
                 Clashes, IsPresent
  <1> QED
    BY <1>1, <1>2, <1>3, <1>4, <1>5, <1>6, <1>7, <1>8, <1>9, <1>10
    DEF CliNext, CliDone

LEMMA CliInvariant == CliSpec => []CliInv
  BY CliInitInv, CliStepInv, PTL DEF CliSpec

(* The parser never reads beyond the last word, and what it builds has the *)
(* types of ParsedOptions and ScanOptions.                                 *)
THEOREM CliTypeCorrect == CliSpec => []CliTypeOK
  BY CliInvariant, PTL DEF CliInv

(* No command line makes main audit with options that exclude or need each *)
(* other, or with a severity it then fails to parse.                       *)
THEOREM AuditedConsistently == CliSpec => []AuditedOptionsConsistent
  <1>1. CliInv => AuditedOptionsConsistent
    <2> SUFFICES ASSUME CliInv, pc = "audit" PROVE AuditedOptionsConsistent
      BY DEF AuditedOptionsConsistent
    <2>1. \A o \in Option : ~Lacks(o) /\ ~Clashes(o)
      BY DEF CliInv, Validated
    <2>2. {"--quiet", "--verbose", "--recursive"} \subseteq Flag
      BY DEF Flag
    <2>3. {"--depth", "--fail-on", "--min-severity"} \subseteq ValueOption
      BY DEF ValueOption, ValueType
    <2>4. "--depth" \notin Flag
      BY DEF Flag
    <2>5. ~({"--quiet", "--verbose"} \subseteq opts.flags)
      BY <2>1, <2>2 DEF Option, Clashes, IsPresent, Conflicts
    <2>6. opts.values["--depth"] # NoText => "--recursive" \in opts.flags
      BY <2>1, <2>2, <2>3, <2>4 DEF Option, Lacks, IsPresent, Requirements
    <2>7. opts.values \in [ValueOption -> Text \cup {NoText}]
      BY DEF CliInv, CliTypeOK, ParsedOptions
    <2>8. \A o \in ValueOption :
            opts.values[o] # NoText => SetValueAccepts(o, opts.values[o])
      BY DEF CliInv, Accepted
    <2> QED
      BY <2>3, <2>5, <2>6, <2>7, <2>8
      DEF AuditedOptionsConsistent, CliInv, Validated, SetValueAccepts
  <1> QED
    BY <1>1, CliInvariant, PTL

---------------------------------------------------------------------------

RoleName == {"start", "value", "operand", "unread", "terminator", "positional",
             "takes value", "option"}

(* The roles of the words, as the definition chooses them. *)
LEMMA ReadingUnfolds ==
  /\ Reading \in [Nat -> RoleName]
  /\ Reading[0] = "start"
  /\ \A k \in Nat : Reading[k+1] = Reads(Reading[k], argv[k+1])
  <1> DEFINE Is(f) == f = [k \in Nat |-> IF k = 0 THEN "start" ELSE Reads(f[k-1], argv[k])]
             Step  == [k \in Nat |-> [v \in RoleName |-> Reads(v, argv[k+1])]]
             top   == "start"
             R     == CHOOSE f : Is(f)
  <1>1. Reading = R
    BY DEF Reading
  <1>2. top \in RoleName /\ Step \in [Nat -> [RoleName -> RoleName]]
    BY DEF RoleName, Reads
  <1>3. PICK f \in [Nat -> RoleName] :
          \A k \in Nat : f[k] = IF k = 0 THEN top ELSE Step[k-1][f[k-1]]
    <2> HIDE DEF top, Step, Is, R
    <2> QED
      BY ONLY <1>2, RecursionOnNat
  <1>4. \A k \in Nat : f[k] = IF k = 0 THEN "start" ELSE Reads(f[k-1], argv[k])
    <2>1. ASSUME NEW k \in Nat, k # 0
          PROVE  f[k] = Reads(f[k-1], argv[k])
      <3>1. k - 1 \in Nat /\ (k - 1) + 1 = k /\ f[k-1] \in RoleName
        BY <2>1
      <3>2. f[k] = Step[k-1][f[k-1]]
        BY <1>3, <2>1
      <3> QED
        BY <3>1, <3>2
    <2> QED
      BY <1>3, <2>1
  <1>5. Is(f)
    <2>1. f = [k \in Nat |-> f[k]]
      OBVIOUS
    <2> QED
      BY <1>4, <2>1
  <1> HIDE DEF Is
  <1>6. Is(R)
    BY <1>5
  <1> HIDE DEF R
  <1>7. \A k \in Nat : R[k] = IF k = 0 THEN "start" ELSE Reads(R[k-1], argv[k])
    BY <1>6 DEF Is
  <1>8. DOMAIN R = Nat /\ R = [k \in Nat |-> R[k]]
    BY <1>6 DEF Is
  <1>9. \A k \in Nat : R[k] = f[k]
    <2> DEFINE Same == {k \in Nat : R[k] = f[k]}
    <2>1. 0 \in Same
      BY <1>4, <1>7
    <2>2. ASSUME NEW k \in Nat, k \in Same PROVE k + 1 \in Same
      <3>1. k + 1 \in Nat /\ k + 1 # 0 /\ (k + 1) - 1 = k /\ R[k] = f[k]
        BY <2>2
      <3> QED
        BY <1>4, <1>7, <3>1
    <2> HIDE DEF Same
    <2>3. Nat \subseteq Same
      BY <2>1, <2>2, SetInduction
    <2> QED
      BY <2>3 DEF Same
  <1>10. R \in [Nat -> RoleName]
    BY <1>8, <1>9
  <1>11. ASSUME NEW k \in Nat PROVE R[k+1] = Reads(R[k], argv[k+1])
    <2>1. k + 1 \in Nat /\ k + 1 # 0 /\ (k + 1) - 1 = k
      OBVIOUS
    <2> QED
      BY <1>7, <2>1
  <1> QED
    BY <1>1, <1>7, <1>10, <1>11

(* The words up to m that use an option, or are the target. *)
UsesTo(option, m) == {k \in Uses(option) : k <= m}
TargetTo(m) == {k \in Target : k <= m}

(* v is what the last of the words S gives, NoText if there is none. *)
LastOf(S, v) ==
  \/ S = {} /\ v = NoText
  \/ \E k \in S : (\A j \in S : j <= k) /\ v = GivenValue(k)

(* The options o are what the grammar makes of the first m words, and so   *)
(* is p, whether the target was among them.                                *)
Understood(m, o, p) ==
  /\ \A k \in 1..m : WellFormed(k)
  /\ o.flags = {f \in Flag : UsesTo(f, m) # {}}
  /\ \A f \in ValueOption : LastOf(UsesTo(f, m), o.values[f])
  /\ \/ TargetTo(m) = {} /\ ~p /\ o.target_path = "."
     \/ \E k \in 1..m : /\ TargetTo(m) = {k} /\ p
                        /\ o.target_path = TextOf(argv[k])

(* One word more. *)
LEMMA OneMoreWord ==
  ASSUME CliTypeOK, NEW m \in 0..(Len(argv) - 1), NEW n, n = m + 1
  PROVE  /\ n \in DOMAIN argv /\ Len(argv) \in Nat /\ n \in 1..Len(argv) /\ m \in Nat
         /\ Reading[n] = Reads(Reading[m], argv[n])
         /\ Role[n] = IF Reading[n] \in {"positional", "operand"} THEN "target" ELSE Reading[n]
         /\ \A f : UsesTo(f, n) = UsesTo(f, m) \cup
                     (IF Role[n] \in {"option", "takes value"} /\ FindSpec(argv[n]) = f
                      THEN {n} ELSE {})
         /\ TargetTo(n) = TargetTo(m) \cup (IF Role[n] = "target" THEN {n} ELSE {})
         /\ \A f : \A k \in UsesTo(f, m) : k \in 1..m
         /\ \A k \in TargetTo(m) : k \in 1..m
  <1>1. Len(argv) \in Nat /\ DOMAIN argv = 1..Len(argv)
    BY DEF CliTypeOK
  <1>2. /\ n \in DOMAIN argv /\ n \in 1..Len(argv) /\ m \in Nat
        /\ \A k \in DOMAIN argv : k \in Int /\ k >= 1 /\ (k <= n <=> k <= m \/ k = n)
        /\ \A k \in DOMAIN argv : k <= m => k \in 1..m
    BY <1>1
  <1>3. Reading[n] = Reads(Reading[m], argv[n])
    BY <1>2, ReadingUnfolds
  <1>4. Role[n] = IF Reading[n] \in {"positional", "operand"} THEN "target" ELSE Reading[n]
    BY <1>2 DEF Role
  <1>5. ASSUME NEW f
        PROVE  UsesTo(f, n) = UsesTo(f, m) \cup
                     (IF Role[n] \in {"option", "takes value"} /\ FindSpec(argv[n]) = f
                      THEN {n} ELSE {})
    BY <1>2 DEF UsesTo, Uses
  <1>6. TargetTo(n) = TargetTo(m) \cup (IF Role[n] = "target" THEN {n} ELSE {})
    BY <1>2 DEF TargetTo, Target
  <1>7. \A f : \A k \in UsesTo(f, m) : k \in 1..m
    BY <1>2 DEF UsesTo, Uses
  <1>8. \A k \in TargetTo(m) : k \in 1..m
    BY <1>2 DEF TargetTo, Target
  <1> QED
    BY <1>1, <1>2, <1>3, <1>4, <1>5, <1>6, <1>7, <1>8

(* A word that sets nothing. *)
LEMMA WordPassed ==
  ASSUME CliTypeOK, NEW m \in 0..(Len(argv) - 1), NEW o, NEW p,
         Understood(m, o, p), Role[m+1] \in {"value", "terminator", "unread"}
  PROVE  Understood(m + 1, o, p)
  <1>1. PICK n : n = m + 1
    OBVIOUS
  <1>2. /\ \A f : UsesTo(f, n) = UsesTo(f, m)
        /\ TargetTo(n) = TargetTo(m)
    <2>1. ASSUME NEW f PROVE UsesTo(f, n) = UsesTo(f, m)
      <3>1. Role[n] \notin {"option", "takes value"}
        BY <1>1
      <3>2. UsesTo(f, n) = UsesTo(f, m) \cup {}
        BY <1>1, <3>1, OneMoreWord
      <3> QED
        BY <3>2
    <2>2. TargetTo(n) = TargetTo(m)
      BY <1>1, OneMoreWord
    <2> QED
      BY <2>1, <2>2
  <1>3. WellFormed(n)
    BY <1>1 DEF WellFormed
  <1>4. \A k \in 1..n : k \in 1..m \/ k = n
    BY <1>1
  <1>5. \A k \in 1..m : k \in 1..n
    BY <1>1
  <1>6. Understood(n, o, p)
    BY <1>2, <1>3, <1>4, <1>5 DEF Understood
  <1> QED
    BY <1>1, <1>6

LEMMA FlagRead ==
  ASSUME CliTypeOK, NEW m \in 0..(Len(argv) - 1), NEW o \in ParsedOptions, NEW p,
         Understood(m, o, p), Role[m+1] = "option", WellFormed(m + 1),
         FindSpec(argv[m+1]) \in Flag
  PROVE  Understood(m + 1, [o EXCEPT !.flags = @ \cup {FindSpec(argv[m+1])}], p)
  <1>1. PICK n, g : n = m + 1 /\ g = FindSpec(argv[m+1])
    OBVIOUS
  <1>2. PICK q : q = [o EXCEPT !.flags = @ \cup {g}]
    OBVIOUS
  <1>3. q.flags = o.flags \cup {g} /\ q.values = o.values /\ q.target_path = o.target_path
    BY <1>2 DEF ParsedOptions
  <1>4. /\ \A f : UsesTo(f, n) = UsesTo(f, m) \cup (IF g = f THEN {n} ELSE {})
        /\ TargetTo(n) = TargetTo(m)
    <2>1. ASSUME NEW f PROVE UsesTo(f, n) = UsesTo(f, m) \cup (IF g = f THEN {n} ELSE {})
      BY <1>1, OneMoreWord
    <2>2. TargetTo(n) = TargetTo(m)
      BY <1>1, OneMoreWord
    <2> QED
      BY <2>1, <2>2
  <1>5. /\ \A k \in 1..n : k \in 1..m \/ k = n
        /\ \A k \in 1..m : k \in 1..n
    BY <1>1
  <1>6. g \in Flag /\ Flag \cap ValueOption = {}
    BY <1>1 DEF Flag, ValueOption, ValueType
  <1>7. q.flags = {f \in Flag : UsesTo(f, n) # {}}
    BY <1>3, <1>4, <1>6 DEF Understood
  <1>8. ASSUME NEW f \in ValueOption PROVE LastOf(UsesTo(f, n), q.values[f])
    <2>1. UsesTo(f, n) = UsesTo(f, m) /\ q.values[f] = o.values[f]
      BY <1>3, <1>4, <1>6
    <2> QED
      BY <2>1 DEF Understood
  <1>9. Understood(n, q, p)
    BY <1>1, <1>3, <1>4, <1>5, <1>7, <1>8 DEF Understood
  <1> QED
    BY <1>1, <1>2, <1>9

LEMMA ValueRead ==
  ASSUME CliTypeOK, NEW m \in 0..(Len(argv) - 1), NEW o \in ParsedOptions, NEW p,
         Understood(m, o, p), Role[m+1] \in {"option", "takes value"}, WellFormed(m + 1),
         FindSpec(argv[m+1]) \in ValueOption
  PROVE  Understood(m + 1,
                    [o EXCEPT !.values[FindSpec(argv[m+1])] = GivenValue(m + 1)], p)
  <1>1. PICK n, g, v : n = m + 1 /\ g = FindSpec(argv[m+1]) /\ v = GivenValue(m + 1)
    OBVIOUS
  <1>2. PICK q : q = [o EXCEPT !.values[g] = v]
    OBVIOUS
  <1>3. /\ q.flags = o.flags /\ q.target_path = o.target_path
        /\ q.values = [o.values EXCEPT ![g] = v]
        /\ DOMAIN o.values = ValueOption
    BY <1>2 DEF ParsedOptions
  <1>4. /\ \A f : UsesTo(f, n) = UsesTo(f, m) \cup (IF g = f THEN {n} ELSE {})
        /\ TargetTo(n) = TargetTo(m)
        /\ \A k \in UsesTo(g, m) : k \in 1..m
    <2>1. ASSUME NEW f PROVE UsesTo(f, n) = UsesTo(f, m) \cup (IF g = f THEN {n} ELSE {})
      BY <1>1, OneMoreWord
    <2>2. TargetTo(n) = TargetTo(m)
      BY <1>1, OneMoreWord
    <2>3. \A k \in UsesTo(g, m) : k \in 1..m
      BY OneMoreWord
    <2> QED
      BY <2>1, <2>2, <2>3
  <1>5. /\ \A k \in 1..n : k \in 1..m \/ k = n
        /\ \A k \in 1..m : k \in 1..n /\ k <= n
        /\ n <= n
    <2>1. m \in Nat
      BY OneMoreWord
    <2>2. n = m + 1
      BY <1>1
    <2> QED
      BY ONLY <2>1, <2>2
  <1>6. g \in ValueOption /\ Flag \cap ValueOption = {}
    BY <1>1 DEF Flag, ValueOption, ValueType
  <1>7. q.flags = {f \in Flag : UsesTo(f, n) # {}}
    BY <1>3, <1>4, <1>6 DEF Understood
  <1>8. ASSUME NEW f \in ValueOption PROVE LastOf(UsesTo(f, n), q.values[f])
    <2>1. CASE f = g
      <3>1. q.values[f] = GivenValue(n) /\ n \in UsesTo(f, n)
        BY <1>1, <1>3, <1>4, <1>6, <2>1
      <3>2. \A j \in UsesTo(f, n) : j <= n
        BY <1>4, <1>5, <2>1
      <3> QED
        BY <3>1, <3>2 DEF LastOf
    <2>2. CASE f # g
      <3>1. q.values[f] = o.values[f] /\ UsesTo(f, n) = UsesTo(f, m)
        BY <1>3, <1>4, <1>6, <2>2
      <3> QED
        BY <3>1 DEF Understood
    <2> QED
      BY <2>1, <2>2
  <1>9. Understood(n, q, p)
    BY <1>1, <1>3, <1>4, <1>5, <1>7, <1>8 DEF Understood
  <1> QED
    BY <1>1, <1>2, <1>9

LEMMA TargetRead ==
  ASSUME CliTypeOK, NEW m \in 0..(Len(argv) - 1), NEW o \in ParsedOptions,
         Understood(m, o, FALSE), Role[m+1] = "target"
  PROVE  Understood(m + 1, [o EXCEPT !.target_path = TextOf(argv[m+1])], TRUE)
  <1>1. PICK n : n = m + 1
    OBVIOUS
  <1>2. PICK q : q = [o EXCEPT !.target_path = TextOf(argv[n])]
    OBVIOUS
  <1>3. /\ q.flags = o.flags /\ q.values = o.values
        /\ q.target_path = TextOf(argv[n])
    BY <1>2 DEF ParsedOptions
  <1>4. /\ \A f : UsesTo(f, n) = UsesTo(f, m)
        /\ TargetTo(n) = TargetTo(m) \cup {n}
    <2>1. ASSUME NEW f PROVE UsesTo(f, n) = UsesTo(f, m)
      <3>1. Role[n] \notin {"option", "takes value"}
        BY <1>1
      <3>2. UsesTo(f, n) = UsesTo(f, m) \cup {}
        BY <1>1, <3>1, OneMoreWord
      <3> QED
        BY <3>2
    <2>2. TargetTo(n) = TargetTo(m) \cup {n}
      BY <1>1, OneMoreWord
    <2> QED
      BY <2>1, <2>2
  <1>5. /\ \A k \in 1..n : k \in 1..m \/ k = n
        /\ \A k \in 1..m : k \in 1..n
        /\ n \in 1..n /\ n \in Int
    BY <1>1
  <1>6. TargetTo(m) = {}
    BY DEF Understood
  <1>7. \A j \in Target : j >= n
    <2>1. \A j \in Target : j \in Int
      BY DEF Target, CliTypeOK
    <2> QED
      BY <1>1, <1>6, <2>1 DEF TargetTo
  <1>8. WellFormed(n)
    BY <1>1, <1>7 DEF WellFormed
  <1>9. Understood(n, q, TRUE)
    BY <1>3, <1>4, <1>5, <1>6, <1>8 DEF Understood
  <1> QED
    BY <1>1, <1>2, <1>9

(* Behind the word after "--" nothing is read. *)
LEMMA RestUnread ==
  ASSUME CliTypeOK, NEW m \in 0..Len(argv), NEW o, NEW p,
         Understood(m, o, p), Reading[m] = "operand"
  PROVE  Understood(Len(argv), o, p)
  <1>1. Len(argv) \in Nat
    BY DEF CliTypeOK
  <1> DEFINE T == {d \in Nat : m + d <= Len(argv) =>
                     Understood(m + d, o, p) /\ Reading[m + d] \in {"operand", "unread"}}
  <1>2. 0 \in T
    BY <1>1
  <1>3. ASSUME NEW d \in Nat, d \in T PROVE d + 1 \in T
    <2> SUFFICES ASSUME m + (d + 1) <= Len(argv)
                 PROVE  /\ Understood(m + (d + 1), o, p)
                        /\ Reading[m + (d + 1)] \in {"operand", "unread"}
      OBVIOUS
    <2>1. PICK c : c = m + d
      OBVIOUS
    <2>2. c \in 0..(Len(argv) - 1) /\ c + 1 = m + (d + 1) /\ c <= Len(argv)
      BY <1>1, <2>1
    <2>3. Understood(c, o, p) /\ Reading[c] \in {"operand", "unread"}
      BY <1>3, <2>1, <2>2
    <2>4. Reading[c + 1] = "unread" /\ Role[c + 1] = "unread"
      <3>1. PICK e : e = c + 1
        OBVIOUS
      <3>2. /\ Reading[e] = Reads(Reading[c], argv[e])
            /\ Role[e] = IF Reading[e] \in {"positional", "operand"} THEN "target" ELSE Reading[e]
        BY <2>2, <3>1, OneMoreWord
      <3>3. Reading[e] = "unread"
        BY <2>3, <3>2 DEF Reads
      <3> QED
        BY <3>1, <3>2, <3>3
    <2>5. Understood(c + 1, o, p)
      BY <2>2, <2>3, <2>4, WordPassed
    <2> QED
      BY <2>2, <2>4, <2>5
  <1>4. Nat \subseteq T
    <2> HIDE DEF T
    <2> QED
      BY <1>2, <1>3, SetInduction
  <1>5. Len(argv) - m \in Nat /\ m + (Len(argv) - m) = Len(argv)
    BY <1>1
  <1> QED
    BY <1>1, <1>4, <1>5

(* The word n is not of the grammar, and those before it are. *)
Refusal(n) ==
  /\ ~WellFormed(n) \/ (IsDoubleDash(argv[n]) /\ ~WellFormed(n + 1))
  /\ \A k \in 1..(n-1) : WellFormed(k)

GrammarError == {"UNKNOWN_OPTION", "MISSING_VALUE", "INVALID_VALUE", "INVALID_POSITIONAL"}

ParseInv ==
  /\ pc = "parse" =>
       /\ error = "none"
       /\ Reading[i-1] \in {"start", "value", "option", "positional"}
       /\ Understood(i - 1, opts, positional_set)
  /\ pc = "validate" => Understood(Len(argv), opts, positional_set)
  /\ error \in GrammarError => Refusal(i)

(* The grammar speaks of the words only. *)
LEMMA GrammarStays ==
  ASSUME UNCHANGED argv, NEW n
  PROVE  /\ Reading'[n] = Reading[n]
         /\ Refusal(n)' = Refusal(n)
         /\ \A o, p : Understood(n, o, p)' = Understood(n, o, p)
  <1>1. Reading' = Reading
    BY DEF Reading, Reads, IsDoubleDash, IsOption, FindSpec
  <1>2. Role' = Role /\ Target' = Target
    BY <1>1 DEF Role, Target
  <1>3. \A k : GivenValue(k)' = GivenValue(k)
    BY <1>2 DEF GivenValue, TextOf
  <1>4. ASSUME NEW k PROVE WellFormed(k)' = WellFormed(k)
    <2>1. PICK v : v = GivenValue(k)
      OBVIOUS
    <2>2. GivenValue(k)' = v
      BY <1>3, <2>1
    <2> QED
      BY <1>2, <2>1, <2>2 DEF WellFormed, Legal, FindSpec
  <1>5. \A f : Uses(f)' = Uses(f)
    BY <1>2 DEF Uses, FindSpec
  <1>6. \A f, m : UsesTo(f, m)' = UsesTo(f, m) /\ TargetTo(m)' = TargetTo(m)
    BY <1>2, <1>5 DEF UsesTo, TargetTo
  <1>7. Refusal(n)' = Refusal(n)
    BY <1>4 DEF Refusal, IsDoubleDash
  <1>8. ASSUME NEW o, NEW p PROVE Understood(n, o, p)' = Understood(n, o, p)
    BY <1>3, <1>4, <1>6 DEF Understood, LastOf, TextOf
  <1> QED
    BY <1>1, <1>7, <1>8

LEMMA ValueLegal ==
  ASSUME NEW f \in ValueOption, NEW v \in Text
  PROVE  ValidateValue(ValueType[f], v) /\ SetValueAccepts(f, v) <=> Legal(f, v)
  <1>1. /\ IntegerText \cup DateText \cup SeverityText \subseteq Text \ {""}
        /\ DOMAIN IntOf \subseteq IntegerText
    BY CliAssumption
  <1> QED
    BY <1>1 DEF ValidateValue, SetValueAccepts, Legal, ValueOption, ValueType

(* What the next word is, and how far the parser has understood. *)
LEMMA NextWord ==
  ASSUME CliTypeOK, ParseInv, pc = "parse", InArgv(i), NEW m, m = i - 1
  PROVE  /\ m \in 0..(Len(argv) - 1) /\ i = m + 1 /\ i \in 1..Len(argv) /\ Len(argv) \in Nat
         /\ Understood(m, opts, positional_set) /\ error = "none"
         /\ Reading[i] = IF IsDoubleDash(Arg) THEN "terminator"
                         ELSE IF ~IsOption(Arg) THEN "positional"
                         ELSE IF FindSpec(Arg) \in ValueOption /\ Arg.inline = NoText
                         THEN "takes value" ELSE "option"
         /\ Role[i] = IF Reading[i] = "positional" THEN "target" ELSE Reading[i]
  <1>1. /\ m \in 0..(Len(argv) - 1) /\ i = m + 1 /\ i \in 1..Len(argv) /\ Len(argv) \in Nat
        /\ m + 1 \in 1..Len(argv)
    BY DEF CliTypeOK, InArgv
  <1>2. /\ Understood(m, opts, positional_set) /\ error = "none"
        /\ Reading[m] \in {"start", "value", "option", "positional"}
    BY DEF ParseInv
  <1>3. PICK n : n = m + 1
    OBVIOUS
  <1>4. /\ Reading[n] = Reads(Reading[m], argv[n])
        /\ Role[n] = IF Reading[n] \in {"positional", "operand"} THEN "target" ELSE Reading[n]
    BY <1>1, <1>3, OneMoreWord
  <1>5. Reading[n] = IF IsDoubleDash(argv[n]) THEN "terminator"
                     ELSE IF ~IsOption(argv[n]) THEN "positional"
                     ELSE IF FindSpec(argv[n]) \in ValueOption /\ argv[n].inline = NoText
                     THEN "takes value" ELSE "option"
    BY <1>2, <1>4 DEF Reads
  <1>6. Role[n] = IF Reading[n] = "positional" THEN "target" ELSE Reading[n]
    BY <1>4, <1>5
  <1> QED
    BY <1>1, <1>2, <1>3, <1>5, <1>6 DEF Arg

LEMMA RefusalStep ==
  ASSUME CliTypeOK, ParseInv, pc = "parse", InArgv(i), NEW code, Reject(code),
         ~WellFormed(i) \/ (IsDoubleDash(Arg) /\ ~WellFormed(i + 1))
  PROVE  ParseInv'
  <1>1. PICK n : n = i
    OBVIOUS
  <1>2. \A k \in 1..(n-1) : WellFormed(k)
    BY <1>1, NextWord DEF Understood
  <1>3. Refusal(n)
    BY <1>1, <1>2 DEF Refusal, Arg
  <1>4. Refusal(n)'
    BY <1>3, GrammarStays DEF Reject
  <1>5. i' = n /\ pc' = "exit_2"
    BY <1>1 DEF Reject
  <1> QED
    BY <1>4, <1>5 DEF ParseInv

(* The parser goes on with what it has understood up to the word n. *)
LEMMA WordStep ==
  ASSUME ParseInv, pc = "parse", UNCHANGED <<argv, error, pc>>,
         NEW n, i' = n + 1, n \in Nat, NEW o, o = opts', NEW p, p = positional_set',
         Understood(n, o, p), Reading[n] \in {"start", "value", "option", "positional"}
  PROVE  ParseInv'
  <1>1. Understood(n, o, p)' /\ Reading'[n] = Reading[n]
    BY GrammarStays
  <1>2. i' - 1 = n /\ error' = "none"
    BY DEF ParseInv
  <1> QED
    BY <1>1, <1>2 DEF ParseInv, GrammarError

LEMMA ParsedStep ==
  ASSUME ParseInv, pc = "parse", pc' = "validate", UNCHANGED <<argv, error>>,
         NEW n, n = Len(argv), NEW o, o = opts', NEW p, p = positional_set',
         Understood(n, o, p)
  PROVE  ParseInv'
  <1>1. Understood(n, o, p)'
    BY GrammarStays
  <1>2. Len(argv)' = n /\ error' = "none"
    BY DEF ParseInv
  <1> QED
    BY <1>1, <1>2 DEF ParseInv, GrammarError

LEMMA ParseDoubleDash == CliTypeOK /\ ParseInv /\ HandleDoubleDash => ParseInv'
  <1> SUFFICES ASSUME CliTypeOK, ParseInv, HandleDoubleDash PROVE ParseInv'
    OBVIOUS
  <1>1. pc = "parse" /\ InArgv(i) /\ IsDoubleDash(Arg)
    BY DEF HandleDoubleDash
  <1>2. PICK m : m = i - 1
    OBVIOUS
  <1>3. /\ m \in 0..(Len(argv) - 1) /\ i = m + 1 /\ i \in 1..Len(argv) /\ Len(argv) \in Nat
        /\ Understood(m, opts, positional_set)
        /\ Reading[i] = "terminator" /\ Role[i] = "terminator"
    BY <1>1, <1>2, NextWord
  <1>4. Understood(i, opts, positional_set)
    BY <1>3, WordPassed
  <1>5. opts \in ParsedOptions /\ positional_set \in BOOLEAN
    BY DEF CliTypeOK
  <1>6. CASE InArgv(i + 1)
    <2>1. PICK n : n = i + 1
      OBVIOUS
    <2>2. i \in 0..(Len(argv) - 1) /\ n \in 0..Len(argv) /\ n \in 1..Len(argv)
      BY <1>3, <1>6, <2>1 DEF InArgv
    <2>3. Reading[n] = "operand" /\ Role[n] = "target" /\ n \in DOMAIN argv
      BY <1>3, <2>1, <2>2, OneMoreWord DEF Reads
    <2>4. CASE positional_set
      <3>1. PICK k \in 1..i : TargetTo(i) = {k}
        BY <1>4, <2>4 DEF Understood
      <3>2. k \in Target /\ n \in Target /\ k < n
        BY <1>3, <2>1, <2>3, <3>1 DEF TargetTo, Target
      <3>3. ~WellFormed(n)
        <4>1. k \in Nat /\ n \in Nat
          BY <1>3, <2>2, <3>1
        <4>2. ~(k >= n)
          BY ONLY <3>2, <4>1
        <4> QED
          BY <2>3, <3>2, <4>2 DEF WellFormed
      <3>4. Reject("INVALID_POSITIONAL")
        BY <1>6, <2>4 DEF HandleDoubleDash
      <3> QED
        BY <1>1, <2>1, <3>3, <3>4, RefusalStep
    <2>5. CASE ~positional_set
      <3>1. PICK o : o = [opts EXCEPT !.target_path = TextOf(argv[n])]
        OBVIOUS
      <3>2. Understood(i, opts, FALSE)
        BY <1>4, <1>5, <2>5
      <3>3. Understood(n, o, TRUE)
        BY <1>5, <2>1, <2>2, <2>3, <3>1, <3>2, TargetRead
      <3>4. Understood(Len(argv), o, TRUE)
        BY <2>2, <2>3, <3>3, RestUnread
      <3>5. /\ pc' = "validate" /\ UNCHANGED <<argv, error>>
            /\ o = opts' /\ positional_set' = TRUE
        BY <1>6, <2>1, <2>5, <3>1 DEF HandleDoubleDash
      <3> QED
        BY <1>1, <3>4, <3>5, ParsedStep
    <2> QED
      BY <1>5, <2>4, <2>5
  <1>7. CASE ~InArgv(i + 1)
    <2>1. i = Len(argv)
      BY <1>3, <1>7 DEF InArgv
    <2>2. pc' = "validate" /\ UNCHANGED <<argv, error, opts, positional_set>>
      BY <1>7 DEF HandleDoubleDash
    <2> QED
      BY <1>1, <1>4, <2>1, <2>2, ParsedStep
  <1> QED
    BY <1>6, <1>7

LEMMA ParseUnknown == CliTypeOK /\ ParseInv /\ HandleUnknown => ParseInv'
  <1> SUFFICES ASSUME CliTypeOK, ParseInv, HandleUnknown PROVE ParseInv'
    OBVIOUS
  <1>1. /\ pc = "parse" /\ InArgv(i) /\ IsOption(Arg) /\ FindSpec(Arg) = NoText
        /\ Reject("UNKNOWN_OPTION")
    BY DEF HandleUnknown
  <1>2. NoText \notin Flag /\ NoText \notin ValueOption
    BY CliAssumption DEF Text, Option
  <1>3. Role[i] = "option"
    BY <1>1, <1>2, NextWord DEF IsOption
  <1>4. ~WellFormed(i)
    BY <1>1, <1>2, <1>3 DEF WellFormed, Arg
  <1> QED
    BY <1>1, <1>4, RefusalStep

LEMMA ParseFlag == CliTypeOK /\ ParseInv /\ HandleFlag => ParseInv'
  <1> SUFFICES ASSUME CliTypeOK, ParseInv, HandleFlag PROVE ParseInv'
    OBVIOUS
  <1>1. pc = "parse" /\ InArgv(i) /\ IsOption(Arg) /\ FindSpec(Arg) \in Flag
    BY DEF HandleFlag
  <1>2. FindSpec(Arg) \notin ValueOption
    BY <1>1 DEF Flag, ValueOption, ValueType
  <1>3. PICK m : m = i - 1
    OBVIOUS
  <1>4. /\ m \in 0..(Len(argv) - 1) /\ i = m + 1 /\ i \in 1..Len(argv) /\ Len(argv) \in Nat
        /\ Understood(m, opts, positional_set)
        /\ Reading[i] = "option" /\ Role[i] = "option"
    BY <1>1, <1>2, <1>3, NextWord DEF IsOption
  <1>5. CASE Arg.inline # NoText
    <2>1. ~WellFormed(i)
      BY <1>2, <1>4, <1>5 DEF WellFormed, Arg
    <2>2. Reject("INVALID_VALUE")
      BY <1>5 DEF HandleFlag
    <2> QED
      BY <1>1, <2>1, <2>2, RefusalStep
  <1>6. CASE Arg.inline = NoText
    <2>1. WellFormed(i)
      BY <1>1, <1>4, <1>6 DEF WellFormed, Arg
    <2>2. PICK o : o = [opts EXCEPT !.flags = @ \cup {FindSpec(argv[m+1])}]
      OBVIOUS
    <2>3. opts \in ParsedOptions /\ FindSpec(argv[m+1]) \in Flag
      BY <1>1, <1>4 DEF CliTypeOK, Arg
    <2>4. Understood(i, o, positional_set)
      BY <1>4, <2>1, <2>2, <2>3, FlagRead
    <2>5. /\ o = opts' /\ i' = i + 1
          /\ UNCHANGED <<argv, positional_set, error, pc>>
      BY <1>4, <1>6, <2>2 DEF HandleFlag, Arg
    <2>6. PICK n, p : n = i /\ p = positional_set
      OBVIOUS
    <2>7. i' = n + 1 /\ Reading[n] = "option" /\ n \in Nat /\ p = positional_set'
      BY <1>4, <2>5, <2>6
    <2>8. Understood(n, o, p)
      BY <2>4, <2>6
    <2> QED
      BY <1>1, <2>5, <2>7, <2>8, WordStep
  <1> QED
    BY <1>5, <1>6

LEMMA ParseValue == CliTypeOK /\ ParseInv /\ HandleValue => ParseInv'
  <1> SUFFICES ASSUME CliTypeOK, ParseInv, HandleValue PROVE ParseInv'
    OBVIOUS
  <1>1. pc = "parse" /\ InArgv(i) /\ IsOption(Arg) /\ FindSpec(Arg) \in ValueOption
    BY DEF HandleValue
  <1>2. PICK m, f : m = i - 1 /\ f = FindSpec(Arg)
    OBVIOUS
  <1>3. /\ m \in 0..(Len(argv) - 1) /\ i = m + 1 /\ i \in 1..Len(argv) /\ Len(argv) \in Nat
        /\ Understood(m, opts, positional_set)
        /\ Reading[i] = (IF Arg.inline = NoText THEN "takes value" ELSE "option")
        /\ Role[i] = Reading[i]
    BY <1>1, <1>2, NextWord DEF IsOption
  <1>4. f \in ValueOption /\ f \notin Flag /\ f = FindSpec(argv[i])
    BY <1>1, <1>2 DEF Flag, ValueOption, ValueType, Arg
  <1>9. i \in Nat /\ Len(argv) \in Nat
    BY DEF CliTypeOK
  <1>5. CASE Arg.inline = NoText /\ ~InArgv(i + 1)
    <2>1. ~(i < Len(argv))
      <3>1. ~(i + 1 <= Len(argv))
        BY <1>5 DEF InArgv
      <3> QED
        BY ONLY <1>9, <3>1
    <2>2. ~WellFormed(i)
      BY <1>3, <1>5, <2>1 DEF WellFormed
    <2>3. Reject("MISSING_VALUE")
      BY <1>5 DEF HandleValue
    <2> QED
      BY <1>1, <2>2, <2>3, RefusalStep
  <1>6. CASE Arg.inline # NoText \/ InArgv(i + 1)
    <2>1. PICK v : v = IF Arg.inline # NoText THEN Arg.inline ELSE TextOf(argv[i + 1])
      OBVIOUS
    <2>2. v \in Text
      <3>1. Arg.inline \in Text \cup {NoText}
        BY <1>3, WordTexts DEF Arg
      <3>2. ASSUME InArgv(i + 1) PROVE TextOf(argv[i + 1]) \in Text
        <4>1. PICK n : n = i + 1
          OBVIOUS
        <4>2. n <= Len(argv)
          BY <3>2, <4>1 DEF InArgv
        <4>3. n \in 1..Len(argv)
          BY ONLY <1>9, <4>1, <4>2
        <4> QED
          BY <4>1, <4>3, WordTexts
      <3> QED
        BY <1>6, <2>1, <3>1, <3>2
    <2>3. GivenValue(i) = v
      BY <1>3, <2>1 DEF GivenValue, Arg
    <2>4. i < Len(argv) \/ Role[i] = "option"
      <3>1. CASE Arg.inline # NoText
        BY <1>3, <3>1
      <3>2. CASE InArgv(i + 1)
        <4>1. i + 1 <= Len(argv)
          BY <3>2 DEF InArgv
        <4>2. i < Len(argv)
          BY ONLY <1>9, <4>1
        <4> QED
          BY <4>2
      <3> QED
        BY <1>6, <3>1, <3>2
    <2>5. WellFormed(i) <=> Legal(f, v)
      BY <1>3, <1>4, <2>3, <2>4 DEF WellFormed
    <2>6. CASE ~Legal(f, v)
      <3>1. ~ValidateValue(ValueType[f], v) \/ ~SetValueAccepts(f, v)
        BY <1>4, <2>2, <2>6, ValueLegal
      <3>2. Reject("INVALID_VALUE")
        BY <1>2, <1>6, <2>1, <3>1 DEF HandleValue
      <3> QED
        BY <1>1, <2>5, <2>6, <3>2, RefusalStep
    <2>7. CASE Legal(f, v)
      <3>1. ValidateValue(ValueType[f], v) /\ SetValueAccepts(f, v)
        BY <1>4, <2>2, <2>7, ValueLegal
      <3>2. PICK o : o = [opts EXCEPT !.values[f] = v]
        OBVIOUS
      <3>3. /\ o = opts' /\ UNCHANGED <<argv, positional_set, error, pc>>
            /\ i' = IF Arg.inline # NoText THEN i + 1 ELSE i + 2
        BY <1>2, <1>6, <2>1, <3>1, <3>2 DEF HandleValue
      <3>4. opts \in ParsedOptions
        BY DEF CliTypeOK
      <3>5. Understood(i, o, positional_set)
        BY <1>3, <1>4, <2>3, <2>5, <2>7, <3>2, <3>4, ValueRead
      <3>6. CASE Arg.inline # NoText
        <4>1. PICK n, p : n = i /\ p = positional_set
          OBVIOUS
        <4>2. i' = n + 1 /\ Reading[n] = "option" /\ n \in Nat /\ p = positional_set'
          BY <1>3, <3>3, <3>6, <4>1
        <4>3. Understood(n, o, p)
          BY <3>5, <4>1
        <4> QED
          BY <1>1, <3>3, <4>2, <4>3, WordStep
      <3>7. CASE Arg.inline = NoText
        <4>1. PICK n : n = i + 1
          OBVIOUS
        <4>2. i \in 0..(Len(argv) - 1) /\ n \in Nat /\ i' = n + 1
          <5>1. i + 1 <= Len(argv)
            BY <1>6, <3>7 DEF InArgv
          <5>2. i \in 0..(Len(argv) - 1) /\ i + 1 \in Nat /\ i + 2 = (i + 1) + 1
            BY ONLY <1>9, <5>1
          <5>3. i' = i + 2
            BY <3>3, <3>7
          <5> QED
            BY <4>1, <5>2, <5>3
        <4>3. Reading[i] = "takes value"
          BY <1>3, <3>7
        <4>4. /\ Reading[n] = Reads(Reading[i], argv[n])
              /\ Role[n] = IF Reading[n] \in {"positional", "operand"} THEN "target"
                           ELSE Reading[n]
          BY <4>1, <4>2, OneMoreWord
        <4>5. Reading[n] = "value"
          BY <4>3, <4>4 DEF Reads
        <4>6. Role[n] = "value"
          BY <4>4, <4>5
        <4>7. PICK p : p = positional_set
          OBVIOUS
        <4>8. Understood(n, o, p)
          BY <3>5, <4>1, <4>2, <4>6, <4>7, WordPassed
        <4>9. p = positional_set'
          BY <3>3, <4>7
        <4> QED
          BY <1>1, <3>3, <4>2, <4>5, <4>8, <4>9, WordStep
      <3> QED
        BY <3>6, <3>7
    <2> QED
      BY <2>6, <2>7
  <1> QED
    BY <1>5, <1>6

LEMMA ParsePositional == CliTypeOK /\ ParseInv /\ HandlePositional => ParseInv'
  <1> SUFFICES ASSUME CliTypeOK, ParseInv, HandlePositional PROVE ParseInv'
    OBVIOUS
  <1>1. pc = "parse" /\ InArgv(i) /\ ~IsDoubleDash(Arg) /\ ~IsOption(Arg)
    BY DEF HandlePositional
  <1>2. PICK m : m = i - 1
    OBVIOUS
  <1>3. /\ m \in 0..(Len(argv) - 1) /\ i = m + 1 /\ i \in 1..Len(argv) /\ Len(argv) \in Nat
        /\ Understood(m, opts, positional_set)
        /\ Reading[i] = "positional" /\ Role[i] = "target"
    BY <1>1, <1>2, NextWord
  <1>4. opts \in ParsedOptions /\ positional_set \in BOOLEAN /\ DOMAIN argv = 1..Len(argv)
    BY DEF CliTypeOK
  <1>5. CASE positional_set
    <2>1. PICK k \in 1..m : TargetTo(m) = {k}
      BY <1>3, <1>5 DEF Understood
    <2>2. k \in Target /\ k < i
      BY <1>3, <2>1 DEF TargetTo
    <2>3. ~WellFormed(i)
      BY <1>3, <2>2 DEF WellFormed
    <2>4. Reject("INVALID_POSITIONAL")
      BY <1>5 DEF HandlePositional
    <2> QED
      BY <1>1, <2>3, <2>4, RefusalStep
  <1>6. CASE ~positional_set
    <2>1. PICK o : o = [opts EXCEPT !.target_path = TextOf(argv[m+1])]
      OBVIOUS
    <2>2. Understood(m, opts, FALSE)
      BY <1>3, <1>4, <1>6
    <2>3. Understood(i, o, TRUE)
      BY <1>3, <1>4, <2>1, <2>2, TargetRead
    <2>4. /\ o = opts' /\ i' = i + 1 /\ positional_set' = TRUE
          /\ UNCHANGED <<argv, error, pc>>
      BY <1>3, <1>6, <2>1 DEF HandlePositional, Arg
    <2>5. PICK n, p : n = i /\ p = TRUE
      OBVIOUS
    <2>6. i' = n + 1 /\ Reading[n] = "positional" /\ n \in Nat /\ p = positional_set'
      BY <1>3, <2>4, <2>5
    <2>7. Understood(n, o, p)
      BY <2>3, <2>5
    <2> QED
      BY <1>1, <2>4, <2>6, <2>7, WordStep
  <1> QED
    BY <1>4, <1>5, <1>6

LEMMA ParseInvInit == CliInit => ParseInv
  <1> SUFFICES ASSUME CliInit PROVE ParseInv
    OBVIOUS
  <1>1. CliTypeOK
    BY CliInitInv DEF CliInv
  <1>2. \A k \in DOMAIN argv : ~(k <= 0)
    <2>1. DOMAIN argv = 1..Len(argv) /\ Len(argv) \in Nat
      BY <1>1 DEF CliTypeOK
    <2> QED
      BY ONLY <2>1
  <1>3. /\ \A f : UsesTo(f, 0) = {}
        /\ TargetTo(0) = {}
    <2>1. ASSUME NEW f PROVE UsesTo(f, 0) = {}
      BY <1>2 DEF UsesTo, Uses
    <2>2. TargetTo(0) = {}
      BY <1>2 DEF TargetTo, Target
    <2> QED
      BY <2>1, <2>2
  <1>4. Understood(0, DefaultOptions, FALSE)
    BY <1>3 DEF Understood, LastOf, DefaultOptions
  <1>5. i - 1 = 0 /\ opts = DefaultOptions /\ positional_set = FALSE /\ pc = "parse"
        /\ error = "none"
    BY DEF CliInit
  <1> QED
    BY <1>4, <1>5, ReadingUnfolds DEF ParseInv, GrammarError

LEMMA ParseInvStep == CliTypeOK /\ ParseInv /\ [CliNext]_vars => ParseInv'
  <1> SUFFICES ASSUME CliTypeOK, ParseInv, [CliNext]_vars PROVE ParseInv'
    OBVIOUS
  <1>1. CASE ParseEnds
    <2>1. pc = "parse" /\ pc' = "validate" /\ UNCHANGED <<argv, error, opts, positional_set>>
      BY <1>1 DEF ParseEnds
    <2>2. i - 1 = Len(argv)
      BY <1>1 DEF ParseEnds, InArgv, CliTypeOK
    <2>3. Understood(Len(argv), opts, positional_set)
      BY <2>1, <2>2 DEF ParseInv
    <2> QED
      BY <2>1, <2>3, ParsedStep
  <1>2. CASE Validate \/ SpecialOption \/ ToScanOptions
    <2>1. /\ pc' \notin {"parse", "validate"} /\ UNCHANGED <<argv, i>>
          /\ error' = error \/ error' \notin GrammarError
      BY <1>2 DEF Validate, SpecialOption, ToScanOptions, Reject, GrammarError
    <2>2. PICK n : n = i
      OBVIOUS
    <2>3. Refusal(n)' = Refusal(n) /\ i' = n
      BY <2>1, <2>2, GrammarStays
    <2> QED
      BY <2>1, <2>2, <2>3 DEF ParseInv
  <1>3. CASE UNCHANGED vars
    <2>1. PICK n, m, l, o, p : /\ n = i /\ m = i - 1 /\ l = Len(argv)
                               /\ o = opts /\ p = positional_set
      OBVIOUS
    <2>2. UNCHANGED argv
      BY <1>3 DEF vars
    <2>3. Refusal(n)' = Refusal(n)
      BY <2>2, GrammarStays
    <2>4. Reading'[m] = Reading[m] /\ Understood(m, o, p)' = Understood(m, o, p)
      BY <2>2, GrammarStays
    <2>5. Understood(l, o, p)' = Understood(l, o, p)
      BY <2>2, GrammarStays
    <2>6. i' = n /\ i' - 1 = m /\ Len(argv') = l /\ opts' = o /\ positional_set' = p
          /\ UNCHANGED <<pc, error>>
      BY <1>3, <2>1 DEF vars
    <2> QED
      BY <2>1, <2>3, <2>4, <2>5, <2>6 DEF ParseInv
  <1> QED
    BY <1>1, <1>2, <1>3, ParseDoubleDash, ParseUnknown, ParseFlag, ParseValue,
       ParsePositional DEF CliNext, CliDone

(* For every command line: what parse accepts is in the grammar and means  *)
(* what the grammar says, and what it refuses is not in the grammar.       *)
THEOREM ParserIsGrammar == CliSpec => []ParserMatchesGrammar
  <1>1. CliTypeOK /\ ParseInv => ParserMatchesGrammar
    <2> SUFFICES ASSUME CliTypeOK, ParseInv PROVE ParserMatchesGrammar
      OBVIOUS
    <2>1. ASSUME error \in GrammarError PROVE Refusal(i)
      BY <2>1 DEF ParseInv
    <2>2. ASSUME pc = "validate"
          PROVE  /\ \A k \in DOMAIN argv : WellFormed(k)
                 /\ opts.flags = {o \in Flag : Uses(o) # {}}
                 /\ \A o \in ValueOption :
                      opts.values[o] = IF Uses(o) = {} THEN NoText
                                       ELSE GivenValue(CHOOSE k \in Uses(o) :
                                                         \A j \in Uses(o) : j <= k)
                 /\ opts.target_path = IF Target = {} THEN "."
                                       ELSE TextOf(argv[CHOOSE k \in Target : TRUE])
      <3>1. Understood(Len(argv), opts, positional_set)
        BY <2>2 DEF ParseInv
      <3>2. DOMAIN argv = 1..Len(argv) /\ Len(argv) \in Nat
        BY DEF CliTypeOK
      <3>9. \A k \in DOMAIN argv : k \in Nat /\ k <= Len(argv)
        BY ONLY <3>2
      <3>3. ASSUME NEW f PROVE UsesTo(f, Len(argv)) = Uses(f) /\ Uses(f) \subseteq Nat
        BY <3>9 DEF UsesTo, Uses
      <3>4. TargetTo(Len(argv)) = Target
        BY <3>9 DEF TargetTo, Target
      <3>5. \A k \in DOMAIN argv : WellFormed(k)
        BY <3>1, <3>2 DEF Understood
      <3>6. opts.flags = {o \in Flag : Uses(o) # {}}
        BY <3>1, <3>3 DEF Understood
      <3>7. ASSUME NEW o \in ValueOption
            PROVE  opts.values[o] = IF Uses(o) = {} THEN NoText
                                    ELSE GivenValue(CHOOSE k \in Uses(o) :
                                                      \A j \in Uses(o) : j <= k)
        <4>1. LastOf(Uses(o), opts.values[o])
          BY <3>1, <3>3 DEF Understood
        <4>2. ASSUME NEW k \in Uses(o), \A j \in Uses(o) : j <= k
              PROVE  k = CHOOSE h \in Uses(o) : \A j \in Uses(o) : j <= h
          BY <3>3, <4>2
        <4> QED
          BY <4>1, <4>2 DEF LastOf
      <3>8. opts.target_path = IF Target = {} THEN "."
                               ELSE TextOf(argv[CHOOSE k \in Target : TRUE])
        <4>1. \/ Target = {} /\ opts.target_path = "."
              \/ \E k : Target = {k} /\ opts.target_path = TextOf(argv[k])
          BY <3>1, <3>4 DEF Understood
        <4>2. ASSUME NEW k, Target = {k} PROVE k = CHOOSE h \in Target : TRUE
          BY <4>2
        <4> QED
          BY <4>1, <4>2
      <3> QED
        BY <3>5, <3>6, <3>7, <3>8
    <2> QED
      BY <2>1, <2>2 DEF ParserMatchesGrammar, Refusal, GrammarError, Arg
  <1>2. CliTypeOK /\ ParseInv /\ [CliNext]_vars => ParseInv'
    BY ParseInvStep
  <1>3. CliInit => ParseInv
    BY ParseInvInit
  <1> QED
    BY <1>1, <1>2, <1>3, CliTypeCorrect, PTL DEF CliSpec
=============================================================================
