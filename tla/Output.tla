------------------------------- MODULE Output -------------------------------
(***************************************************************************)
(* process_output (src/cli/adapter/output_processor.cpp) with the          *)
(* operations of src/cli/spec/cli_spec_definition.cpp, and the rows that   *)
(* render_report prints: filter, sort, reverse, render, one action each.   *)
(* Names, extensions and times are numbers, in their order; a finding is   *)
(* an id of the registry.                                                  *)
(***************************************************************************)
EXTENDS Findings

CONSTANTS
  Inputs,     (* the sequences of items process_output may be given        *)
  Choices,    (* the options it may be given                               *)
  Matches,    (* Matches[p]: the names fnmatch finds to match pattern p    *)
  Absent      (* an option not given                                       *)

FileTypeDirectory == 4

Criterion == {"name", "size", "type", "modified", "ext"}

(* What the pipeline looks at of an AuditEntry. *)
Item == [path : Int, name : Int, ext : Int, type : Int, size : Int, mtime : Int,
         findings : SUBSET Registered]

(* The texts is_valid_date lets through end with the day. *)
DateText == [cutoff : Int, tail : {""}]

ASSUME OutputAssumption ==
  /\ Absent \notin Criterion
  /\ \A s \in Inputs :
       /\ s \in Seq(Item)
       /\ \A j, k \in DOMAIN s : s[j].path = s[k].path => j = k
  /\ \A o \in Choices :
       /\ o.filter \in DOMAIN Matches \cup {Absent}
       /\ o.min_severity \in (Level \ {0}) \cup {Absent}
       /\ {o.modified_before, o.modified_after} \subseteq DateText \cup {Absent}

VARIABLES
  discovered, (* the items in the order the scanner found them             *)
  opts,
  items,      (* output.items                                              *)
  report,     (* the rows printed                                          *)
  phase

vars == <<discovered, opts, items, report, phase>>

Init ==
  /\ discovered \in Inputs
  /\ opts \in Choices
  /\ items = discovered
  /\ report = <<>>
  /\ phase = "filter"

---------------------------------------------------------------------------

Given(option) == option # Absent

(* The elements of s at the positions K, in the order R of positions. *)
Arranged(s, K, R) ==
  LET Rank(k) == Cardinality({j \in K : <<j, k>> \in R})
  IN [r \in 1..Cardinality(K) |-> s[CHOOSE k \in K : Rank(k) = r]]

Upwards(s) == {p \in (DOMAIN s) \X (DOMAIN s) : p[1] <= p[2]}

(* std::erase_if: the others stay in the order they were in. *)
EraseIf(s, Bad(_)) == Arranged(s, {k \in DOMAIN s : ~Bad(s[k])}, Upwards(s))

HasFindings(item) == item.findings # {}

(* parse_date wants one more '-' after the day (line 41). *)
ParseDate(date) == IF date.tail = "-" THEN date.cutoff ELSE Absent

ApplyFilter(s, pattern) == EraseIf(s, LAMBDA x : x.name \notin Matches[pattern])

(* Mutant: the threshold itself is dropped. *)
BelowOrAt(id, level) == id \in Registered /\ LevelOf[id] <= level

Below(id, level) == id \in Registered /\ LevelOf[id] < level

ApplyMinSeverity(s, level) ==
  LET pruned == [k \in DOMAIN s |->
                   [s[k] EXCEPT !.findings = {id \in @ : ~Below(id, level)}]]
  IN EraseIf(pruned, LAMBDA x : ~HasFindings(x))

ApplyModifiedBefore(s, date) ==
  LET cutoff == ParseDate(date)
  IN IF cutoff = Absent THEN s ELSE EraseIf(s, LAMBDA x : x.mtime >= cutoff)

ApplyModifiedAfter(s, date) ==
  LET cutoff == ParseDate(date)
  IN IF cutoff = Absent THEN s ELSE EraseIf(s, LAMBDA x : x.mtime <= cutoff)

ApplyOnlyFindings(s) == EraseIf(s, LAMBDA x : ~HasFindings(x))

(* std::ranges::stable_sort: what is less comes first, or level and earlier. *)
StableSort(s, Less(_, _)) ==
  Arranged(s, DOMAIN s,
           {p \in (DOMAIN s) \X (DOMAIN s) :
              \/ Less(s[p[1]], s[p[2]])
              \/ p[1] <= p[2] /\ ~Less(s[p[2]], s[p[1]])})

(* Mutant: --sort size leaves ties as they were found. *)
SizeOnly(criterion, a, b) ==
  LET Pair(x, y) == x < y \/ (x = y /\ a.name < b.name)
  IN CASE criterion = "name"     -> a.name < b.name
       [] criterion = "size"     -> b.size < a.size
       [] criterion = "type"     -> Pair(a.type, b.type)
       [] criterion = "modified" -> Pair(a.mtime, b.mtime)
       [] criterion = "ext"      -> Pair(a.ext, b.ext)

(* The comparators of apply_sort: std::tie(key, name), size descending. *)
SortLess(criterion, a, b) ==
  LET Pair(x, y) == x < y \/ (x = y /\ a.name < b.name)
  IN CASE criterion = "name"     -> a.name < b.name
       [] criterion = "size"     -> Pair(b.size, a.size)
       [] criterion = "type"     -> Pair(a.type, b.type)
       [] criterion = "modified" -> Pair(a.mtime, b.mtime)
       [] criterion = "ext"      -> Pair(a.ext, b.ext)

(* Any other criterion, "findings" included, sorts nothing. *)
ApplySort(s, criterion) ==
  IF criterion \in Criterion
  THEN StableSort(s, LAMBDA a, b : SortLess(criterion, a, b)) ELSE s

IsDirectory(item) == item.type = FileTypeDirectory

ApplyDirsFirst(s) ==
  StableSort(s, LAMBDA a, b :
    IF IsDirectory(a) # IsDirectory(b) THEN IsDirectory(a) ELSE a.name < b.name)

(* Mutant: the severities are not compared. *)
ApplyFindingsFirstOnly(s) ==
  StableSort(s, LAMBDA a, b : HasFindings(a) /\ ~HasFindings(b))

ApplyFindingsFirst(s) ==
  StableSort(s, LAMBDA a, b :
    IF HasFindings(a) # HasFindings(b) THEN HasFindings(a)
    ELSE MaxSeverity(a.findings) > MaxSeverity(b.findings))

Reversed(s) == [k \in DOMAIN s |-> s[Len(s) + 1 - k]]

(* The three phases of process_output, each option in its turn. *)
FilterPhase(s, o) ==
  LET s1 == IF Given(o.filter) THEN ApplyFilter(s, o.filter) ELSE s
      s2 == IF Given(o.min_severity) THEN ApplyMinSeverity(s1, o.min_severity) ELSE s1
      s3 == IF Given(o.modified_before)
            THEN ApplyModifiedBefore(s2, o.modified_before) ELSE s2
      s4 == IF Given(o.modified_after)
            THEN ApplyModifiedAfter(s3, o.modified_after) ELSE s3
  IN IF o.only_findings THEN ApplyOnlyFindings(s4) ELSE s4

SortPhase(s, o) ==
  LET s1 == IF Given(o.sort) THEN ApplySort(s, o.sort) ELSE s
      s2 == IF o.dirs_first THEN ApplyDirsFirst(s1) ELSE s1
  IN IF o.findings_first THEN ApplyFindingsFirst(s2) ELSE s2

ReversePhase(s, o) == IF o.reverse THEN Reversed(s) ELSE s

(* A row of the report: of two files of one name it shows no path. *)
Row(item) == [name     |-> item.name,
              type     |-> item.type,
              mtime    |-> item.mtime,
              severity |-> MaxSeverity(item.findings),
              findings |-> item.findings]

Filter ==
  /\ phase = "filter"
  /\ items' = FilterPhase(items, opts)
  /\ phase' = "sort"
  /\ UNCHANGED <<discovered, opts, report>>

Sort ==
  /\ phase = "sort"
  /\ items' = SortPhase(items, opts)
  /\ phase' = "reverse"
  /\ UNCHANGED <<discovered, opts, report>>

ReverseItems ==
  /\ phase = "reverse"
  /\ items' = ReversePhase(items, opts)
  /\ phase' = "render"
  /\ UNCHANGED <<discovered, opts, report>>

Render ==
  /\ phase = "render"
  /\ report' = [k \in DOMAIN items |-> Row(items[k])]
  /\ phase' = "done"
  /\ UNCHANGED <<discovered, opts, items>>

OutputDone == phase = "done" /\ UNCHANGED vars

Next == Filter \/ Sort \/ ReverseItems \/ Render \/ OutputDone

Spec == Init /\ [][Next]_vars

---------------------------------------------------------------------------

Paths(s) == {s[k].path : k \in DOMAIN s}
Found(path) == discovered[CHOOSE k \in DOMAIN discovered : discovered[k].path = path]

(* No filter loses a finding that was asked for or keeps one that was not: *)
(* an item is shown when its name matches and it has a finding that        *)
(* --min-severity, or --only-findings, wants, and then with the worst      *)
(* severity it was found with.  (Dates: see OptionsHonoured.)              *)
WantedFindingsShown ==
  phase = "done" /\ ~Given(opts.modified_before) /\ ~Given(opts.modified_after) =>
    LET Wanted(x) == {id \in x.findings :
                        \/ ~Given(opts.min_severity)
                        \/ LevelOfId(id) >= opts.min_severity}
    IN /\ \A path \in Paths(discovered) :
            path \in Paths(items) <=>
              /\ Given(opts.filter) => Found(path).name \in Matches[opts.filter]
              /\ Given(opts.min_severity) \/ opts.only_findings =>
                   Wanted(Found(path)) # {}
       /\ \A k \in DOMAIN items :
            /\ items[k].findings = Wanted(Found(items[k].path))
            /\ report[k].severity = MaxSeverity(Found(items[k].path).findings)

(* Three stable sorts one after the other make one order: findings and     *)
(* severity, then directories and names, then --sort, then the order of    *)
(* discovery, and --reverse is that order read backwards.  (The criterion  *)
(* findings: see OptionsHonoured.)                                         *)
SortsCompose ==
  phase = "done" /\ opts.sort \in Criterion \cup {Absent} =>
    LET forward == ReversePhase(items, opts)
        Place(x) == CHOOSE k \in DOMAIN discovered : discovered[k].path = x.path
        Sorted(x) == CASE opts.sort = "name"     -> x.name
                       [] opts.sort = "size"     -> 0 - x.size
                       [] opts.sort = "type"     -> x.type
                       [] opts.sort = "modified" -> x.mtime
                       [] opts.sort = "ext"      -> x.ext
                       [] OTHER                  -> 0
        Key(x) == <<IF opts.findings_first /\ ~HasFindings(x) THEN 1 ELSE 0,
                    IF opts.findings_first THEN 0 - MaxSeverity(x.findings) ELSE 0,
                    IF opts.dirs_first /\ ~IsDirectory(x) THEN 1 ELSE 0,
                    IF opts.dirs_first THEN x.name ELSE 0,
                    Sorted(x),
                    IF opts.sort \in Criterion THEN x.name ELSE 0,
                    Place(x)>>
        Precedes(k, l) == \E n \in 1..Len(k) :
                            /\ k[n] < l[n]
                            /\ \A p \in 1..(n-1) : k[p] = l[p]
    IN \A j, k \in DOMAIN forward :
         j < k => Precedes(Key(forward[j]), Key(forward[k]))

(* With --sort or --dirs-first, and no two items of one name, the report   *)
(* is the same whatever order the directories were read in: what the       *)
(* comment on apply_sort wants for comparing runs.                         *)
ReportIgnoresDiscoveryOrder ==
  phase = "done" /\ (opts.sort \in Criterion \/ opts.dirs_first) =>
    \A other \in Inputs :
      /\ {other[k] : k \in DOMAIN other} = {discovered[k] : k \in DOMAIN discovered}
      /\ \A j, k \in DOMAIN other : other[j].name = other[k].name => j = k
      => LET shown == ReversePhase(SortPhase(FilterPhase(other, opts), opts), opts)
         IN report = [k \in DOMAIN shown |-> Row(shown[k])]

(* The manual lists what each option does.  kls.1:43: "Show only files     *)
(* modified before given date (YYYY-MM-DD)"; but no date of that form gets *)
(* through parse_date, and the option then does nothing.  kls.1:60: "Sort  *)
(* by: name, size, type, modified, ext, findings"; but apply_sort knows no *)
(* criterion of the last name.  Whichever way a sort by findings goes, it  *)
(* keeps the items that have some apart from those that have none.         *)
OptionsHonoured ==
  phase = "done" =>
    /\ Given(opts.modified_before) =>
         \A k \in DOMAIN report : report[k].mtime < opts.modified_before.cutoff
    /\ opts.sort = "findings" /\ ~opts.dirs_first =>
         \E first \in BOOLEAN :
           \A j, k \in DOMAIN items :
             j < k /\ HasFindings(items[j]) # HasFindings(items[k]) =>
               HasFindings(items[j]) = first
=============================================================================
