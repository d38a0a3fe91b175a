------------------------------ MODULE MCOutput ------------------------------
(* A catalogue of five items with ties in every key but the path, and      *)
(* findings of every kind: none, one, two of different levels.             *)
EXTENDS Output, TLC

CONSTANTS absent, MaxItems

Entry(path, name, type, size, mtime, ext, findings) ==
  [path |-> path, name |-> name, type |-> type, size |-> size,
   mtime |-> mtime, ext |-> ext, findings |-> findings]

Catalogue ==
  {Entry(1, 1, 4, 3, 2, 0, {}),
   Entry(2, 2, 8, 3, 1, 1, {"SU20", "SU22"}),
   Entry(3, 1, 8, 5, 1, 1, {"SU20"}),
   Entry(4, 3, 8, 3, 2, 0, {}),
   Entry(5, 4, 4, 5, 1, 2, {"SG02"})}

MCInputs ==
  {s \in UNION {[1..n -> Catalogue] : n \in 0..MaxItems} :
     \A j, k \in DOMAIN s : s[j].path = s[k].path => j = k}

MCMatches == [p \in {"pattern"} |-> {1, 2}]

MCDate == [cutoff |-> 2, tail |-> ""]

Options(filters, levels, dates, sorts, only, groups, reverse) ==
  [filter : filters, min_severity : levels, modified_before : dates,
   modified_after : {absent}, only_findings : only, sort : sorts,
   dirs_first : groups, findings_first : groups, reverse : reverse]

(* Every way to filter with no sort, and every way to sort with no filter, *)
(* and both with one of each.                                              *)
MCChoices ==
  Options({absent, "pattern"}, {absent, 3, 4, 5}, {absent, MCDate}, {absent},
          BOOLEAN, {FALSE}, {FALSE})
  \cup Options({absent}, {absent, 4}, {absent},
               {absent, "findings"} \cup Criterion, {FALSE}, BOOLEAN, BOOLEAN)
  \cup {[o EXCEPT !.modified_after = MCDate] :
          o \in Options({absent}, {absent}, {absent}, {"name"}, {TRUE}, BOOLEAN, {FALSE})}

(* --modified-before and --sort findings at once, for a new item without   *)
(* findings found between two old ones with some.                          *)
InBetween == {s \in MCInputs : Len(s) = 3 /\ s[2].path = 1 /\ {s[1].path, s[3].path} = {3, 5}}
DateAndFindings ==
  Options({absent}, {absent}, {MCDate}, {"findings"}, {FALSE}, {FALSE}, {FALSE})
=============================================================================
