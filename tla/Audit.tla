------------------------------- MODULE Audit -------------------------------
(***************************************************************************)
(* One run of kls after its command line is accepted (src/kls-main.cpp     *)
(* from line 76): the scan and the analysis of what it returned (modules   *)
(* Scanner and Analyzers), the counting of findings and coverage, the      *)
(* output pipeline, the report with its lookups of names (module           *)
(* Identity), and the exit status.  Which items the output filters keep is *)
(* left open, and so is their order: module Output has both.               *)
(***************************************************************************)
EXTENDS Analyzers, Identity, Coverage

CONSTANT Thresholds     (* the --fail-on values a run may have, or Unset   *)

Unset == -1

(* SIGABRT, as a shell reports it. *)
Aborted == 134

ASSUME AuditAssumption == Thresholds \subseteq (Level \ {0}) \cup {Unset}

VARIABLES
  fail_on,          (* opts.fail_on                                        *)
  stage,            (* the next thing main does                            *)
  severity_counts,  (* how many findings of each severity                  *)
  coverage_report,
  shown,            (* indexes of the items the output pipeline kept       *)
  rows,             (* the rows rendered, the last perhaps in part         *)
  exit_status       (* -1 until main returns                               *)

mainVars == <<fail_on, stage, severity_counts, coverage_report, shown, rows,
              exit_status>>
auditVars == <<kls, resolver, mainVars>>

NoReport == CoverageAggregator(0, <<>>, 0, 0, 0)
NoCounts == [level \in Level |-> 0]

Column == {"absent", "name", "UNKNOWN"}

AuditTypeOK ==
  /\ AnalysisTypeOK
  /\ IdentityTypeOK
  /\ fail_on \in Level \cup {Unset}
  /\ stage \in {"orchestrate", "count_coverage", "process_output", "render", "over"}
  /\ severity_counts \in [Level -> Nat]
  /\ coverage_report \in CoverageReport
  /\ shown \subseteq DOMAIN items
  /\ rows \in Seq([item : DOMAIN items, owner : Column, group : Column])
  /\ exit_status \in {-1, 0, 2, 3, 4, 5, Aborted}

AuditInit ==
  /\ AnalysisInit
  /\ IdentityInit
  /\ fail_on \in Thresholds
  /\ stage = "orchestrate"
  /\ severity_counts = NoCounts
  /\ coverage_report = NoReport
  /\ shown = {}
  /\ rows = <<>>
  /\ exit_status = -1

AuditOrchestrator ==
  /\ stage = "orchestrate"
  /\ KlsStep
  /\ UNCHANGED <<resolver, mainVars>>

(* Mutant: the usual EXIT_FAILURE for what is not an argument's fault. *)
ScanErrorStatusOfFailure(code) ==
  IF code \in {"root_not_found", "root_not_directory"} THEN 2 ELSE 1

ScanErrorStatus(code) ==
  CASE code \in {"root_not_found", "root_not_directory"}         -> 2
    [] code \in {"root_permission_denied", "root_open_failed"}   -> 3
    [] OTHER                                                     -> 4

(* The root could not be scanned: nothing is analyzed, counted or shown. *)
FailFast ==
  /\ stage = "orchestrate" /\ pc = "failed"
  /\ exit_status' = ScanErrorStatus(error)
  /\ stage' = "over"
  /\ UNCHANGED <<kls, resolver, fail_on, severity_counts, coverage_report, shown, rows>>

CountFindingsBySeverity ==
  /\ stage = "orchestrate" /\ call = "analyzed"
  /\ shown' = DOMAIN items
  /\ severity_counts' =
       [level \in Level |->
          IF level = 0 THEN 0
          ELSE Cardinality({pair \in UNION {{k} \X DOMAIN findings[k] : k \in shown'} :
                              LevelOfId(findings[pair[1]][pair[2]]) = level})]
  /\ stage' = "count_coverage"
  /\ UNCHANGED <<kls, resolver, fail_on, coverage_report, rows, exit_status>>

CountCoverage ==
  /\ stage = "count_coverage"
  /\ coverage_report' = CoverageAggregator(Cardinality(shown), issues,
                          visited_count, discovered_count, excluded_count)
  /\ stage' = "process_output"
  /\ UNCHANGED <<kls, resolver, fail_on, severity_counts, shown, rows, exit_status>>

(* --filter, --min-severity, --only-findings, --modified-*: items go,      *)
(* issues stay.                                                            *)
ProcessOutput ==
  /\ stage = "process_output"
  /\ shown' \in SUBSET shown
  /\ stage' = "render"
  /\ UNCHANGED <<kls, resolver, fail_on, severity_counts, coverage_report, rows,
                 exit_status>>

---------------------------------------------------------------------------

Rendered == {rows[k].item : k \in DOMAIN rows}
Row == rows[Len(rows)]
RowInProgress == rows # <<>> /\ (Row.owner = "absent" \/ Row.group = "absent")

Owner(item) == attr[items[item].inode].uid
Group(item) == attr[items[item].inode].gid

StartRow ==
  /\ stage = "render" /\ ~RowInProgress
  /\ \E k \in shown \ Rendered :
       /\ \A j \in shown \ Rendered : k <= j
       /\ rows' = Append(rows, [item |-> k, owner |-> "absent", group |-> "absent"])
  /\ UNCHANGED <<kls, resolver, fail_on, stage, severity_counts, coverage_report,
                 shown, exit_status>>

(* The two lookups are arguments of one call of std::format: C++ leaves    *)
(* open which comes first.                                                 *)
RenderNames ==
  /\ stage = "render" /\ RowInProgress
  /\ \E name \in {"name", "UNKNOWN"} :
       \/ /\ Row.owner = "absent"
          /\ OwnersName(Owner(Row.item), name)
          /\ rows' = [rows EXCEPT ![Len(rows)].owner = name]
       \/ /\ Row.group = "absent"
          /\ GroupsName(Group(Row.item), name)
          /\ rows' = [rows EXCEPT ![Len(rows)].group = name]
  /\ UNCHANGED <<vars, analysisVars, fail_on, stage, severity_counts,
                 coverage_report, shown, exit_status>>

RenderAsksAgain ==
  /\ stage = "render" /\ RowInProgress
  /\ \/ Row.owner = "absent" /\ AsksAgain(owners, Owner(Row.item))
     \/ Row.group = "absent" /\ AsksAgain(groups, Group(Row.item))
  /\ UNCHANGED <<vars, analysisVars, mainVars>>

(* Nothing catches the exception: std::terminate, in the middle of the     *)
(* report and before the policy of --fail-on.                              *)
RenderAborts ==
  /\ stage = "render" /\ RowInProgress
  /\ \/ Row.owner = "absent" /\ Throws(owners, Owner(Row.item))
     \/ Row.group = "absent" /\ Throws(groups, Group(Row.item))
  /\ exit_status' = Aborted
  /\ stage' = "over"
  /\ UNCHANGED <<vars, analysisVars, fail_on, severity_counts, coverage_report,
                 shown, rows>>

---------------------------------------------------------------------------

(* Mutant: above only. *)
Above(level) == \E other \in Level : other > level /\ severity_counts[other] > 0

AtOrAbove(level) ==
  level # 0 /\ \E other \in Level : other >= level /\ severity_counts[other] > 0

HasCriticalIssue ==
  \E k \in DOMAIN issues :
    issues[k].code \in {"entry_identity_changed", "invalid_discovery_reference"}

Exit ==
  /\ stage = "render" /\ ~RowInProgress /\ Rendered = shown
  /\ exit_status' = IF fail_on # Unset /\ AtOrAbove(fail_on) THEN 5
                    ELSE IF HasCriticalIssue THEN 3 ELSE 0
  /\ stage' = "over"
  /\ UNCHANGED <<kls, resolver, fail_on, severity_counts, coverage_report, shown, rows>>

Main ==
  \/ AuditOrchestrator \/ FailFast \/ CountFindingsBySeverity \/ CountCoverage
  \/ ProcessOutput \/ StartRow \/ RenderNames \/ RenderAsksAgain
  \/ RenderAborts \/ Exit

(* Other processes, at any time; once the analysis is over only the name   *)
(* service is asked again.                                                 *)
OtherProcesses ==
  /\ \/ World /\ UNCHANGED <<nsVars, analysisVars>>
     \/ Meanwhile
     \/ Awaken
     \/ stage = "render" /\ AccountChange /\ UNCHANGED <<vars, analysisVars>>
  /\ UNCHANGED <<resolver, mainVars>>

AuditNext ==
  \/ Main \/ OtherProcesses
  \/ stage = "over" /\ UNCHANGED auditVars

AuditSpec == AuditInit /\ [][AuditNext]_auditVars

---------------------------------------------------------------------------

Counted == stage \in {"process_output", "render", "over"} /\ pc = "collected"

(* Entries whose statx failed, but was not refused, and issues that are    *)
(* not about an entry discovered but about reading a directory.            *)
Uncounted == {k \in IssuesAt("entry") : /\ issues[k].code = "metadata_failed"
                                        /\ issues[k].system_error \notin {"EACCES", "EPERM"}}
OfDirectories == IssuesAt("directory")

(* The numbers of the coverage table add up: every discovered object is in *)
(* exactly one row.  Two corrections are needed: directories that could    *)
(* not be read are counted besides the objects, and statx failures that    *)
(* are not refusals are in no row.                                         *)
CoverageAddsUp ==
  Counted =>
    LET report == coverage_report
    IN report.discovered + Cardinality(OfDirectories) =
         Evaluable(report) + report.limits_reached + report.skipped
         + report.excluded + Cardinality(Uncounted)

(* A report without losses can be believed: whatever stood still under the *)
(* root is among the items analyzed, unless statx failed on it or above    *)
(* it for a reason that is not a refusal.  The report is CoverageReport;   *)
(* render_coverage prints it without the row skipped.                      *)
LosslessTable(report) ==
  /\ report.denied = 0 /\ report.disappeared = 0 /\ report.unstable = 0
  /\ report.unsupported = 0 /\ report.excluded = 0
  /\ report.limits_reached = 0 /\ report.skipped = 0

LosslessMeansComplete ==
  Counted /\ LosslessTable(coverage_report) =>
    \A s \in Standing : \/ Listed(items, s.path, s.inode)
                        \/ \E k \in Uncounted : Prefix(issues[k].path, s.path)

(* Exit status 5 depends on what was found, not on what the output options *)
(* left to show: it is returned exactly when some item of the scan had a   *)
(* finding at or above --fail-on, unless the report died of a lookup that  *)
(* failed, which is the only thing it dies of.                             *)
FailOnIgnoresFilters ==
  stage = "over" =>
    \/ exit_status = Aborted /\ failed # {}
    \/ exit_status = 5 <=>
          /\ pc = "collected" /\ fail_on # Unset
          /\ \E k \in DOMAIN findings : MaxSeverity(Ids(k)) >= fail_on

(* Two rows with the same owner show the same name for it, and so for the  *)
(* group, though accounts come and go while the report is written.         *)
RowsAgree ==
  \A j, k \in DOMAIN rows :
    LET Agree(c, d) == c = d \/ c = "absent" \/ d = "absent"
    IN /\ Owner(rows[j].item) = Owner(rows[k].item) => Agree(rows[j].owner, rows[k].owner)
       /\ Group(rows[j].item) = Group(rows[k].item) => Agree(rows[j].group, rows[k].group)

(* The orphan findings and the columns next to them come from different    *)
(* lookups, in two functions, of which one heeds the error and the other   *)
(* does not.  They contradict each other only if an account came or went   *)
(* in between, or a lookup of it failed.                                   *)
OrphansShowNoName ==
  account_changes = 0 =>
    \A k \in DOMAIN rows :
      LET Agree(id, column, account) ==
            column = "absent" \/ account \in failed
            \/ (column = "UNKNOWN" <=> id \in Ids(rows[k].item))
      IN /\ Agree("SU11", rows[k].owner, Owner(rows[k].item))
         /\ Agree("SG05", rows[k].group, Group(rows[k].item))

(* kls.1:88: status 3 is "Incomplete audit (e.g., permission denied,       *)
(* vanished entries)".  CONTRIBUTING.md:31: "Coverage failures must not be *)
(* hidden."  If something that stood untouched is missing from the items,  *)
(* the status should say so, and so should the table printed.  The code    *)
(* returns 3 only for two issue codes that nothing emits, and the table    *)
(* has no row for directories that could not be opened.                    *)
LossesReported ==
  LET printed == RenderCoverage(coverage_report)
      losses  == (DOMAIN printed) \ {"visited", "discovered", "inspected"}
      missing == {s \in Standing : ~Listed(items, s.path, s.inode)}
  IN stage = "over" /\ pc = "collected" /\ missing # {} =>
       /\ exit_status # 0
       /\ \E counter \in losses : printed[counter] > 0
=============================================================================
