------------------------------ MODULE Coverage ------------------------------
(***************************************************************************)
(* kls::audit: coverage_aggregator (src/audit/coverage_aggregator.cpp) and *)
(* CoverageReport (include/kls/audit/coverage_report.hpp).                 *)
(***************************************************************************)
EXTENDS Integers, Sequences, FiniteSets

(* Mutant: ENFILE is not counted. *)
CounterWithoutGlobalLimit(issue) ==
  CASE \/ issue.code = "directory_permission_denied"
       \/ issue.code = "metadata_failed" /\ issue.system_error \in {"EACCES", "EPERM"}
         -> "denied"
    [] issue.code = "descriptor_limited"                       -> "limits_reached"
    [] issue.code = "entry_disappeared"                        -> "disappeared"
    [] issue.code \in {"entry_type_changed", "entry_identity_changed"} -> "unstable"
    [] issue.code \in {"metadata_incomplete", "entry_type_detection_failed",
                       "io_error", "directory_read_failed"}    -> "unsupported"
    [] issue.code = "directory_open_failed"                    -> "skipped"
    [] OTHER                                                   -> "none"

(* Mutant: directories that cannot be opened are not counted. *)
CounterWithoutSkipped(issue) ==
  CASE \/ issue.code = "directory_permission_denied"
       \/ issue.code = "metadata_failed" /\ issue.system_error \in {"EACCES", "EPERM"}
         -> "denied"
    [] issue.code \in {"descriptor_limited", "global_limited"} -> "limits_reached"
    [] issue.code = "entry_disappeared"                        -> "disappeared"
    [] issue.code \in {"entry_type_changed", "entry_identity_changed"} -> "unstable"
    [] issue.code \in {"metadata_incomplete", "entry_type_detection_failed",
                       "io_error", "directory_read_failed"}    -> "unsupported"
    [] OTHER                                                   -> "none"

(* The counter an issue adds one to, "none" for those that add nothing:    *)
(* links, exclusions (counted when they happen), and a statx failure other *)
(* than a refusal.                                                         *)
Counter(issue) ==
  CASE \/ issue.code = "directory_permission_denied"
       \/ issue.code = "metadata_failed" /\ issue.system_error \in {"EACCES", "EPERM"}
         -> "denied"
    [] issue.code \in {"descriptor_limited", "global_limited"} -> "limits_reached"
    [] issue.code = "entry_disappeared"                        -> "disappeared"
    [] issue.code \in {"entry_type_changed", "entry_identity_changed"} -> "unstable"
    [] issue.code \in {"metadata_incomplete", "entry_type_detection_failed",
                       "io_error", "directory_read_failed"}    -> "unsupported"
    [] issue.code = "directory_open_failed"                    -> "skipped"
    [] OTHER                                                   -> "none"

Tally(issues, counter) ==
  Cardinality({k \in DOMAIN issues : Counter(issues[k]) = counter})

CoverageReport ==
  [visited : Nat, discovered : Nat, inspected : Nat, excluded : Nat,
   denied : Nat, disappeared : Nat, unstable : Nat, unsupported : Nat,
   limits_reached : Nat, skipped : Nat]

CoverageAggregator(inspected, issues, visited, discovered, excluded) ==
  [visited |-> visited, discovered |-> discovered, inspected |-> inspected,
   excluded |-> excluded,
   denied         |-> Tally(issues, "denied"),
   disappeared    |-> Tally(issues, "disappeared"),
   unstable       |-> Tally(issues, "unstable"),
   unsupported    |-> Tally(issues, "unsupported"),
   limits_reached |-> Tally(issues, "limits_reached"),
   skipped        |-> Tally(issues, "skipped")]

(* The counters render_coverage prints: all but one. *)
RenderCoverage(report) == [counter \in (DOMAIN report) \ {"skipped"} |-> report[counter]]

(* The denominator of calculate_effective_coverage. *)
Evaluable(report) ==
  report.inspected + report.denied + report.disappeared + report.unstable
  + report.unsupported
=============================================================================
