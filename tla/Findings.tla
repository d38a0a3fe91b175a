------------------------------ MODULE Findings ------------------------------
(***************************************************************************)
(* kls::findings: the registry (include/kls/findings/finding_registry.hpp) *)
(* and the severities (finding_flags.hpp).  An ID, four characters packed  *)
(* in a word (include/kls/detail/Id.hpp), is its text here.                *)
(***************************************************************************)
EXTENDS Integers, Sequences, FiniteSets

Level == 0..5                        (* None, Low, MedLow, Med, High, Crit *)

Low    == {"CA01"}
MedLow == {"CA36", "SU03", "SU09", "SU10", "SU18", "SU19", "SU22", "SU23",
           "SU24", "IMMU", "APND"}
Med    == {"CA35", "SU01", "SU06", "SU15", "SU17", "SG01", "SY01"}
High   == {"CA27", "CA28", "CA31", "CA32", "SU05", "SU07", "SU08", "SU11",
           "SU12", "SG02", "SG04", "SG05", "SY02"}
Crit   == {"CA25", "CA26", "CA30", "CA33", "CA34", "SU02", "SU04", "SU13",
           "SU14", "SU16", "SU20", "SU21", "SG03", "HWBD", "SY03"}

(* ALL_FINDINGS, by id. *)
Registered == Low \cup MedLow \cup Med \cup High \cup Crit

LevelOf == [id \in Registered |->
              CASE id \in Low    -> 1 [] id \in MedLow -> 2 [] id \in Med -> 3
                [] id \in High   -> 4 [] id \in Crit   -> 5]

(* get_finding returns nullptr for an id that is not registered, and every *)
(* caller passes over it.                                                  *)
LevelOfId(id) == IF id \in Registered THEN LevelOf[id] ELSE 0

(* get_max_level_severity, and get_max_severity of the output processor.   *)
MaxSeverity(ids) ==
  LET levels == {0} \cup {LevelOfId(id) : id \in ids}
  IN CHOOSE l \in levels : \A m \in levels : m <= l
=============================================================================
