------------------------------- MODULE MCCli -------------------------------
(* Every command line of up to MaxArgs of these words. *)
EXTENDS Cli

CONSTANT MaxArgs

Plain(t) == [head |-> t, inline |-> NoText]
Long(t, v) == [head |-> t, inline |-> v]

MCWord == {Plain("--help"), Plain("-q"), Plain("--verbose"), Plain("-r"),
           Long("--recursive", "3"), Plain("-d"), Plain("--depth"),
           Long("--depth", "3"), Long("--depth", ""), Plain("--fail-on"),
           Long("--fail-on", "low"), Plain("low"), Plain("3"), Plain("-1"),
           Plain("99999999999"), Plain("/etc"), Plain("--"), Plain("--x"),
           Plain(""), Long("--modified-before", "2026-01-31"),
           Long("--min-severity", "/etc")}

MCArgvs == UNION {[1..n -> MCWord] : n \in 0..MaxArgs}

MCLongWord == Option \cup {"--", "--x"}
MCShortWord == DOMAIN Alias \cup {"-1"}
MCOtherText == {"", ".", "/", "/etc", "low", "3", "99999999999", "2026-01-31"}
MCIntegerText == {"3", "-1", "99999999999"}
MCIntOf == [t \in {"3", "-1"} |-> IF t = "3" THEN 3 ELSE -1]
MCDateText == {"2026-01-31"}
MCSeverityText == {"low"}
============================================================================
