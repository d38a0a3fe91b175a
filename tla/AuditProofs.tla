---------------------------- MODULE AuditProofs ----------------------------
(***************************************************************************)
(* What TLAPS proves about a whole run of kls: what the scanner's books    *)
(* are worth once the run is at its report.                                *)
(***************************************************************************)
EXTENDS Audit, AnalyzersProofs

LEMMA ScanOrAfter ==
  [AuditNext]_auditVars => ([Next]_vars \/ After) /\ attr' = attr
<1> SUFFICES ASSUME [AuditNext]_auditVars PROVE ([Next]_vars \/ After) /\ attr' = attr
  OBVIOUS
<1>1. CASE AuditOrchestrator
  BY <1>1, AnalysisKeepsScan DEF AuditOrchestrator, KlsStep, Next, analysisVars
<1>2. CASE UNCHANGED kls \/ UNCHANGED <<vars, analysisVars>>
  BY <1>2 DEF kls, analysisVars
<1>3. CASE FailFast \/ CountFindingsBySeverity \/ CountCoverage \/ ProcessOutput
           \/ StartRow \/ RenderNames \/ RenderAsksAgain \/ RenderAborts \/ Exit
  BY <1>2, <1>3 DEF FailFast, CountFindingsBySeverity, CountCoverage,
     ProcessOutput, StartRow, RenderNames, RenderAsksAgain, RenderAborts, Exit
<1>4. CASE OtherProcesses
  <2>1. CASE World /\ UNCHANGED <<nsVars, analysisVars>>
    BY <2>1 DEF Next, analysisVars
  <2>2. CASE Meanwhile
    BY <2>2 DEF Meanwhile, After, analysisVars
  <2>3. CASE Awaken
    BY <2>3, AnalysisKeepsScan
  <2>4. CASE UNCHANGED <<vars, analysisVars>>
    BY <1>2, <2>4
  <2> QED  BY <1>4, <2>1, <2>2, <2>3, <2>4 DEF OtherProcesses
<1>5. CASE UNCHANGED auditVars
  BY <1>2, <1>5 DEF auditVars
<1> QED
  BY <1>1, <1>3, <1>4, <1>5 DEF AuditNext, Main

---------------------------------------------------------------------------

(* An issue in no counter is in one of the other rows, or a link's.  With  *)
(* Balance the six counters can be summed without looking at the issues.   *)
SixCounters == {"denied", "disappeared", "unstable", "unsupported",
                "limits_reached", "skipped"}

Six == Tally(issues, "denied") + Tally(issues, "disappeared")
       + Tally(issues, "unstable") + Tally(issues, "unsupported")
       + Tally(issues, "limits_reached") + Tally(issues, "skipped")

Balance ==
  Cardinality(IssuesAt("entry")) + Cardinality(OfDirectories)
    = Six + excluded_count + Cardinality(Uncounted)

LEMMA BothSides ==
  ASSUME NEW e \in Nat, NEW d \in Nat, NEW six \in Nat, NEW x \in Nat, NEW u \in Nat,
         NEW ee \in Nat, NEW dd \in Nat, NEW c \in Nat, NEW xx \in Nat, NEW uu \in Nat,
         e + d = six + x + u,
         ee + dd = c + (xx - x) + uu
  PROVE  (e + ee) + (d + dd) = (six + c) + xx + (u + uu)
OBVIOUS

LEMMA RowsSum ==
  ASSUME NEW n \in Nat, NEW e \in Nat, NEW d \in Nat, NEW x \in Nat, NEW u \in Nat,
         NEW c1 \in Nat, NEW c2 \in Nat, NEW c3 \in Nat, NEW c4 \in Nat,
         NEW c5 \in Nat, NEW c6 \in Nat,
         e + d = (c1 + c2 + c3 + c4 + c5 + c6) + x + u
  PROVE  (n + e) + d = (n + c1 + c2 + c3 + c4) + c5 + c6 + x + u
OBVIOUS

InCounter(s, counter) == {k \in DOMAIN s : Counter(s[k]) = counter}

LEMMA Tallies ==
  ASSUME issues \in Seq(ScanIssue)
  PROVE  /\ \A counter : /\ IsFiniteSet(InCounter(issues, counter))
                          /\ Tally(issues, counter) = Cardinality(InCounter(issues, counter))
                          /\ Tally(issues, counter) \in Nat
         /\ IsFiniteSet(Uncounted) /\ Cardinality(Uncounted) \in Nat
         /\ IsFiniteSet(OfDirectories) /\ Cardinality(OfDirectories) \in Nat
         /\ Cardinality(IssuesAt("entry")) \in Nat
<1>1. IsFiniteSet(DOMAIN issues)
  <2>1. DOMAIN issues = 1..Len(issues) /\ Len(issues) \in Nat
    OBVIOUS
  <2> QED  BY <2>1, FS_Interval
<1>2. \A counter : InCounter(issues, counter) \subseteq DOMAIN issues
  BY DEF InCounter
<1>3. \A counter : Tally(issues, counter) = Cardinality(InCounter(issues, counter))
  BY DEF Tally, InCounter
<1>4. Uncounted \subseteq DOMAIN issues
  BY DEF Uncounted, IssuesAt
<1> QED
  BY <1>1, <1>2, <1>3, <1>4, FS_Subset, FS_CardinalityType, Counts DEF OfDirectories

(* An issue added counts where its code, error and site say. *)
IsUncounted(issue) == /\ issue.site = "entry" /\ issue.code = "metadata_failed"
                      /\ issue.system_error \notin {"EACCES", "EPERM"}

LEMMA IssueCounted ==
  ASSUME issues \in Seq(ScanIssue),
         NEW code, NEW path, NEW errno, NEW kind,
         AddIssue(code, path, errno, kind)
  PROVE  LET issue == [code |-> code, path |-> path, system_error |-> errno,
                       site |-> kind]
         IN /\ \A counter : Tally(issues', counter) = Tally(issues, counter)
                              + (IF Counter(issue) = counter THEN 1 ELSE 0)
            /\ Cardinality(Uncounted') = Cardinality(Uncounted)
                 + (IF IsUncounted(issue) THEN 1 ELSE 0)
            /\ Cardinality(OfDirectories') = Cardinality(OfDirectories)
                 + (IF kind = "directory" THEN 1 ELSE 0)
            /\ Cardinality(IssuesAt("entry")') = Cardinality(IssuesAt("entry"))
                 + (IF kind = "entry" THEN 1 ELSE 0)
<1> DEFINE issue == [code |-> code, path |-> path, system_error |-> errno, site |-> kind]
           new == Len(issues) + 1
<1>1. /\ DOMAIN issues = 1..Len(issues) /\ Len(issues) \in Nat
      /\ DOMAIN issues' = DOMAIN issues \cup {new}
      /\ new \notin DOMAIN issues
      /\ \A k \in DOMAIN issues : issues'[k] = issues[k]
      /\ issues'[new] = issue
  BY DEF AddIssue
<1> HIDE DEF new, issue
<1>2. ASSUME NEW counter
      PROVE  Tally(issues', counter) = Tally(issues, counter)
               + (IF Counter(issue) = counter THEN 1 ELSE 0)
  <2>1. InCounter(issues', counter) = InCounter(issues, counter) \cup
          (IF Counter(issue) = counter THEN {new} ELSE {})
    BY <1>1 DEF InCounter
  <2>2. new \notin InCounter(issues, counter)
    BY <1>1 DEF InCounter
  <2>3. Cardinality(InCounter(issues', counter)) = Cardinality(InCounter(issues, counter))
          + (IF Counter(issue) = counter THEN 1 ELSE 0)
    <3> DEFINE old == InCounter(issues, counter)
    <3>1. IsFiniteSet(old) /\ Cardinality(old) \in Nat
      BY Tallies
    <3>2. CASE Counter(issue) = counter
      <4>1. InCounter(issues', counter) = old \cup {new}
        BY <2>1, <3>2
      <4> QED  BY <2>2, <3>1, <3>2, <4>1, FS_AddElement
    <3>3. CASE Counter(issue) # counter
      <4>1. InCounter(issues', counter) = old
        BY <2>1, <3>3
      <4> QED  BY <3>1, <3>3, <4>1
    <3> QED  BY <3>2, <3>3
  <2>4. Tally(issues', counter) = Cardinality(InCounter(issues', counter))
    BY DEF Tally, InCounter
  <2> QED  BY <2>3, <2>4, Tallies
<1>3. Cardinality(Uncounted') = Cardinality(Uncounted)
        + (IF IsUncounted(issue) THEN 1 ELSE 0)
  <2>1. Uncounted' = Uncounted \cup (IF IsUncounted(issue) THEN {new} ELSE {})
    BY <1>1 DEF Uncounted, IssuesAt, IsUncounted
  <2>2. new \notin Uncounted /\ IsUncounted(issue) \in BOOLEAN
    BY <1>1 DEF Uncounted, IssuesAt, IsUncounted
  <2>3. IsFiniteSet(Uncounted) /\ Cardinality(Uncounted) \in Nat
    BY Tallies
  <2>4. CASE IsUncounted(issue)
    <3>1. Uncounted' = Uncounted \cup {new}
      BY <2>1, <2>4
    <3> QED  BY <2>2, <2>3, <2>4, <3>1, FS_AddElement
  <2>5. CASE ~IsUncounted(issue)
    <3>1. Uncounted' = Uncounted
      BY <2>1, <2>5
    <3> QED  BY <2>3, <2>5, <3>1
  <2> QED  BY <2>4, <2>5
<1>4. /\ Cardinality(OfDirectories') = Cardinality(OfDirectories)
           + (IF kind = "directory" THEN 1 ELSE 0)
      /\ Cardinality(IssuesAt("entry")') = Cardinality(IssuesAt("entry"))
           + (IF kind = "entry" THEN 1 ELSE 0)
  BY IssueAdded DEF OfDirectories
<1> QED
  BY <1>2, <1>3, <1>4 DEF issue

(* One row for each issue that is not a link's. *)
LEMMA BalanceAdded ==
  ASSUME TypeOK, Balance, excluded_count' \in Nat,
         NEW code, NEW path, NEW errno, NEW kind,
         AddIssue(code, path, errno, kind),
         LET issue == [code |-> code, path |-> path, system_error |-> errno,
                       site |-> kind]
         IN (IF kind \in {"entry", "directory"} THEN 1 ELSE 0)
              = (IF Counter(issue) \in SixCounters THEN 1 ELSE 0)
                + (excluded_count' - excluded_count)
                + (IF IsUncounted(issue) THEN 1 ELSE 0)
  PROVE  Balance'
<1> DEFINE issue == [code |-> code, path |-> path, system_error |-> errno, site |-> kind]
           n(counter) == IF Counter(issue) = counter THEN 1 ELSE 0
<1>1. issues \in Seq(ScanIssue) /\ excluded_count \in Nat
  BY DEF TypeOK
<1>2. /\ \A counter : Tally(issues', counter) = Tally(issues, counter) + n(counter)
      /\ Cardinality(Uncounted') = Cardinality(Uncounted)
           + (IF IsUncounted(issue) THEN 1 ELSE 0)
      /\ Cardinality(OfDirectories') = Cardinality(OfDirectories)
           + (IF kind = "directory" THEN 1 ELSE 0)
      /\ Cardinality(IssuesAt("entry")') = Cardinality(IssuesAt("entry"))
           + (IF kind = "entry" THEN 1 ELSE 0)
  BY <1>1, IssueCounted
<1>3. /\ \A counter : Tally(issues, counter) \in Nat
      /\ Cardinality(Uncounted) \in Nat /\ Cardinality(OfDirectories) \in Nat
      /\ Cardinality(IssuesAt("entry")) \in Nat
  BY <1>1, Tallies
<1>4. n("denied") + n("disappeared") + n("unstable") + n("unsupported")
        + n("limits_reached") + n("skipped")
        = IF Counter(issue) \in SixCounters THEN 1 ELSE 0
  <2> DEFINE c == Counter(issue)
  <2> HIDE DEF c
  <2> SUFFICES (IF c = "denied" THEN 1 ELSE 0) + (IF c = "disappeared" THEN 1 ELSE 0)
               + (IF c = "unstable" THEN 1 ELSE 0) + (IF c = "unsupported" THEN 1 ELSE 0)
               + (IF c = "limits_reached" THEN 1 ELSE 0) + (IF c = "skipped" THEN 1 ELSE 0)
               = IF c \in SixCounters THEN 1 ELSE 0
    BY DEF c
  <2> QED  BY DEF SixCounters
<1>5. Six' = Six + (IF Counter(issue) \in SixCounters THEN 1 ELSE 0)
  <2> HIDE DEF n
  <2>1. \A counter : n(counter) \in Nat
    BY DEF n
  <2>2. Six' = Tally(issues', "denied") + Tally(issues', "disappeared")
               + Tally(issues', "unstable") + Tally(issues', "unsupported")
               + Tally(issues', "limits_reached") + Tally(issues', "skipped")
    BY DEF Six
  <2> QED  BY <1>2, <1>3, <1>4, <2>1, <2>2 DEF Six
<1>6. Six \in Nat
  BY <1>3 DEF Six
<1>7. (IF kind \in {"entry", "directory"} THEN 1 ELSE 0)
        = (IF kind = "entry" THEN 1 ELSE 0) + (IF kind = "directory" THEN 1 ELSE 0)
  OBVIOUS
<1> HIDE DEF issue, n
<1>8. (IF kind \in {"entry", "directory"} THEN 1 ELSE 0)
        = (IF Counter(issue) \in SixCounters THEN 1 ELSE 0)
          + (excluded_count' - excluded_count)
          + (IF IsUncounted(issue) THEN 1 ELSE 0)
  BY DEF issue
<1> DEFINE ofEntry     == IF kind = "entry" THEN 1 ELSE 0
           ofDirectory == IF kind = "directory" THEN 1 ELSE 0
           counted     == IF Counter(issue) \in SixCounters THEN 1 ELSE 0
           uncounted   == IF IsUncounted(issue) THEN 1 ELSE 0
<1>9. /\ ofEntry \in Nat /\ ofDirectory \in Nat /\ counted \in Nat /\ uncounted \in Nat
      /\ ofEntry + ofDirectory = counted + (excluded_count' - excluded_count) + uncounted
      /\ Six' = Six + counted
      /\ Cardinality(Uncounted') = Cardinality(Uncounted) + uncounted
      /\ Cardinality(OfDirectories') = Cardinality(OfDirectories) + ofDirectory
      /\ Cardinality(IssuesAt("entry")') = Cardinality(IssuesAt("entry")) + ofEntry
  BY <1>2, <1>5, <1>7, <1>8 DEF issue
<1> HIDE DEF ofEntry, ofDirectory, counted, uncounted
<1>10. Cardinality(IssuesAt("entry")) + Cardinality(OfDirectories)
         = Six + excluded_count + Cardinality(Uncounted)
  BY DEF Balance
<1>11. Cardinality(IssuesAt("entry")') + Cardinality(OfDirectories')
         = Six' + excluded_count' + Cardinality(Uncounted')
  <2>1. /\ Cardinality(IssuesAt("entry")) \in Nat /\ Cardinality(OfDirectories) \in Nat
        /\ Six \in Nat /\ excluded_count \in Nat /\ Cardinality(Uncounted) \in Nat
        /\ ofEntry \in Nat /\ ofDirectory \in Nat /\ counted \in Nat
        /\ excluded_count' \in Nat /\ uncounted \in Nat
    BY <1>1, <1>3, <1>6, <1>9
  <2>2. ofEntry + ofDirectory = counted + (excluded_count' - excluded_count) + uncounted
    BY <1>9
  <2>3. (Cardinality(IssuesAt("entry")) + ofEntry) + (Cardinality(OfDirectories) + ofDirectory)
          = (Six + counted) + excluded_count' + (Cardinality(Uncounted) + uncounted)
    <3> DEFINE e == Cardinality(IssuesAt("entry"))
               d == Cardinality(OfDirectories)
               u == Cardinality(Uncounted)
               x == excluded_count
               xx == excluded_count'
    <3>1. /\ e \in Nat /\ d \in Nat /\ u \in Nat /\ x \in Nat /\ xx \in Nat
          /\ e + d = Six + x + u
          /\ ofEntry + ofDirectory = counted + (xx - x) + uncounted
      BY <1>10, <2>1, <2>2
    <3> HIDE DEF e, d, u, x, xx
    <3>2. (e + ofEntry) + (d + ofDirectory) = (Six + counted) + xx + (u + uncounted)
      BY <2>1, <3>1, BothSides
    <3> QED  BY <3>2 DEF e, d, u, x, xx
  <2> QED  BY <1>9, <2>3
<1> QED
  BY <1>11 DEF Balance

LEMMA BalanceInit == Init => Balance
<1> SUFFICES ASSUME Init PROVE Balance
  OBVIOUS
<1>1. issues = <<>> /\ excluded_count = 0
  BY DEF Init
<1>2. \A counter : Tally(issues, counter) = 0
  <2>1. \A counter : {k \in DOMAIN issues : Counter(issues[k]) = counter} = {}
    BY <1>1
  <2> QED  BY <2>1, FS_EmptySet DEF Tally
<1>3. IssuesAt("entry") = {} /\ OfDirectories = {} /\ Uncounted = {}
  BY <1>1 DEF IssuesAt, OfDirectories, Uncounted
<1> QED
  BY <1>1, <1>2, <1>3, FS_EmptySet DEF Balance, Six

LEMMA BalanceStep ==
  TypeOK /\ TypeOK' /\ Balance /\ ([Next]_vars \/ After) => Balance'
<1> SUFFICES ASSUME TypeOK, TypeOK', Balance, [Next]_vars \/ After PROVE Balance'
  OBVIOUS
<1>a. excluded_count \in Nat /\ excluded_count' \in Nat
  BY DEF TypeOK
<1>b. ASSUME UNCHANGED <<issues, excluded_count>> PROVE Balance'
  BY <1>b DEF Balance, Six, Uncounted, OfDirectories, IssuesAt
<1>c. ASSUME NEW path, NEW errno, UNCHANGED excluded_count,
             \/ AddIssue("directory_open_failed", path, errno, "directory")
             \/ AddIssue("directory_read_failed", path, errno, "directory")
      PROVE  Balance'
  <2>1. CASE AddIssue("directory_open_failed", path, errno, "directory")
    BY <1>a, <1>c, <2>1, BalanceAdded DEF Counter, SixCounters, IsUncounted
  <2>2. CASE AddIssue("directory_read_failed", path, errno, "directory")
    BY <1>a, <1>c, <2>2, BalanceAdded DEF Counter, SixCounters, IsUncounted
  <2> QED  BY <1>c, <2>1, <2>2
<1>d. ASSUME NEW code \in {"symlink_error_resolve", "symlink_target_truncated"},
             NEW path, NEW errno, AddIssue(code, path, errno, "link"),
             UNCHANGED excluded_count
      PROVE  Balance'
  BY <1>a, <1>d, BalanceAdded DEF Counter, SixCounters, IsUncounted
<1>e. ASSUME NEW code, NEW errno, RejectEntry(code, errno),
             \/ /\ excluded_count' = excluded_count
                /\ code \in {"entry_disappeared", "metadata_failed", "metadata_incomplete",
                             "entry_type_detection_failed", "directory_permission_denied",
                             "entry_type_changed", "descriptor_limited",
                             "global_limited", "io_error", "directory_open_failed"}
             \/ /\ excluded_count' = excluded_count + 1
                /\ code = "pseudo_filesystem_excluded"
      PROVE  Balance'
  <2> DEFINE issue == [code |-> code, path |-> FullPath(entry.name),
                       system_error |-> errno, site |-> "entry"]
  <2>1. AddIssue(code, FullPath(entry.name), errno, "entry")
    BY <1>e DEF RejectEntry
  <2>2. 1 = (IF Counter(issue) \in SixCounters THEN 1 ELSE 0)
              + (excluded_count' - excluded_count)
              + (IF IsUncounted(issue) THEN 1 ELSE 0)
    BY <1>a, <1>e DEF Counter, SixCounters, IsUncounted
  <2> QED  BY <1>a, <2>1, <2>2, BalanceAdded
<1> USE DEF output
<1>1. CASE UNCHANGED vars
  BY <1>1, <1>b DEF vars
<1>2. ASSUME NEW errno \in Errno, OpenRootFails(errno) PROVE Balance'
  BY <1>2, <1>b DEF OpenRootFails
<1>3. CASE OpenRoot \/ FinishDiscovery \/ CollectMetadata
  BY <1>3, <1>b DEF OpenRoot, FinishDiscovery, CollectMetadata
<1>4. CASE DupFails
  BY <1>4, <1>c DEF DupFails, PopDirectory
<1>5. CASE DupDirectory
  BY <1>5, <1>b DEF DupDirectory, PopDirectory
<1>6. CASE FdopendirFails
  BY <1>6, <1>c DEF FdopendirFails
<1>7. CASE Fdopendir \/ ReaddirEnds
  BY <1>7, <1>b DEF Fdopendir, ReaddirEnds
<1>8. ASSUME NEW n \in Name, Readdir(n) PROVE Balance'
  BY <1>8, <1>b DEF Readdir
<1>9. CASE ReaddirFails
  BY <1>9, <1>c DEF ReaddirFails
<1>10. ASSUME NEW errno \in Errno, StatxFails(errno) PROVE Balance'
  BY <1>10, <1>e DEF StatxFails
<1>11. CASE StatxIncomplete \/ StatxUnknownType
  BY <1>11, <1>e DEF StatxIncomplete, StatxUnknownType
<1>12. CASE StatxExcluded
  BY <1>12, <1>e DEF StatxExcluded
<1>13. CASE StatxGoesOn \/ StatxSuffices
  BY <1>13, <1>b DEF StatxGoesOn, StatxSuffices
<1>14. ASSUME NEW errno \in Errno, OpenatFails(errno) PROVE Balance'
  BY <1>14, <1>e DEF OpenatFails, OpenatIssue
<1>15. CASE OpenatDirectory \/ Readlink
  BY <1>15, <1>b DEF OpenatDirectory, Readlink
<1>16. CASE ReadlinkFails
  BY <1>16, <1>d DEF ReadlinkFails
<1>17. CASE World \/ After
  BY <1>17, <1>b DEF World, After
<1>18. CASE DirectoryStep
  BY <1>4, <1>5, <1>6, <1>7, <1>8, <1>9, <1>18 DEF DirectoryStep
<1>19. CASE EntryStep
  BY <1>10, <1>11, <1>12, <1>13, <1>14, <1>15, <1>16, <1>19 DEF EntryStep
<1>20. CASE ScannerStep
  BY <1>2, <1>3, <1>18, <1>19, <1>20 DEF ScannerStep
<1> QED
  BY <1>1, <1>17, <1>20 DEF Next, Done

---------------------------------------------------------------------------

(* The coverage table is made of the numbers the scan ended with: main     *)
(* counts them once the analysis is over, and they do not change after.    *)
Tabled ==
  /\ call # "idle" => pc = "collected"
  /\ stage \in {"count_coverage", "process_output", "render"} => pc = "collected"
  /\ stage = "over" => pc \in Terminal
  /\ stage = "count_coverage" => shown = DOMAIN items
  /\ Counted => coverage_report = CoverageAggregator(Len(items), issues,
                  visited_count, discovered_count, excluded_count)

CoverageInv == Books /\ Balance /\ Tabled

LEMMA CoverageInit == AuditInit => CoverageInv
BY BooksInit, BalanceInit DEF AuditInit, AnalysisInit, CoverageInv, Tabled, Counted

(* Only StartAnalysis leaves idle, and it waits for the scan. *)
LEMMA AnalysisFollows ==
  (call # "idle" => pc = "collected") /\ (AnalysisStep \/ Awaken) => pc = "collected"
<1> SUFFICES ASSUME AnalysisStep \/ Awaken PROVE pc = "collected" \/ call # "idle"
  OBVIOUS
<1>1. CASE StartAnalysis
  BY <1>1 DEF StartAnalysis
<1>2. CASE AnalyzeRecord \/ ReadBlocks \/ AnalyzeSymlink \/ Awaken
  BY <1>2 DEF AnalyzeRecord, ReadBlocks, AnalyzeSymlink, Awaken
<1>3. CASE OrphanedUid \/ OrphanedGid
  BY <1>3 DEF OrphanedUid, OrphanedGid, Orphaned
<1>4. CASE ReadFlags \/ LookForCapability \/ ReadContent \/ AnalyzeCapability
  BY <1>4 DEF ReadFlags, LookForCapability, ReadContent, AnalyzeCapability
<1>5. CASE CallFails
  BY <1>5, AnalyzersAssumption DEF CallFails
<1> QED
  BY <1>1, <1>2, <1>3, <1>4, <1>5 DEF AnalysisStep

LEMMA CoverageStep ==
  CoverageInv /\ [AuditNext]_auditVars => CoverageInv'
<1> SUFFICES ASSUME CoverageInv, [AuditNext]_auditVars PROVE Tabled'
  <2> SUFFICES ASSUME CoverageInv, [AuditNext]_auditVars PROVE Books' /\ Balance'
    BY DEF CoverageInv
  <2>1. [Next]_vars \/ After
    BY ScanOrAfter
  <2>2. Books' /\ TypeOK /\ TypeOK'
    BY <2>1, BooksAfter DEF CoverageInv, Books, Shape
  <2> QED  BY <2>1, <2>2, BalanceStep DEF CoverageInv
<1>a. [Next]_vars \/ After
  BY ScanOrAfter
<1>b. Tabled /\ items \in Seq(AuditItem)
  BY DEF CoverageInv, Books, Shape, TypeOK
<1>c. pc \in Terminal => UNCHANGED <<pc, items, issues, visited_count,
                                     discovered_count, excluded_count>>
  BY <1>a, ScanFrozen
<1>d. ASSUME UNCHANGED <<stage, shown, coverage_report>>,
             call' # "idle" => pc = "collected"
      PROVE  Tabled'
  <2>1. CASE pc \in Terminal
    BY <1>b, <1>c, <1>d, <2>1 DEF Tabled, Counted, Terminal
  <2>2. CASE pc \notin Terminal
    BY <1>b, <1>d, <2>2 DEF Tabled, Counted, Terminal
  <2> QED  BY <2>1, <2>2
<1> USE DEF Terminal
<1>1. CASE AuditOrchestrator
  <2>1. call' # "idle" => pc = "collected"
    BY <1>1, <1>b, AnalysisFollows DEF AuditOrchestrator, KlsStep, analysisVars, Tabled
  <2> QED  BY <1>1, <1>d, <2>1 DEF AuditOrchestrator, mainVars
<1>2. CASE FailFast
  BY <1>2, <1>b DEF FailFast, kls, vars, analysisVars, Tabled, Counted
<1>3. CASE CountFindingsBySeverity
  BY <1>3, <1>b DEF CountFindingsBySeverity, kls, vars, analysisVars, Tabled, Counted
<1>4. CASE CountCoverage
  <2>1. UNCHANGED <<pc, call, items, issues, visited_count, discovered_count, excluded_count>>
    BY <1>4 DEF CountCoverage, kls, vars, analysisVars, output
  <2>2. Cardinality(shown) = Len(items)
    <3>1. shown = 1..Len(items) /\ Len(items) \in Nat
      BY <1>4, <1>b DEF CountCoverage, Tabled
    <3>2. Cardinality(1..Len(items)) = IF 1 > Len(items) THEN 0 ELSE Len(items) - 1 + 1
      BY <3>1, FS_Interval
    <3> QED  BY <3>1, <3>2
  <2> QED  BY <1>4, <1>b, <2>1, <2>2 DEF CountCoverage, Tabled, Counted
<1>5. CASE ProcessOutput
  BY <1>5, <1>b DEF ProcessOutput, kls, vars, analysisVars, output, Tabled, Counted
<1>6. CASE StartRow \/ RenderNames \/ RenderAsksAgain \/ RenderAborts \/ Exit
  <2>1. /\ stage = "render" /\ stage' \in {"render", "over"}
        /\ UNCHANGED <<vars, analysisVars, coverage_report>>
    BY <1>6 DEF StartRow, RenderNames, RenderAsksAgain, RenderAborts, Exit, kls, mainVars
  <2> QED  BY <1>b, <2>1 DEF vars, analysisVars, output, Tabled, Counted
<1>7. CASE OtherProcesses
  <2>1. UNCHANGED <<stage, shown, coverage_report>>
    BY <1>7 DEF OtherProcesses, mainVars
  <2>2. call' # "idle" => pc = "collected"
    BY <1>7, <1>b, AnalysisFollows DEF OtherProcesses, Meanwhile, analysisVars, Tabled
  <2> QED  BY <1>d, <2>1, <2>2
<1>8. CASE UNCHANGED auditVars
  BY <1>8, <1>b, <1>d DEF auditVars, mainVars, kls, analysisVars, Tabled
<1> QED
  BY <1>1, <1>2, <1>3, <1>4, <1>5, <1>6, <1>7, <1>8 DEF AuditNext, Main

(* Whatever happened to the tree meanwhile, and whichever calls failed:    *)
(* the rows of the coverage table add up to what readdir returned.         *)
THEOREM CoverageTableAddsUp == AuditSpec => []CoverageAddsUp
<1>1. AuditSpec => []CoverageInv
  BY CoverageInit, CoverageStep, PTL DEF AuditSpec
<1>2. CoverageInv => CoverageAddsUp
  <2> SUFFICES ASSUME CoverageInv, Counted PROVE CoverageAddsUp
    BY DEF CoverageAddsUp
  <2>1. /\ pc = "collected"
        /\ coverage_report = CoverageAggregator(Len(items), issues,
             visited_count, discovered_count, excluded_count)
    BY DEF CoverageInv, Tabled, Counted
  <2>2. discovered_count = Len(items) + Cardinality(IssuesAt("entry"))
    <3>1. Len(items) \in Nat /\ Cardinality(IssuesAt("entry")) \in Nat
      BY Tallies DEF CoverageInv, Books, Shape, TypeOK
    <3> QED  BY <2>1, <3>1 DEF CoverageInv, Books, EntryAccounting, Reported, InEntry
  <2>3. /\ Len(items) \in Nat /\ Cardinality(IssuesAt("entry")) \in Nat
        /\ Cardinality(OfDirectories) \in Nat /\ Cardinality(Uncounted) \in Nat
        /\ excluded_count \in Nat
        /\ \A counter : Tally(issues, counter) \in Nat
    BY Tallies DEF CoverageInv, Books, Shape, TypeOK
  <2>4. Cardinality(IssuesAt("entry")) + Cardinality(OfDirectories)
          = Six + excluded_count + Cardinality(Uncounted)
    BY DEF CoverageInv, Balance
  <2>5. discovered_count + Cardinality(OfDirectories) =
          (Len(items) + Tally(issues, "denied") + Tally(issues, "disappeared")
           + Tally(issues, "unstable") + Tally(issues, "unsupported"))
          + Tally(issues, "limits_reached") + Tally(issues, "skipped")
          + excluded_count + Cardinality(Uncounted)
    <3> DEFINE e == Cardinality(IssuesAt("entry"))
               d == Cardinality(OfDirectories)
               u == Cardinality(Uncounted)
               n == Len(items)
               c1 == Tally(issues, "denied")
               c2 == Tally(issues, "disappeared")
               c3 == Tally(issues, "unstable")
               c4 == Tally(issues, "unsupported")
               c5 == Tally(issues, "limits_reached")
               c6 == Tally(issues, "skipped")
    <3>1. /\ e \in Nat /\ d \in Nat /\ u \in Nat /\ n \in Nat /\ excluded_count \in Nat
          /\ c1 \in Nat /\ c2 \in Nat /\ c3 \in Nat /\ c4 \in Nat /\ c5 \in Nat /\ c6 \in Nat
          /\ discovered_count = n + e
          /\ e + d = (c1 + c2 + c3 + c4 + c5 + c6) + excluded_count + u
      BY <2>2, <2>3, <2>4 DEF Six
    <3> HIDE DEF e, d, u, n, c1, c2, c3, c4, c5, c6
    <3>2. (n + e) + d = (n + c1 + c2 + c3 + c4) + c5 + c6 + excluded_count + u
      BY <3>1, RowsSum
    <3>3. discovered_count + d = (n + c1 + c2 + c3 + c4) + c5 + c6 + excluded_count + u
      BY <3>1, <3>2
    <3> QED  BY <3>3 DEF e, d, u, n, c1, c2, c3, c4, c5, c6
  <2> QED  BY <2>1, <2>5 DEF CoverageAddsUp, CoverageAggregator, Evaluable
<1> QED
  BY <1>1, <1>2, PTL

(* When the table shows no loss, every issue about an entry is in no row,  *)
(* and there is none about a directory.                                    *)
LEMMA NoLoss ==
  ASSUME CoverageInv, Counted, LosslessTable(coverage_report)
  PROVE  OfDirectories = {} /\ Uncounted = IssuesAt("entry")
<1> DEFINE e == Cardinality(IssuesAt("entry"))
           d == Cardinality(OfDirectories)
           u == Cardinality(Uncounted)
<1>1. issues \in Seq(ScanIssue)
  BY DEF CoverageInv, Books, Shape, TypeOK
<1>2. /\ Six = 0 /\ excluded_count = 0
  <2>1. coverage_report = CoverageAggregator(Len(items), issues,
          visited_count, discovered_count, excluded_count)
    BY DEF CoverageInv, Tabled
  <2> QED  BY <2>1 DEF CoverageAggregator, LosslessTable, Six
<1>3. /\ e \in Nat /\ d \in Nat /\ u \in Nat
      /\ IsFiniteSet(IssuesAt("entry")) /\ IsFiniteSet(OfDirectories)
  BY <1>1, Tallies, Counts
<1>4. e + d = u
  BY <1>2, <1>3 DEF CoverageInv, Balance
<1>5. Uncounted \subseteq IssuesAt("entry")
  BY DEF Uncounted
<1>6. u <= e /\ (u = e => Uncounted = IssuesAt("entry"))
  BY <1>3, <1>5, FS_Subset
<1>7. d = 0 /\ u = e
  <2> HIDE DEF e, d, u
  <2> QED  BY <1>3, <1>4, <1>6
<1>8. OfDirectories = {}
  BY <1>3, <1>7, FS_EmptySet
<1> QED
  BY <1>6, <1>7, <1>8

(* The counters that main shows and the walk of the scanner agree: without *)
(* losses in the table, all that stood still is in the list.               *)
THEOREM LosslessIsComplete == AuditSpec => []LosslessMeansComplete
<1>1. AuditSpec => []CoverageInv
  BY CoverageInit, CoverageStep, PTL DEF AuditSpec
<1>2. AuditInit => Complete
  BY CompleteInit DEF AuditInit, AnalysisInit
<1>3. Complete /\ [AuditNext]_auditVars => Complete'
  BY ScanOrAfter, CompleteStep
<1>4. AuditSpec => []Complete
  BY <1>2, <1>3, PTL DEF AuditSpec
<1>5. CoverageInv /\ Complete => LosslessMeansComplete
  <2> SUFFICES ASSUME CoverageInv, Complete, Counted, LosslessTable(coverage_report),
                      NEW s \in Standing
               PROVE  \/ Listed(items, s.path, s.inode)
                      \/ \E k \in Uncounted : Prefix(issues[k].path, s.path)
    BY DEF LosslessMeansComplete
  <2>1. TypeOK /\ Reason /\ pc = "collected"
    BY DEF Complete, Counted
  <2>2. PICK fds \in Seq(DirInode), paths \in Seq(Seq(Name)) :
          Len(paths) = Len(fds) /\ Closed(fds, paths, items)
    BY <2>1 DEF Reason
  <2>3. Listed(items, s.path, s.inode) \/ Excused(s.path)
    BY <2>1, <2>2, StandingAccounted
  <2>4. ASSUME NEW k \in DOMAIN issues, issues[k].site # "link",
               Prefix(issues[k].path, s.path)
        PROVE  k \in Uncounted
    <3>1. issues[k] \in ScanIssue
      BY <2>1 DEF TypeOK
    <3>2. issues[k].site \in {"entry", "directory"}
      BY <2>4, <3>1 DEF ScanIssue
    <3>3. k \in IssuesAt("entry") \/ k \in OfDirectories
      BY <3>2 DEF IssuesAt, OfDirectories
    <3> QED  BY <3>3, NoLoss
  <2> QED  BY <2>3, <2>4 DEF Excused
<1> QED
  BY <1>1, <1>4, <1>5, PTL

---------------------------------------------------------------------------

(* Every name in a row is the one the cache holds for its account, and the *)
(* cache does not change its mind.                                         *)
RowType == [item : DOMAIN items, owner : Column, group : Column]

Cached ==
  /\ attr \in [Inode -> Metadata]
  /\ IdentityTypeOK
  /\ stage \in {"orchestrate", "count_coverage", "process_output", "render", "over"}
  /\ stage \in {"count_coverage", "process_output", "render"} => pc = "collected"
  /\ stage = "over" => pc \in Terminal
  /\ stage = "orchestrate" => rows = <<>> /\ shown = {}
  /\ shown \subseteq DOMAIN items
  /\ rows \in Seq(RowType)
  /\ \A k \in DOMAIN rows :
       /\ rows[k].owner # "absent" => owners[Owner(rows[k].item)] = rows[k].owner
       /\ rows[k].group # "absent" => groups[Group(rows[k].item)] = rows[k].group

CacheInv == Books /\ Tabled /\ Cached

LEMMA CacheInit == AuditInit => CacheInv
<1> SUFFICES ASSUME AuditInit PROVE Cached
  BY CoverageInit DEF CoverageInv, CacheInv
<1>1. attr \in [Inode -> Metadata]
  BY AnalyzersAssumption DEF AuditInit, AnalysisInit
<1> QED
  BY <1>1 DEF AuditInit, IdentityInit, Cached, IdentityTypeOK, Cache

(* A name given is the cache's from then on, for every account. *)
LEMMA CacheGrows ==
  ASSUME IdentityTypeOK, NEW a \in Account, NEW name,
         OwnersName(a, name) \/ GroupsName(a, name)
  PROVE  /\ name \in {"name", "UNKNOWN"}
         /\ IdentityTypeOK'
         /\ \A b \in Account : owners[b] # "absent" => owners'[b] = owners[b]
         /\ \A b \in Account : groups[b] # "absent" => groups'[b] = groups[b]
         /\ OwnersName(a, name) => owners'[a] = name
         /\ GroupsName(a, name) => groups'[a] = name
<1> USE DEF IdentityTypeOK, Cache
<1>1. ASSUME OwnersName(a, name)
      PROVE  /\ name \in {"name", "UNKNOWN"}
             /\ owners' = [owners EXCEPT ![a] = name] /\ groups' = groups
             /\ owners[a] # "absent" => owners[a] = name
  BY <1>1 DEF OwnersName, LooksUp, NameFor
<1>2. ASSUME GroupsName(a, name)
      PROVE  /\ name \in {"name", "UNKNOWN"}
             /\ groups' = [groups EXCEPT ![a] = name] /\ owners' = owners
             /\ groups[a] # "absent" => groups[a] = name
  BY <1>2 DEF GroupsName, LooksUp, NameFor
<1>3. CASE OwnersName(a, name)
  BY <1>1, <1>2, <1>3
<1>4. CASE GroupsName(a, name)
  BY <1>1, <1>2, <1>4
<1> QED
  BY <1>3, <1>4

LEMMA CacheStep ==
  CacheInv /\ Tabled' /\ Books' /\ [AuditNext]_auditVars => CacheInv'
<1> SUFFICES ASSUME CacheInv, Tabled', Books', [AuditNext]_auditVars PROVE Cached'
  BY DEF CacheInv
<1>a. ([Next]_vars \/ After) /\ attr' = attr
  BY ScanOrAfter
<1>b. Tabled /\ Cached /\ items \in Seq(AuditItem)
  BY DEF CacheInv, Books, Shape, TypeOK
<1>c. pc \in Terminal => items' = items /\ pc' = pc
  BY <1>a, ScanFrozen
<1>d. \A k \in DOMAIN items : /\ Owner(k) \in Account /\ Group(k) \in Account
  <2> SUFFICES ASSUME NEW k \in DOMAIN items
               PROVE  Owner(k) \in Account /\ Group(k) \in Account
    OBVIOUS
  <2>1. items[k].inode \in Inode
    <3>1. items[k] \in AuditItem
      BY <1>b
    <3> QED  BY <3>1 DEF AuditItem
  <2> QED  BY <1>b, <2>1 DEF Cached, Metadata, Owner, Group
<1>e. \A k \in DOMAIN rows : /\ rows[k] \in RowType
                             /\ rows[k].item \in DOMAIN items
                             /\ Owner(rows[k].item) \in Account
                             /\ Group(rows[k].item) \in Account
  <2>1. \A k \in DOMAIN rows : rows[k] \in RowType
    BY <1>b DEF Cached
  <2> QED  BY <1>d, <2>1 DEF RowType
(* Nothing main keeps changes. *)
<1>f. ASSUME UNCHANGED <<stage, rows, shown, resolver>>
      PROVE  Cached'
  <2>1. CASE pc \in Terminal
    BY <1>a, <1>b, <1>c, <1>f, <2>1 DEF Cached, IdentityTypeOK, resolver, RowType, Owner, Group
  <2>2. CASE pc \notin Terminal
    <3>1. stage = "orchestrate"
      BY <1>b, <2>2 DEF Cached, Terminal
    <3> QED  BY <1>a, <1>b, <1>f, <3>1 DEF Cached, IdentityTypeOK, resolver
  <2> QED  BY <2>1, <2>2
(* The stage moves on, and perhaps items are filtered out. *)
<1>g. ASSUME UNCHANGED <<vars, rows, resolver>>,
             shown' \subseteq DOMAIN items, stage' # "orchestrate",
             stage' \in {"count_coverage", "process_output", "render", "over"},
             stage' = "over" => pc \in Terminal,
             stage' # "over" => pc = "collected"
      PROVE  Cached'
  <2>1. UNCHANGED <<pc, items>>
    BY <1>g DEF vars
  <2> QED  BY <1>a, <1>b, <1>g, <2>1 DEF Cached, IdentityTypeOK, resolver, RowType, Owner, Group
<1>1. CASE AuditOrchestrator
  BY <1>1, <1>f DEF AuditOrchestrator, mainVars
<1>2. CASE FailFast
  BY <1>2, <1>b, <1>g DEF FailFast, kls, Cached, Terminal
<1>3. CASE CountFindingsBySeverity
  BY <1>3, <1>b, <1>g DEF CountFindingsBySeverity, kls, Tabled
<1>4. CASE CountCoverage
  BY <1>4, <1>b, <1>g DEF CountCoverage, kls, Cached
<1>5. CASE ProcessOutput
  BY <1>5, <1>b, <1>g DEF ProcessOutput, kls, Cached
<1>6. CASE RenderAborts \/ Exit
  BY <1>6, <1>b, <1>g DEF RenderAborts, Exit, Throws, kls, Cached, Terminal
<1>7. CASE RenderAsksAgain
  BY <1>7, <1>f DEF RenderAsksAgain, AsksAgain, mainVars
<1>8. CASE StartRow
  <2> DEFINE len == Len(rows)
  <2>1. PICK k \in shown : rows' = Append(rows, [item |-> k, owner |-> "absent",
                                                 group |-> "absent"])
    BY <1>8 DEF StartRow
  <2>2. /\ UNCHANGED <<pc, items, attr, resolver, shown, stage>>
        /\ stage = "render" /\ pc = "collected"
    BY <1>8, <1>b DEF StartRow, kls, vars, analysisVars, Cached
  <2>3. [item |-> k, owner |-> "absent", group |-> "absent"] \in RowType
    BY <1>b DEF Cached, RowType, Column
  <2>4. /\ rows \in Seq(RowType) /\ rows' \in Seq(RowType)
        /\ len \in Nat /\ DOMAIN rows = 1..len /\ DOMAIN rows' = 1..(len + 1)
        /\ \A j \in 1..len : rows'[j] = rows[j]
        /\ rows'[len + 1] = [item |-> k, owner |-> "absent", group |-> "absent"]
    BY <1>b, <2>1, <2>3 DEF Cached
  <2>5. ASSUME NEW j \in DOMAIN rows'
        PROVE  /\ rows'[j].owner # "absent" => owners'[Owner(rows[j].item)'] = rows'[j].owner
               /\ rows'[j].group # "absent" => groups'[Group(rows[j].item)'] = rows'[j].group
    <3>1. CASE j \in 1..len
      BY <1>b, <2>2, <2>4, <3>1 DEF Cached, resolver, Owner, Group
    <3>2. CASE j = len + 1
      BY <2>4, <3>2
    <3> QED  BY <2>4, <3>1, <3>2
  <2> HIDE DEF len
  <2>6. rows' \in Seq(RowType)'
    BY <2>2, <2>4 DEF RowType
  <2> QED  BY <1>b, <2>2, <2>5, <2>6 DEF Cached, IdentityTypeOK, resolver
<1>9. CASE RenderNames
  <2> DEFINE len == Len(rows)
             a == Owner(Row.item)
             g == Group(Row.item)
  <2>1. /\ UNCHANGED <<pc, items, attr, shown, stage>>
        /\ stage = "render" /\ pc = "collected" /\ rows # <<>>
    BY <1>9, <1>b DEF RenderNames, RowInProgress, vars, analysisVars, Cached
  <2>2. /\ rows \in Seq(RowType) /\ len \in Nat \ {0}
        /\ DOMAIN rows = 1..len /\ len \in DOMAIN rows /\ Row = rows[len]
    BY <1>b, <2>1 DEF Cached, Row
  <2>3. Row \in RowType /\ a \in Account /\ g \in Account
    BY <1>e, <2>2
  <2>4. PICK name \in {"name", "UNKNOWN"} :
          \/ /\ Row.owner = "absent" /\ OwnersName(a, name)
             /\ rows' = [rows EXCEPT ![len].owner = name]
          \/ /\ Row.group = "absent" /\ GroupsName(g, name)
             /\ rows' = [rows EXCEPT ![len].group = name]
    BY <1>9 DEF RenderNames
  <2>5. /\ IdentityTypeOK'
        /\ \A b \in Account : owners[b] # "absent" => owners'[b] = owners[b]
        /\ \A b \in Account : groups[b] # "absent" => groups'[b] = groups[b]
        /\ OwnersName(a, name) => owners'[a] = name
        /\ GroupsName(g, name) => groups'[g] = name
    BY <1>b, <2>3, <2>4, CacheGrows DEF Cached
  <2>6. \A j \in DOMAIN rows' :
          /\ Owner(rows[j].item)' = Owner(rows'[j].item)
          /\ Group(rows[j].item)' = Group(rows'[j].item)
    BY <2>1 DEF Owner, Group
  <2>7. /\ rows' \in Seq(RowType) /\ DOMAIN rows' = DOMAIN rows
        /\ \A j \in DOMAIN rows : j # len => rows'[j] = rows[j]
        /\ \/ rows'[len] = [Row EXCEPT !.owner = name] /\ OwnersName(a, name)
           \/ rows'[len] = [Row EXCEPT !.group = name] /\ GroupsName(g, name)
    <3>1. ASSUME NEW r \in RowType, rows' = [rows EXCEPT ![len] = r]
          PROVE  /\ rows' \in Seq(RowType) /\ DOMAIN rows' = DOMAIN rows
                 /\ \A j \in DOMAIN rows : j # len => rows'[j] = rows[j]
                 /\ rows'[len] = r
      BY <2>2, <3>1
    <3>2. /\ [Row EXCEPT !.owner = name] \in RowType
          /\ [Row EXCEPT !.group = name] \in RowType
      BY <2>3, <2>4 DEF RowType, Column
    <3> HIDE DEF len, a, g
    <3>3. CASE OwnersName(a, name) /\ rows' = [rows EXCEPT ![len].owner = name]
      <4>1. rows' = [rows EXCEPT ![len] = [Row EXCEPT !.owner = name]]
        BY <2>2, <3>3
      <4> QED  BY <3>1, <3>2, <3>3, <4>1
    <3>4. CASE GroupsName(g, name) /\ rows' = [rows EXCEPT ![len].group = name]
      <4>1. rows' = [rows EXCEPT ![len] = [Row EXCEPT !.group = name]]
        BY <2>2, <3>4
      <4> QED  BY <3>1, <3>2, <3>4, <4>1
    <3> QED  BY <2>4, <3>3, <3>4
  <2> HIDE DEF len, a, g
  <2>8. ASSUME NEW j \in DOMAIN rows'
        PROVE  /\ rows'[j].owner # "absent" => owners'[Owner(rows'[j].item)] = rows'[j].owner
               /\ rows'[j].group # "absent" => groups'[Group(rows'[j].item)] = rows'[j].group
    <3>1. /\ rows[j].owner # "absent" => owners'[Owner(rows[j].item)] = rows[j].owner
          /\ rows[j].group # "absent" => groups'[Group(rows[j].item)] = rows[j].group
      BY <1>b, <1>e, <2>5, <2>7 DEF Cached
    <3>2. CASE j # len
      BY <2>7, <3>1, <3>2
    <3>3. CASE j = len
      <4>1. Row = rows[j] /\ Row \in RowType
        BY <2>2, <2>3, <3>3
      <4>2. a = Owner(rows[j].item) /\ g = Group(rows[j].item)
        BY <4>1 DEF a, g
      <4>3. CASE rows'[j] = [Row EXCEPT !.owner = name] /\ OwnersName(a, name)
        <5>1. /\ rows'[j].owner = name /\ rows'[j].group = rows[j].group
              /\ rows'[j].item = rows[j].item
          BY <4>1, <4>3 DEF RowType
        <5> QED  BY <2>5, <3>1, <4>2, <4>3, <5>1
      <4>4. CASE rows'[j] = [Row EXCEPT !.group = name] /\ GroupsName(g, name)
        <5>1. /\ rows'[j].group = name /\ rows'[j].owner = rows[j].owner
              /\ rows'[j].item = rows[j].item
          BY <4>1, <4>4 DEF RowType
        <5> QED  BY <2>5, <3>1, <4>2, <4>4, <5>1
      <4> QED  BY <2>7, <3>3, <4>3, <4>4
    <3> QED  BY <3>2, <3>3
  <2>9. rows' \in Seq(RowType)'
    BY <2>1, <2>7 DEF RowType
  <2> QED  BY <1>b, <2>1, <2>5, <2>6, <2>8, <2>9 DEF Cached
<1>10. CASE OtherProcesses
  BY <1>10, <1>f DEF OtherProcesses, mainVars
<1>11. CASE UNCHANGED auditVars
  BY <1>11, <1>f DEF auditVars, mainVars
<1> QED
  BY <1>1, <1>2, <1>3, <1>4, <1>5, <1>6, <1>7, <1>8, <1>9, <1>10, <1>11
     DEF AuditNext, Main

(* However accounts come and go while the report is written, one account   *)
(* has one name in it.                                                     *)
THEOREM NamesAgree == AuditSpec => []RowsAgree
<1>1. AuditSpec => []CoverageInv
  BY CoverageInit, CoverageStep, PTL DEF AuditSpec
<1>2. CoverageInv => Books /\ Tabled
  BY DEF CoverageInv
<1>3. AuditSpec => []CacheInv
  BY <1>1, <1>2, CacheInit, CacheStep, PTL DEF AuditSpec
<1>4. CacheInv => RowsAgree
  <2> SUFFICES ASSUME CacheInv, NEW j \in DOMAIN rows, NEW k \in DOMAIN rows
               PROVE  /\ Owner(rows[j].item) = Owner(rows[k].item) =>
                           \/ rows[j].owner = rows[k].owner
                           \/ rows[j].owner = "absent" \/ rows[k].owner = "absent"
                      /\ Group(rows[j].item) = Group(rows[k].item) =>
                           \/ rows[j].group = rows[k].group
                           \/ rows[j].group = "absent" \/ rows[k].group = "absent"
    BY DEF RowsAgree
  <2> QED  BY DEF CacheInv, Cached
<1> QED
  BY <1>3, <1>4, PTL

---------------------------------------------------------------------------

(* Seen from the analysis, main is one of those that do something else. *)
LEMMA AuditSteps ==
  [AuditNext]_auditVars => AnalysisStep \/ Awaken \/ Elsewhere
<1> SUFFICES ASSUME [AuditNext]_auditVars PROVE AnalysisStep \/ Awaken \/ Elsewhere
  OBVIOUS
<1>1. CASE AuditOrchestrator
  BY <1>1 DEF AuditOrchestrator, KlsStep, Next, Elsewhere, NsStep
<1>2. ASSUME UNCHANGED <<vars, analysisVars>>, NsStep PROVE Elsewhere
  BY <1>2 DEF Elsewhere
<1>3. CASE FailFast \/ CountFindingsBySeverity \/ CountCoverage \/ ProcessOutput
           \/ StartRow \/ Exit
  <2>1. UNCHANGED kls
    BY <1>3 DEF FailFast, CountFindingsBySeverity, CountCoverage, ProcessOutput, StartRow, Exit
  <2> QED  BY <1>2, <2>1 DEF kls, NsStep
<1>4. CASE RenderNames
  <2>1. NsStep
    BY <1>4 DEF RenderNames, OwnersName, GroupsName, LooksUp, NsStep
  <2> QED  BY <1>2, <1>4, <2>1 DEF RenderNames
<1>5. CASE RenderAsksAgain \/ RenderAborts
  <2>1. NsStep
    BY <1>5 DEF RenderAsksAgain, RenderAborts, AsksAgain, Throws, NsStep
  <2> QED  BY <1>2, <1>5, <2>1 DEF RenderAsksAgain, RenderAborts
<1>6. CASE OtherProcesses
  <2>1. CASE World /\ UNCHANGED <<nsVars, analysisVars>>
    BY <2>1 DEF Next, Elsewhere, NsStep
  <2>2. CASE Meanwhile
    BY <2>2 DEF Meanwhile, After, Elsewhere, NsStep
  <2>3. CASE AccountChange /\ UNCHANGED <<vars, analysisVars>>
    BY <1>2, <2>3 DEF NsStep
  <2> QED  BY <1>6, <2>1, <2>2, <2>3 DEF OtherProcesses
<1>7. CASE UNCHANGED auditVars
  BY <1>2, <1>7 DEF auditVars, kls, NsStep
<1> QED
  BY <1>1, <1>3, <1>4, <1>5, <1>6, <1>7 DEF AuditNext, Main

(* The analysis is over before main goes on, unless the scan failed. *)
Ended == call = "analyzed" \/ (call = "idle" /\ pc = "failed")

Staged ==
  /\ AnalysisInv /\ FindingsInv
  /\ CacheInv
  /\ stage # "orchestrate" => Ended
  /\ stage \in {"count_coverage", "process_output", "render"} => call = "analyzed"
  /\ rows # <<>> => call = "analyzed"

LEMMA StagedInit == AuditInit => Staged
BY AnalysisInvInit, FindingsInvInit, CacheInit DEF AuditInit, Staged

(* Nothing of the analysis moves once main has gone on. *)
LEMMA EndedStays ==
  ASSUME Staged, [AuditNext]_auditVars
  PROVE  /\ stage # "orchestrate" => UNCHANGED <<pc, items, attr, call, at, findings>>
         /\ stage # "orchestrate" => stage' # "orchestrate"
         /\ NsInv /\ NsStep
<1>1. NsInv /\ NsStep
  BY AuditSteps, AnalysisNsStep DEF Staged, AnalysisInv, Elsewhere
<1>2. ASSUME stage # "orchestrate"
      PROVE  UNCHANGED <<pc, items, attr, call, at, findings>> /\ stage' # "orchestrate"
  <2>1. Ended /\ pc \in Terminal
    BY <1>2 DEF Staged, Ended, AnalysisInv, Terminal
  <2>2. UNCHANGED <<pc, items, attr>>
    BY <2>1, ScanOrAfter, ScanFrozen
  <2>3. UNCHANGED analysisVars \/ Awaken \/ (Meanwhile /\ UNCHANGED analysisVars)
    BY <1>2 DEF AuditNext, Main, AuditOrchestrator, FailFast, CountFindingsBySeverity,
       CountCoverage, ProcessOutput, StartRow, RenderNames, RenderAsksAgain, RenderAborts,
       Exit, OtherProcesses, auditVars, kls, Meanwhile
  <2>4. UNCHANGED analysisVars
    BY <2>1, <2>3 DEF Awaken, Ended
  <2>5. stage' # "orchestrate"
    BY <1>2 DEF AuditNext, Main, AuditOrchestrator, FailFast, CountFindingsBySeverity,
       CountCoverage, ProcessOutput, StartRow, RenderNames, RenderAsksAgain, RenderAborts,
       Exit, OtherProcesses, auditVars, mainVars
  <2> QED  BY <2>2, <2>4, <2>5 DEF analysisVars
<1> QED
  BY <1>1, <1>2

LEMMA StagedStep ==
  Staged /\ Tabled' /\ [AuditNext]_auditVars => Staged'
<1> SUFFICES ASSUME Staged, Tabled', [AuditNext]_auditVars PROVE Staged'
  OBVIOUS
<1>1. AnalysisInv' /\ FindingsInv'
  BY AuditSteps, AnalysisKeepsInv, ElsewhereKeepsInv, FindingsInvStep DEF Staged
<1>2. CacheInv'
  BY <1>1, CacheStep DEF Staged, AnalysisInv
<1>3. ASSUME stage # "orchestrate"
      PROVE  /\ Ended'
             /\ stage' \in {"count_coverage", "process_output", "render"} => call' = "analyzed"
             /\ rows' # <<>> => call' = "analyzed"
  <2>1. UNCHANGED <<pc, call>> /\ Ended
    BY <1>3, EndedStays DEF Staged
  <2>2. stage = "over" => stage' = "over"
    BY DEF AuditNext, Main, AuditOrchestrator, FailFast, CountFindingsBySeverity,
       CountCoverage, ProcessOutput, StartRow, RenderNames, RenderAsksAgain, RenderAborts,
       Exit, OtherProcesses, auditVars, mainVars
  <2>3. stage \in {"orchestrate", "count_coverage", "process_output", "render", "over"}
    BY DEF Staged, CacheInv, Cached
  <2>4. stage # "render" => UNCHANGED rows
    BY DEF AuditNext, Main, AuditOrchestrator, FailFast, CountFindingsBySeverity,
       CountCoverage, ProcessOutput, StartRow, RenderNames, RenderAsksAgain, RenderAborts,
       Exit, OtherProcesses, auditVars, mainVars
  <2> QED  BY <1>3, <2>1, <2>2, <2>3, <2>4 DEF Staged, Ended
<1>4. CASE stage = "orchestrate"
  <2>a. rows = <<>>
    BY <1>4 DEF Staged, CacheInv, Cached
  <2>1. CASE AuditOrchestrator \/ OtherProcesses \/ UNCHANGED auditVars
    BY <1>1, <1>2, <1>4, <2>1, <2>a DEF AuditOrchestrator, OtherProcesses, auditVars, mainVars,
       Staged
  <2>2. CASE FailFast
    <3>1. /\ call = "idle" /\ UNCHANGED <<call, pc, rows>> /\ pc = "failed"
          /\ stage' = "over"
      BY <2>2 DEF FailFast, Staged, AnalysisInv, kls, vars, analysisVars
    <3> QED  BY <1>1, <1>2, <2>a, <3>1 DEF Staged, Ended
  <2>3. CASE CountFindingsBySeverity
    BY <1>1, <1>2, <2>3 DEF CountFindingsBySeverity, kls, analysisVars, Staged, Ended
  <2> QED  BY <1>4, <2>1, <2>2, <2>3 DEF AuditNext, Main, CountCoverage, ProcessOutput,
              StartRow, RenderNames, RenderAsksAgain, RenderAborts, Exit
<1> QED
  BY <1>1, <1>2, <1>3, <1>4 DEF Staged

LEMMA RunStaged == AuditSpec => []Staged
<1>1. AuditSpec => []CoverageInv
  BY CoverageInit, CoverageStep, PTL DEF AuditSpec
<1>2. CoverageInv => Tabled
  BY DEF CoverageInv
<1> QED
  BY <1>1, <1>2, StagedInit, StagedStep, PTL DEF AuditSpec

---------------------------------------------------------------------------

(* While no account comes or goes, the cache tells who is there.           *)
Known(cache) ==
  \A a \in Account : /\ cache[a] = "name" => a \in known
                     /\ cache[a] = "UNKNOWN" => a \notin known

NamesInv ==
  account_changes = 0 => lost = Account \ known /\ Known(owners) /\ Known(groups)

LEMMA NamesInvInit == AuditInit => NamesInv
BY DEF AuditInit, AnalysisInit, NsInit, IdentityInit, NamesInv, Known

LEMMA NamesInvStep ==
  Staged /\ NamesInv /\ [AuditNext]_auditVars => NamesInv'
<1> SUFFICES ASSUME Staged, NamesInv, [AuditNext]_auditVars, account_changes' = 0
             PROVE  lost' = Account \ known' /\ Known(owners)' /\ Known(groups)'
  BY DEF NamesInv
<1>1. account_changes = 0 /\ UNCHANGED <<known, lost>>
  BY EndedStays, NsInvStep
<1>2. lost = Account \ known /\ Known(owners) /\ Known(groups)
  BY <1>1 DEF NamesInv
<1>3. CASE UNCHANGED resolver
  BY <1>1, <1>2, <1>3 DEF resolver, Known
<1>4. ASSUME NEW cache \in Cache, Known(cache), NEW a, NEW answer \in {"found", "missing"},
             LooksUp(cache, a, answer), NEW next, next = [cache EXCEPT ![a] = NameFor(answer)]
      PROVE  Known(next)
  <2>1. a \in Account => (answer = "found" <=> a \in known)
    <3>1. CASE cache[a] = "absent"
      BY <1>4, <3>1 DEF LooksUp, Looked
    <3>2. CASE cache[a] # "absent"
      BY <1>4, <3>2 DEF LooksUp, Known, Cache
    <3> QED  BY <3>1, <3>2
  <2> QED  BY <1>4, <2>1 DEF Known, NameFor, Cache
<1>5. CASE RenderNames
  <2>1. PICK name \in {"name", "UNKNOWN"} :
          \/ OwnersName(Owner(Row.item), name)
          \/ GroupsName(Group(Row.item), name)
    BY <1>5 DEF RenderNames
  <2>2. owners \in Cache /\ groups \in Cache
    BY DEF Staged, CacheInv, Cached, IdentityTypeOK
  <2>3. ASSUME NEW a, OwnersName(a, name) PROVE Known(owners)' /\ Known(groups)'
    <3>1. PICK answer \in {"found", "missing"} : LooksUp(owners, a, answer) /\ name = NameFor(answer)
      BY <2>3 DEF OwnersName
    <3>2. PICK next : next = [owners EXCEPT ![a] = NameFor(answer)]
      OBVIOUS
    <3>3. Known(next) /\ owners' = next /\ groups' = groups
      BY <1>2, <1>4, <2>2, <2>3, <3>1, <3>2 DEF OwnersName
    <3> QED  BY <1>1, <1>2, <3>3 DEF Known
  <2>4. ASSUME NEW a, GroupsName(a, name) PROVE Known(owners)' /\ Known(groups)'
    <3>1. PICK answer \in {"found", "missing"} : LooksUp(groups, a, answer) /\ name = NameFor(answer)
      BY <2>4 DEF GroupsName
    <3>2. PICK next : next = [groups EXCEPT ![a] = NameFor(answer)]
      OBVIOUS
    <3>3. Known(next) /\ groups' = next /\ owners' = owners
      BY <1>2, <1>4, <2>2, <2>4, <3>1, <3>2 DEF GroupsName
    <3> QED  BY <1>1, <1>2, <3>3 DEF Known
  <2> QED  BY <1>1, <1>2, <2>1, <2>3, <2>4
<1>6. CASE ~RenderNames
  <2>1. UNCHANGED resolver
    BY <1>6 DEF AuditNext, Main, AuditOrchestrator, FailFast, CountFindingsBySeverity,
       CountCoverage, ProcessOutput, StartRow, RenderAsksAgain, RenderAborts, AsksAgain,
       Throws, Exit, OtherProcesses, auditVars
  <2> QED  BY <1>3, <2>1
<1> QED
  BY <1>5, <1>6

(* The findings and the columns beside them, though nobody compares them:  *)
(* no row shows a name for an orphan, or UNKNOWN for an account that is    *)
(* not reported, unless an account came or went, or a lookup failed.       *)
THEOREM FindingsMatchNames == AuditSpec => []OrphansShowNoName
<1>1. AuditSpec => []NamesInv
  BY RunStaged, NamesInvInit, NamesInvStep, PTL DEF AuditSpec
<1>2. Staged /\ NamesInv => OrphansShowNoName
  <2> SUFFICES ASSUME Staged, NamesInv, account_changes = 0, NEW k \in DOMAIN rows
               PROVE  LET Agree(id, column, account) ==
                            column = "absent" \/ account \in failed
                            \/ (column = "UNKNOWN" <=> id \in Ids(rows[k].item))
                      IN /\ Agree("SU11", rows[k].owner, Owner(rows[k].item))
                         /\ Agree("SG05", rows[k].group, Group(rows[k].item))
    BY DEF OrphansShowNoName
  <2>1. PICK item, uid, gid, ids, passed :
          /\ item = rows[k].item /\ uid = Owner(item) /\ gid = Group(item)
          /\ ids = findings[item] /\ passed = Passed(item)
    OBVIOUS
  <2>2. /\ rows[k] \in RowType /\ rows # <<>> /\ stage # "orchestrate"
        /\ rows[k].owner # "absent" => owners[uid] = rows[k].owner
        /\ rows[k].group # "absent" => groups[gid] = rows[k].group
    BY <2>1 DEF Staged, CacheInv, Cached
  <2>3. /\ item \in DOMAIN items
        /\ rows[k].owner \in Column /\ rows[k].group \in Column
    BY <2>1, <2>2 DEF RowType
  <2>4. items \in Seq(AuditItem) /\ call = "analyzed"
    BY <2>2 DEF Staged, AnalysisInv, Books, Shape, TypeOK
  <2>5. item \in 1..Len(items) /\ item \in DOMAIN findings
    BY <2>3, <2>4 DEF Staged, AnalysisInv, AnalysisTypeOK
  <2>6. uid \in Account /\ gid \in Account /\ uid = attr[items[item].inode].uid
        /\ gid = attr[items[item].inode].gid
    BY <2>1, <2>5, AccountsOfItems DEF Staged, Owner, Group
  <2>7. /\ Judged(ids, passed, "getpwuid", "SU11", uid)
        /\ Judged(ids, passed, "getgrgid", "SG05", gid)
    BY <2>1, <2>5, <2>6 DEF Staged, FindingsInv, InBooks
  <2>8. "getpwuid" \in passed /\ "getgrgid" \in passed
    BY <2>1, <2>4 DEF Passed, Finished, CallNames, Calls
  <2>9. lost = Account \ known /\ Known(owners) /\ Known(groups)
    BY DEF NamesInv
  <2>10. \A id : id \in Ids(item) <=> \E j \in DOMAIN ids : ids[j] = id
    BY <2>1 DEF Ids
  <2>11. rows[k].owner = "absent" \/ uid \in failed
         \/ (rows[k].owner = "UNKNOWN" <=> "SU11" \in Ids(item))
    BY <2>2, <2>3, <2>6, <2>7, <2>8, <2>9, <2>10 DEF Judged, Known, Column
  <2>12. rows[k].group = "absent" \/ gid \in failed
         \/ (rows[k].group = "UNKNOWN" <=> "SG05" \in Ids(item))
    BY <2>2, <2>3, <2>6, <2>7, <2>8, <2>9, <2>10 DEF Judged, Known, Column
  <2> QED  BY <2>1, <2>11, <2>12
<1> QED
  BY <1>1, <1>2, RunStaged, PTL

---------------------------------------------------------------------------

(* get_max_severity: at least a level if a finding is. *)
LEMMA LevelsOfIds ==
  ASSUME NEW id PROVE LevelOfId(id) \in Level
BY DEF LevelOfId, LevelOf, Level, Registered

LEMMA MaxSeverityReached ==
  ASSUME NEW ids, NEW f \in Level, f # 0
  PROVE  MaxSeverity(ids) >= f <=> \E id \in ids : LevelOfId(id) >= f
<1> DEFINE levels == {0} \cup {LevelOfId(id) : id \in ids}
           below  == {5 - l : l \in levels}
           m      == CHOOSE l \in levels : \A x \in levels : x <= l
<1>1. levels \subseteq 0..5
  BY LevelsOfIds DEF Level
<1>2. below \in SUBSET Nat /\ below # {}
  BY <1>1
<1>3. PICK x \in below : \A y \in below : x <= y
  BY <1>2, SmallestElement
<1>4. PICK l \in levels : x = 5 - l
  BY <1>3
<1>5. \A y \in levels : 5 - y \in below
  OBVIOUS
<1> HIDE DEF levels, below
<1>6. \A y \in levels : y <= l
  BY <1>1, <1>3, <1>4, <1>5
<1>7. m \in levels /\ \A y \in levels : y <= m
  BY <1>6
<1>8. MaxSeverity(ids) = m
  BY DEF MaxSeverity, levels
<1> HIDE DEF m
<1>9. m \in 0..5 /\ f \in 1..5
  BY <1>1, <1>7 DEF Level
<1>10. ASSUME m >= f PROVE \E id \in ids : LevelOfId(id) >= f
  <2>1. m # 0
    BY <1>9, <1>10
  <2>2. PICK id \in ids : m = LevelOfId(id)
    BY <1>7, <2>1 DEF levels
  <2> QED  BY <1>10, <2>2
<1>11. ASSUME NEW id \in ids, LevelOfId(id) >= f PROVE m >= f
  <2>1. LevelOfId(id) \in levels
    BY DEF levels
  <2>2. LevelOfId(id) <= m /\ LevelOfId(id) \in 0..5
    BY <1>1, <1>7, <2>1
  <2> QED  BY <1>9, <1>11, <2>2
<1> QED
  BY <1>8, <1>10, <1>11

(* What main counts, and what the count tells. *)
Raises(level) == \E k \in DOMAIN findings : \E id \in Ids(k) : LevelOfId(id) = level

LEMMA CountTells ==
  ASSUME Staged, CountFindingsBySeverity
  PROVE  /\ severity_counts' \in [Level -> Nat]
         /\ \A level \in Level : severity_counts'[level] > 0 <=> level # 0 /\ Raises(level)
<1> DEFINE pairs    == UNION {{k} \X DOMAIN findings[k] : k \in shown'}
           Of(level) == {pair \in pairs : LevelOfId(findings[pair[1]][pair[2]]) = level}
<1>1. /\ severity_counts' = [level \in Level |-> IF level = 0 THEN 0 ELSE Cardinality(Of(level))]
      /\ shown' = DOMAIN items /\ call = "analyzed"
  BY DEF CountFindingsBySeverity
<1>2. /\ findings \in Seq(Seq(Registered)) /\ DOMAIN findings = 1..Len(items)
      /\ DOMAIN items = 1..Len(items) /\ Len(items) \in Nat
  BY <1>1 DEF Staged, AnalysisInv, AnalysisTypeOK, Books, Shape, TypeOK
<1>3. IsFiniteSet(pairs)
  <2>1. \A k \in shown' : IsFiniteSet({k} \X DOMAIN findings[k])
    <3> SUFFICES ASSUME NEW k \in 1..Len(items) PROVE IsFiniteSet({k} \X DOMAIN findings[k])
      BY <1>1, <1>2
    <3>1. findings[k] \in Seq(Registered)
      BY <1>2
    <3>2. DOMAIN findings[k] = 1..Len(findings[k]) /\ Len(findings[k]) \in Nat
      BY <3>1
    <3>3. PICK n \in Nat : n = Len(findings[k])
      BY <3>2
    <3>4. IsFiniteSet(1..n)
      BY FS_Interval
    <3> QED  BY <3>2, <3>3, <3>4, FS_Singleton, FS_Product
  <2>2. IsFiniteSet(shown')
    BY <1>1, <1>2, FS_Interval
  <2> DEFINE g == [k \in shown' |-> {k} \X DOMAIN findings[k]]
             S == {g[k] : k \in shown'}
  <2>3. IsFiniteSet(S)
    <3>1. g \in [shown' -> S] /\ \A s \in S : \E k \in shown' : g[k] = s
      OBVIOUS
    <3> HIDE DEF g, S
    <3>2. g \in Surjection(shown', S)
      BY <3>1 DEF Surjection
    <3> QED  BY <2>2, <3>2, FS_Surjection
  <2>4. \A s \in S : IsFiniteSet(s)
    BY <2>1
  <2>5. pairs = UNION S
    OBVIOUS
  <2> HIDE DEF S, g
  <2> QED  BY <2>3, <2>4, <2>5, FS_UNION
<1>4. \A p : p \in pairs <=> \E k \in shown' : \E j \in DOMAIN findings[k] : p = <<k, j>>
  OBVIOUS
<1> HIDE DEF pairs
<1>5. ASSUME NEW level \in Level
      PROVE  /\ Cardinality(Of(level)) \in Nat
             /\ Cardinality(Of(level)) > 0 <=> Raises(level)
  <2>1. IsFiniteSet(Of(level))
    BY <1>3, FS_Subset
  <2>2. Cardinality(Of(level)) \in Nat /\ (Cardinality(Of(level)) = 0 <=> Of(level) = {})
    BY <2>1, FS_CardinalityType, FS_EmptySet
  <2>3. ASSUME NEW p \in Of(level) PROVE Raises(level)
    <3>0. PICK k \in shown' : \E j \in DOMAIN findings[k] : p = <<k, j>>
      BY <1>4
    <3>1. PICK j \in DOMAIN findings[k] : p = <<k, j>>
      BY <3>0
    <3>2. LevelOfId(findings[k][j]) = level
      BY <3>1
    <3>3. findings[k][j] \in Ids(k) /\ k \in DOMAIN findings
      BY <1>1, <1>2, <3>1 DEF Ids
    <3> QED  BY <3>2, <3>3 DEF Raises
  <2>4. ASSUME Raises(level) PROVE Of(level) # {}
    <3>1. PICK k \in DOMAIN findings : \E id \in Ids(k) : LevelOfId(id) = level
      BY <2>4 DEF Raises
    <3>2. PICK j \in DOMAIN findings[k] : LevelOfId(findings[k][j]) = level
      BY <3>1 DEF Ids
    <3>3. <<k, j>> \in pairs
      BY <1>1, <1>2, <1>4, <3>2
    <3>4. <<k, j>> \in Of(level)
      BY <3>2, <3>3
    <3> QED  BY <3>4
  <2> HIDE DEF Of
  <2> QED  BY <2>2, <2>3, <2>4
<1> HIDE DEF Of
<1> QED
  BY <1>1, <1>5 DEF Level

LEMMA TallyType ==
  ASSUME NEW S, NEW s \in Seq(S), NEW counter PROVE Tally(s, counter) \in Nat
<1>1. IsFiniteSet(DOMAIN s)
  <2>1. DOMAIN s = 1..Len(s) /\ Len(s) \in Nat
    OBVIOUS
  <2> QED  BY <2>1, FS_Interval
<1>2. IsFiniteSet({k \in DOMAIN s : Counter(s[k]) = counter})
  BY <1>1, FS_Subset
<1> QED
  BY <1>2, FS_CardinalityType DEF Tally

LEMMA ReportType ==
  ASSUME NEW S, NEW s \in Seq(S), NEW n \in Nat, NEW v \in Nat, NEW d \in Nat, NEW x \in Nat
  PROVE  CoverageAggregator(n, s, v, d, x) \in CoverageReport
BY TallyType DEF CoverageAggregator, CoverageReport

(* The exit status is decided by the findings of the scan, of which main   *)
(* has the count: it is taken before the filters.                          *)
Severe == \E k \in DOMAIN findings : \E id \in Ids(k) : LevelOfId(id) >= fail_on

MainInv ==
  /\ fail_on \in (Level \ {0}) \cup {Unset}
  /\ severity_counts \in [Level -> Nat]
  /\ coverage_report \in CoverageReport
  /\ exit_status \in {-1, 0, 2, 3, 4, 5, Aborted}
  /\ stage \in {"count_coverage", "process_output", "render"} =>
       \A level \in Level : severity_counts[level] > 0 <=> level # 0 /\ Raises(level)
  /\ stage = "over" =>
       \/ exit_status = Aborted /\ failed # {}
       \/ exit_status = 5 <=> pc = "collected" /\ fail_on # Unset /\ Severe

LEMMA MainInvInit == AuditInit => MainInv
<1> SUFFICES ASSUME AuditInit PROVE MainInv
  OBVIOUS
<1>1. NoReport \in CoverageReport
  <2>1. <<>> \in Seq(Nat)
    OBVIOUS
  <2> QED  BY <2>1, ReportType DEF NoReport
<1>2. NoCounts \in [Level -> Nat] /\ fail_on \in (Level \ {0}) \cup {Unset}
  BY AuditAssumption DEF AuditInit, NoCounts
<1> QED
  BY <1>1, <1>2 DEF AuditInit, MainInv

(* AtOrAbove looks at the counts, and so at the findings. *)
LEMMA AtOrAboveMeans ==
  ASSUME MainInv, stage = "render", fail_on # Unset
  PROVE  AtOrAbove(fail_on) <=> Severe
<1>1. /\ fail_on \in Level /\ fail_on # 0
      /\ \A level \in Level : severity_counts[level] > 0 <=> level # 0 /\ Raises(level)
  BY DEF MainInv
<1>2. ASSUME AtOrAbove(fail_on) PROVE Severe
  <2>1. PICK level \in Level : level >= fail_on /\ severity_counts[level] > 0
    BY <1>2 DEF AtOrAbove
  <2>2. Raises(level)
    BY <1>1, <2>1
  <2> QED  BY <2>1, <2>2 DEF Raises, Severe
<1>3. ASSUME Severe PROVE AtOrAbove(fail_on)
  <2>1. PICK k \in DOMAIN findings, id \in UNION {Ids(j) : j \in DOMAIN findings} :
          id \in Ids(k) /\ LevelOfId(id) >= fail_on
    BY <1>3 DEF Severe
  <2>2. LevelOfId(id) \in Level /\ Raises(LevelOfId(id))
    BY <2>1, LevelsOfIds DEF Raises
  <2>3. LevelOfId(id) # 0
    BY <1>1, <2>1, <2>2 DEF Level
  <2> QED  BY <1>1, <2>1, <2>2, <2>3 DEF AtOrAbove
<1> QED
  BY <1>2, <1>3

LEMMA MainInvStep ==
  Staged /\ MainInv /\ [AuditNext]_auditVars => MainInv'
<1> SUFFICES ASSUME Staged, MainInv, [AuditNext]_auditVars PROVE MainInv'
  OBVIOUS
<1>a. /\ stage # "orchestrate" => UNCHANGED <<pc, call, findings>> /\ stage' # "orchestrate"
      /\ failed \subseteq failed'
  BY EndedStays, NsInvStep
<1>b. stage # "orchestrate" => \A level : Raises(level)' = Raises(level)
  BY <1>a DEF Raises, Ids
<1>c. stage # "orchestrate" /\ UNCHANGED fail_on => Severe' = Severe
  BY <1>a DEF Severe, Ids
(* Main's own counts and its status stay as they are. *)
<1>d. ASSUME UNCHANGED <<fail_on, stage, severity_counts, coverage_report, exit_status>>
      PROVE  MainInv'
  BY <1>a, <1>b, <1>c, <1>d DEF MainInv
<1>1. CASE AuditOrchestrator
  BY <1>1, <1>d DEF AuditOrchestrator, mainVars
<1>2. CASE FailFast
  <2>1. /\ pc' = "failed" /\ UNCHANGED <<fail_on, severity_counts, coverage_report>>
        /\ stage' = "over" /\ exit_status' \in {2, 3, 4}
    BY <1>2 DEF FailFast, ScanErrorStatus, kls, vars
  <2> QED  BY <2>1 DEF MainInv
<1>3. CASE CountFindingsBySeverity
  <2>1. /\ UNCHANGED <<fail_on, coverage_report, exit_status, findings>>
        /\ stage' = "count_coverage"
    BY <1>3 DEF CountFindingsBySeverity, kls, analysisVars
  <2>2. \A level : Raises(level)' = Raises(level)
    BY <2>1 DEF Raises, Ids
  <2> QED  BY <1>3, <2>1, <2>2, CountTells DEF MainInv
<1>4. CASE CountCoverage
  <2>1. /\ coverage_report' = CoverageAggregator(Cardinality(shown), issues,
                                visited_count, discovered_count, excluded_count)
        /\ UNCHANGED <<fail_on, severity_counts, exit_status>>
        /\ stage = "count_coverage" /\ stage' = "process_output"
    BY <1>4 DEF CountCoverage
  <2>2. Cardinality(shown) \in Nat
    <3>1. DOMAIN items = 1..Len(items) /\ Len(items) \in Nat /\ shown \subseteq DOMAIN items
      BY DEF Staged, CacheInv, Cached, Books, Shape, TypeOK
    <3>2. IsFiniteSet(DOMAIN items)
      BY <3>1, FS_Interval
    <3>3. IsFiniteSet(shown)
      BY <3>1, <3>2, FS_Subset
    <3> QED  BY <3>3, FS_CardinalityType
  <2>3. /\ issues \in Seq(ScanIssue)
        /\ visited_count \in Nat /\ discovered_count \in Nat /\ excluded_count \in Nat
    BY DEF Staged, CacheInv, Books, Shape, TypeOK
  <2>4. coverage_report' \in CoverageReport
    BY <2>1, <2>2, <2>3, ReportType
  <2> QED  BY <1>b, <2>1, <2>4 DEF MainInv
<1>5. CASE ProcessOutput
  <2>1. /\ UNCHANGED <<fail_on, severity_counts, coverage_report, exit_status>>
        /\ stage = "process_output" /\ stage' = "render"
    BY <1>5 DEF ProcessOutput
  <2> QED  BY <1>b, <2>1 DEF MainInv
<1>6. CASE StartRow \/ RenderNames \/ RenderAsksAgain
  BY <1>6, <1>d DEF StartRow, RenderNames, RenderAsksAgain, mainVars
<1>7. CASE RenderAborts
  <2>1. /\ UNCHANGED <<fail_on, severity_counts, coverage_report>>
        /\ stage' = "over" /\ exit_status' = Aborted
    BY <1>7 DEF RenderAborts
  <2>2. failed' # {}
    BY <1>7 DEF RenderAborts, Throws, Looked
  <2> QED  BY <2>1, <2>2 DEF MainInv
<1>8. CASE Exit
  <2>1. /\ UNCHANGED <<fail_on, severity_counts, coverage_report, pc>>
        /\ stage = "render" /\ stage' = "over" /\ pc = "collected"
        /\ exit_status' = IF fail_on # Unset /\ AtOrAbove(fail_on) THEN 5
                          ELSE IF HasCriticalIssue THEN 3 ELSE 0
    BY <1>8 DEF Exit, kls, vars, Staged, CacheInv, Cached
  <2>2. exit_status' = 5 <=> fail_on # Unset /\ AtOrAbove(fail_on)
    BY <2>1
  <2>3. exit_status' \in {0, 3, 5}
    BY <2>1
  <2>4. exit_status' = 5 <=> fail_on # Unset /\ Severe
    BY <2>1, <2>2, AtOrAboveMeans
  <2> QED  BY <1>c, <2>1, <2>3, <2>4 DEF MainInv
<1>9. CASE OtherProcesses
  BY <1>9, <1>d DEF OtherProcesses, mainVars
<1>10. CASE UNCHANGED auditVars
  BY <1>10, <1>d DEF auditVars, mainVars
<1> QED
  BY <1>1, <1>2, <1>3, <1>4, <1>5, <1>6, <1>7, <1>8, <1>9, <1>10 DEF AuditNext, Main

(* What main, the analysis and the resolver keep has its type to the end:  *)
(* rows are of items that there are, and the status is one of the manual's *)
(* or the abort's.                                                         *)
THEOREM AuditTypeCorrect == AuditSpec => []AuditTypeOK
<1>1. AuditSpec => []MainInv
  BY RunStaged, MainInvInit, MainInvStep, PTL DEF AuditSpec
<1>2. Staged /\ MainInv => AuditTypeOK
  BY DEF Staged, MainInv, AnalysisInv, CacheInv, Cached, RowType, AuditTypeOK
<1> QED
  BY <1>1, <1>2, RunStaged, PTL

(* --fail-on looks at what was found, whatever the output options leave to *)
(* show of it.                                                             *)
THEOREM FailOnSeesAll == AuditSpec => []FailOnIgnoresFilters
<1>1. AuditSpec => []MainInv
  BY RunStaged, MainInvInit, MainInvStep, PTL DEF AuditSpec
<1>2. MainInv => FailOnIgnoresFilters
  <2> SUFFICES ASSUME MainInv, stage = "over"
               PROVE  \/ exit_status = Aborted /\ failed # {}
                      \/ exit_status = 5 <=>
                           /\ pc = "collected" /\ fail_on # Unset
                           /\ \E k \in DOMAIN findings : MaxSeverity(Ids(k)) >= fail_on
    BY DEF FailOnIgnoresFilters
  <2>1. fail_on # Unset => fail_on \in Level /\ fail_on # 0
    BY DEF MainInv
  <2>2. fail_on # Unset => (Severe <=> \E k \in DOMAIN findings : MaxSeverity(Ids(k)) >= fail_on)
    BY <2>1, MaxSeverityReached DEF Severe
  <2> QED  BY <2>2 DEF MainInv
<1> QED
  BY <1>1, <1>2, PTL
=============================================================================
