----------------------------- MODULE Analyzers -----------------------------
(***************************************************************************)
(* kls::analyzer: analyze_entries with the health, capability and symlink  *)
(* analyzers (src/analyzers), run over the items of a finished scan.  They *)
(* judge the metadata the scan recorded, and then ask again by path: each  *)
(* question is one action, and the tree may change before every one.       *)
(* to_scan_options always asks for both kinds of analysis.  Findings that  *)
(* need no question come first in an item here, elsewhere among the others *)
(* in the code: their order shows in one column of the report only.        *)
(***************************************************************************)
EXTENDS Scanner, NameService, Findings

CONSTANTS
  AttrSets,       (* what the inodes' metadata and contents may be         *)
  RootAccount,    (* uid 0                                                 *)
  TIME_NOW,       (* when analyze_entries was called                       *)
  KnownRoutes,    (* WHITELIST_ROUTES, as paths                            *)
  DevName,        (* the name dev                                          *)
  TmpName,        (* names that start with tmp or var                      *)
  HomeName,       (* names that start with home                            *)
  AuditRoot,      (* options.audit_root                                    *)
  AuditRootIsAbsolute,
  FailingCalls    (* calls that may fail whatever the path leads to        *)

(* IX stands for S_IXUSR or S_IXGRP, IR for any of the read bits.          *)
ModeBit == {"ISUID", "ISGID", "ISVTX", "IX", "IXOTH", "IR", "IWGRP", "IWOTH"}

(* security.capability: whether there is one, whether its revision is      *)
(* known, and the two masks.                                               *)
Capability == [present : BOOLEAN, supported : BOOLEAN,
               permitted : SUBSET (0..63), inheritable : SUBSET (0..63)]
NoCapability == [present |-> FALSE, supported |-> TRUE,
                 permitted |-> {}, inheritable |-> {}]

Metadata ==
  [mode : SUBSET ModeBit, uid : Account, gid : Account, nlinks : Nat,
   mtime : Int, btime : Int, flags : SUBSET {"immutable", "append"},
   capability : Capability,
   magic : {"elf", "script", "other"}]

Calls == <<"record", "getpwuid", "getgrgid", "flags", "redundant", "content",
           "capability", "stat">>
CallNames == {Calls[c] : c \in DOMAIN Calls}

ASSUME AnalyzersAssumption ==
  /\ AttrSets \subseteq [Inode -> Metadata]
  /\ RootAccount \in Account
  /\ TIME_NOW \in Int
  /\ KnownRoutes \subseteq Seq(Name)
  /\ DevName \subseteq Name /\ TmpName \subseteq Name /\ HomeName \subseteq Name
  /\ AuditRoot \in Seq(Name)
  /\ AuditRootIsAbsolute \in BOOLEAN
  /\ FailingCalls \subseteq {"flags", "redundant", "content", "capability",
                             "stat"}

VARIABLES
  attr,       (* metadata and contents of the inodes; changes are to names *)
  call,       (* the next question, or idle, asleep, analyzed              *)
  at,         (* the item it is asked for                                  *)
  findings,   (* findings[k]: item.findings of item k                      *)
  missed      (* history: missed[k] is the questions that failed for item k *)

analysisVars == <<attr, call, at, findings, missed>>
kls == <<vars, nsVars, analysisVars>>

AnalysisTypeOK ==
  /\ TypeOK
  /\ NsTypeOK
  /\ attr \in [Inode -> Metadata]
  /\ call \in CallNames \cup {"idle", "asleep", "analyzed"}
  /\ at \in 0..Len(items)
  /\ call \in CallNames \cup {"asleep"} => pc = "collected" /\ at > 0
  /\ findings \in Seq(Seq(Registered))
  /\ missed \in Seq(SUBSET CallNames)
  /\ Len(findings) = (IF call = "idle" THEN 0 ELSE Len(items))
  /\ Len(missed) = Len(findings)

AnalysisInit ==
  /\ Init
  /\ NsInit
  /\ attr \in AttrSets
  /\ call = "idle"
  /\ at = 0
  /\ findings = <<>>
  /\ missed = <<>>

---------------------------------------------------------------------------

(* A condition and the id it raises. *)
Rule == BOOLEAN \X Registered

(* AddFlag passes over ids for which get_finding returns nullptr; the ids  *)
(* of rules are all registered.                                            *)
Holds(rule) == rule[1] /\ rule[2] \in Registered

(* AddFlag, AddCapability: of a sequence of rules, the ids that hold.      *)
Raised ==
  [rules \in Seq(Rule) |->
     LET Upto[k \in Nat] ==
           IF k = 0 THEN <<>>
           ELSE IF Holds(rules[k]) THEN Append(Upto[k-1], rules[k][2])
           ELSE Upto[k-1]
     IN Upto[Len(rules)]]

Has(i, bit) == bit \in attr[i].mode
Executable(i) == Has(i, "IX") \/ Has(i, "IXOTH")

IsKnownPath(path) ==
  RootIsAbsolute /\ \E route \in KnownRoutes :
    StartsWith(path, route) /\ Len(path) > Len(route)

Below(path, names) == RootIsAbsolute /\ path[1] \in names

ToleranceTime == 1000
OneDayInSeconds == 86400

(* The rules of analyze_health that look at the record only. *)
TimeRules(item) ==
  LET i    == item.inode
      meta == attr[i]
      suid == Has(i, "ISUID")
  IN << <<suid /\ meta.mtime > TIME_NOW + ToleranceTime, "SU13">>,
        <<suid /\ meta.btime > 0 /\ Kind[i] = "regular" /\ Executable(i)
               /\ meta.mtime < meta.btime - ToleranceTime, "SU14">> >>

PlaceRules(item) ==
  LET i   == item.inode
      dev == Kind[i] \in {"character_device", "block_device"}
  IN << <<dev /\ ~(Len(item.full_path) > 1 /\ Below(item.full_path, DevName)), "HWBD">>,
        <<Kind[i] = "directory" /\ Has(i, "IWOTH") /\ ~Has(i, "ISVTX"), "SG02">> >>

RegularRules(i) ==
  LET reg == Kind[i] = "regular"
  IN << <<reg /\ Has(i, "ISVTX"), "SU22">>,
        <<reg /\ Executable(i) /\ (Has(i, "IWGRP") \/ Has(i, "IWOTH")), "SU08">> >>

SetuidRules(item) ==
  LET i    == item.inode
      meta == attr[i]
      suid == Has(i, "ISUID")
      dir  == Kind[i] = "directory"
      age  == TIME_NOW - meta.mtime
  IN << <<suid /\ Kind[i] = "symlink", "SU09">>,
        <<suid, "SU01">>,
        <<suid /\ Has(i, "IWOTH"), "SU02">>,
        <<suid /\ Has(i, "IXOTH"), "SU07">>,
        <<suid /\ dir, "SU10">>,
        <<suid /\ ~Executable(i), "SU03">>,
        <<suid /\ ~Executable(i) /\ Has(i, "IR"), "SU18">>,
        <<suid /\ ~dir /\ meta.nlinks > 1, "SU17">>,
        <<suid /\ meta.uid # RootAccount, "SU05">>,
        <<suid /\ ~IsKnownPath(item.full_path), "SU04">>,
        <<suid /\ Below(item.full_path, TmpName), "SU20">>,
        <<suid /\ Below(item.full_path, HomeName), "SU21">>,
        <<suid /\ meta.uid = RootAccount /\ -OneDayInSeconds < age
               /\ age < OneDayInSeconds, "SU12">> >>

SetgidRules(i) ==
  LET sgid == Has(i, "ISGID")
  IN << <<sgid, "SG01">>,
        <<sgid /\ Has(i, "IWOTH"), "SG03">>,
        <<sgid /\ Has(i, "IWGRP"), "SG04">>,
        <<sgid /\ Kind[i] # "directory" /\ ~Executable(i), "SU03">> >>

RecordRules(item) ==
  TimeRules(item) \o PlaceRules(item) \o RegularRules(item.inode)
  \o SetuidRules(item) \o SetgidRules(item.inode)

(* FS_IOC_GETFLAGS on the object opened: pipes and devices have no flags.  *)
FlagRules(i) == << <<"immutable" \in attr[i].flags, "IMMU">>,
                   <<"append" \in attr[i].flags, "APND">> >>

(* The first four bytes.  A read that fails counts as too short. *)
ContentRules(magic) == << <<magic = "script", "SU06">>,
                          <<magic \notin {"script", "elf"}, "SU16">> >>

CapabilityRules(cap) ==
  LET parsed == cap.present /\ cap.supported
      permitted(bits) == parsed /\ cap.permitted \cap bits # {}
      nothing == cap.permitted = {} /\ cap.inheritable = {}
  IN << <<cap.present, "CA01">>,
        <<cap.present /\ ~cap.supported, "CA28">>,
        <<parsed /\ nothing, "CA35">>,
        <<parsed /\ cap.inheritable # {}, "CA36">>,
        <<permitted({16, 19, 21}), "CA25">>,
        <<permitted({0, 6, 7}), "CA26">>,
        <<permitted({12, 13}), "CA27">>,
        <<permitted({1, 2}), "CA30">>,
        <<permitted({3, 4}), "CA31">>,
        <<permitted({18}), "CA32">>,
        <<permitted({17}), "CA33">>,
        <<permitted({29, 30}), "CA34">> >>

(* An absolute target that neither is below the audit root by its text nor *)
(* equals the root with a slash, that is one empty component, at its end.  *)
Escapes(text) ==
  /\ text.absolute
  /\ ~ /\ AuditRootIsAbsolute
       /\ StartsWith(text.names, AuditRoot)
       /\ Len(text.names) > Len(AuditRoot)

(* The link text as the scan recorded it. *)
TextRules(item) == << <<Escapes(Text[item.symlink_target]), "SY03">> >>

---------------------------------------------------------------------------

Item == items[at]

RelativePath(item) ==
  SubSeq(item.full_path, Len(RootPath) + 1, Len(item.full_path))

(* What the item's path leads to now, links followed, or an error. *)
Where == LeadsTo(dirent, Root, RelativePath(Item))

(* What open(O_RDONLY) of the path can open, among objects of these kinds. *)
Opens(kinds) == Where \in {i \in Inode : Kind[i] \in kinds} \ denied

(* The conditions around the calls, all from the record. *)
Needed(c, item) ==
  LET reg  == Kind[item.inode] = "regular"
      suid == Has(item.inode, "ISUID")
  IN CASE c = "flags"     -> reg
       [] c = "redundant" -> suid
       [] c = "content"   -> suid /\ reg
       [] c = "stat"      -> item.symlink_target # NoInode
       [] OTHER           -> TRUE

(* Mutant: one item too many. *)
ProceedTooFar(c) ==
  LET later == {k \in DOMAIN Calls :
                  /\ \E j \in 1..(k-1) : Calls[j] = c
                  /\ Needed(Calls[k], Item)}
  IN IF later # {}
     THEN /\ call' = Calls[CHOOSE k \in later : \A j \in later : k <= j]
          /\ at' = at
     ELSE IF at <= Len(items) THEN call' = "record" /\ at' = at + 1
     ELSE call' = "analyzed" /\ at' = at

(* What follows the call c: the next one needed, or the next item. *)
Proceed(c) ==
  LET later == {k \in DOMAIN Calls :
                  /\ \E j \in 1..(k-1) : Calls[j] = c
                  /\ Needed(Calls[k], Item)}
  IN IF later # {}
     THEN /\ call' = Calls[CHOOSE k \in later : \A j \in later : k <= j]
          /\ at' = at
     ELSE IF at < Len(items) THEN call' = "record" /\ at' = at + 1
     ELSE call' = "analyzed" /\ at' = at

(* Mutant: one vector for all analyzers, inserted after each of them. *)
SettledWithAllSoFar(c, ids, failures) ==
  /\ findings' = [findings EXCEPT ![at] = @ \o @ \o ids]
  /\ missed' = [missed EXCEPT ![at] = @ \cup failures]
  /\ Proceed(c)
  /\ UNCHANGED <<vars, attr>>

(* The call c raised the findings ids for the item at hand, or failed.     *)
Settled(c, ids, failures) ==
  /\ findings' = [findings EXCEPT ![at] = @ \o ids]
  /\ missed' = [missed EXCEPT ![at] = @ \cup failures]
  /\ Proceed(c)
  /\ UNCHANGED <<vars, attr>>

Answered(c, ids) == Settled(c, ids, {})

Failed(c) == Settled(c, <<>>, {c})

StartAnalysis ==
  /\ pc = "collected" /\ call = "idle"
  /\ IF items = <<>> THEN call' = "analyzed" /\ at' = 0
                     ELSE call' = "record" /\ at' = 1
  /\ findings' = [k \in DOMAIN items |-> <<>>]
  /\ missed' = [k \in DOMAIN items |-> {}]
  /\ UNCHANGED <<vars, nsVars, attr>>

AnalyzeRecord ==
  /\ call = "record"
  /\ Answered("record", Raised[RecordRules(Item)])
  /\ UNCHANGED nsVars

(* Mutant: no second attempt after ERANGE. *)
OrphanedAtOnce(c, account, id) ==
  /\ call = c
  /\ \E answer \in {"found", "missing", "error"} :
       /\ \/ Looked(account, answer)
          \/ answer = "missing" /\ ~Fits(account) /\ UNCHANGED nsVars
       /\ Answered(c, IF answer = "found" THEN <<>> ELSE <<id>>)

(* A lookup that fails leaves no result, like one that finds nothing, and  *)
(* the code looks at the result only.                                      *)
Orphaned(c, account, id) ==
  /\ call = c
  /\ \/ ResizeBuffer(account) /\ UNCHANGED <<vars, analysisVars>>
     \/ \E answer \in {"found", "missing", "error"} :
          /\ Looked(account, answer)
          /\ Answered(c, IF answer = "found" THEN <<>> ELSE <<id>>)

OrphanedUid == Orphaned("getpwuid", attr[Item.inode].uid, "SU11")
OrphanedGid == Orphaned("getgrgid", attr[Item.inode].gid, "SG05")

(* open with O_NONBLOCK, then FS_IOC_GETFLAGS on what was opened: pipes,   *)
(* sockets and devices have no such flags.                                 *)
ReadFlags ==
  /\ call = "flags"
  /\ IF Opens({"regular", "directory"}) THEN Answered("flags", Raised[FlagRules(Where)])
                                        ELSE Failed("flags")
  /\ UNCHANGED nsVars

(* getxattr on the path follows links, twice: for SU19, and to parse it.   *)
LookForCapability ==
  /\ call = "redundant"
  /\ IF Where \in Inode
     THEN Answered("redundant", Raised[<< <<attr[Where].capability.present, "SU19">> >>])
     ELSE Failed("redundant")
  /\ UNCHANGED nsVars

AnalyzeCapability ==
  /\ call = "capability"
  /\ IF Where \in Inode
     THEN Answered("capability", Raised[CapabilityRules(attr[Where].capability)])
     ELSE Failed("capability")
  /\ UNCHANGED nsVars

Magics == {"elf", "script", "other"}

(* open and read.  A read that fails, of a directory for one, counts as    *)
(* one of no bytes.  A pipe or a device may hold anything.                 *)
ReadContent ==
  /\ call = "content"
  /\ CASE Opens({"regular"})   -> Answered("content", Raised[ContentRules(attr[Where].magic)])
       [] Opens({"directory"}) -> Answered("content", Raised[ContentRules("other")])
       [] Opens({"named_pipe", "character_device", "block_device"}) ->
            \E magic \in Magics : Answered("content", Raised[ContentRules(magic)])
       [] OTHER                -> Failed("content")
  /\ UNCHANGED nsVars

(* Mutant: neither has the one for the flags. *)
ReadBlocksOften ==
  /\ call \in {"flags", "content"}
  /\ Opens({"named_pipe", "character_device"})
  /\ call' = "asleep"
  /\ UNCHANGED <<vars, nsVars, attr, at, findings, missed>>

(* This open has no O_NONBLOCK: it waits for a writer of the pipe, or a    *)
(* line from the terminal.                                                 *)
ReadBlocks ==
  /\ call = "content"
  /\ Opens({"named_pipe", "character_device"})
  /\ call' = "asleep"
  /\ UNCHANGED <<vars, nsVars, attr, at, findings, missed>>

Awaken ==
  /\ call = "asleep"
  /\ \E magic \in Magics : Answered("content", Raised[ContentRules(magic)])
  /\ UNCHANGED nsVars

(* Mutant: whatever stat fails for, the link is broken. *)
AnalyzeSymlinkOfAnyErrno ==
  /\ call = "stat"
  /\ Answered("stat", Raised[TextRules(Item) \o << <<Where \notin Inode, "SY01">>,
                                                  <<Where = "ELOOP", "SY02">> >>])
  /\ UNCHANGED nsVars

AnalyzeSymlink ==
  /\ call = "stat"
  /\ Answered("stat", Raised[TextRules(Item) \o << <<Where = NoInode, "SY01">>,
                                                  <<Where = "ELOOP", "SY02">> >>])
  /\ UNCHANGED nsVars

(* Errors that are not the path's: EACCES, EMFILE, EIO.  What they leave   *)
(* to be raised: SU16 if it is the read that failed, and SY03, which needs *)
(* the recorded text only.                                                 *)
CallFails ==
  /\ call \in FailingCalls
  /\ \E ids \in CASE call = "content" -> {<<>>, <<"SU16">>}
                  [] call = "stat"    -> {Raised[TextRules(Item)]}
                  [] OTHER            -> {<<>>} :
       Settled(call, ids, {call})
  /\ UNCHANGED nsVars

AnalysisStep ==
  \/ StartAnalysis \/ AnalyzeRecord \/ OrphanedUid \/ OrphanedGid
  \/ ReadFlags \/ LookForCapability \/ ReadContent \/ ReadBlocks
  \/ AnalyzeCapability \/ AnalyzeSymlink \/ CallFails

(* Other processes, once the scan is over. *)
Meanwhile ==
  /\ pc = "collected" /\ call # "analyzed"
  /\ \/ /\ FsChange
        /\ UNCHANGED <<given, pc, error, walk, actual_entry, dup_fds, stream,
                       entry, output, items, nsVars>>
     \/ AccountChange /\ UNCHANGED vars
  /\ UNCHANGED analysisVars

KlsStep ==
  \/ ScannerStep /\ UNCHANGED <<nsVars, analysisVars>>
  \/ AnalysisStep

AnalysisNext ==
  \/ KlsStep \/ Awaken \/ Meanwhile
  \/ World /\ UNCHANGED <<nsVars, analysisVars>>
  \/ (call = "analyzed" \/ pc = "failed") /\ UNCHANGED kls

AnalysisSpec == AnalysisInit /\ [][AnalysisNext]_kls

(* The process runs and calls return, except the one that waits: nobody is *)
(* obliged to open a pipe.                                                 *)
FairAnalysis == AnalysisSpec /\ WF_kls(KlsStep)

---------------------------------------------------------------------------

Finished(k) == k < at \/ call = "analyzed"
Ids(k) == {findings[k][j] : j \in DOMAIN findings[k]}

CapabilityIds ==
  {"CA01", "CA25", "CA26", "CA27", "CA28", "CA30", "CA31", "CA32", "CA33",
   "CA34", "CA35", "CA36"}

(* What the call c shows of the item's own inode, and of where its path    *)
(* leads now if it is a link, when nobody interferes.                      *)
Shown(c, item) ==
  LET i    == item.inode
      goal == LeadsTo(dirent, Root, RelativePath(item))
      Held(rules) == {rules[k][2] : k \in {j \in DOMAIN rules : rules[j][1]}}
  IN CASE c = "record"     -> Held(RecordRules(item))
       [] c = "flags"      -> Held(FlagRules(i))
       [] c = "redundant"  -> IF attr[i].capability.present THEN {"SU19"} ELSE {}
       [] c = "content"    -> Held(ContentRules(attr[i].magic))
       [] c = "capability" -> Held(CapabilityRules(attr[i].capability))
       [] c = "stat"       -> Held(<< <<Escapes(Text[i]), "SY03">>,
                                      <<goal = NoInode, "SY01">>,
                                      <<goal = "ELOOP", "SY02">> >>)
       [] OTHER            -> {}

(* What does not follow from the item alone: whether accounts exist (see   *)
(* OrphanVerdicts), the capabilities of what a link leads to, where a link *)
(* leads when an entry on its way was changed, and, of calls that failed,  *)
(* what is raised nevertheless.                                            *)
Forgiven(item, failures) ==
  {"SU11", "SG05"}
  \cup (IF Kind[item.inode] # "symlink" THEN {}
        ELSE CapabilityIds \cup {"SU19"}
             \cup (IF WayStill(RelativePath(item)) THEN {} ELSE {"SY01", "SY02"}))
  \cup (IF "content" \in failures THEN {"SU16"} ELSE {})
  \cup (IF "stat" \in failures THEN {"SY03"} ELSE {})

(* Whatever happens elsewhere in the tree, and whichever calls fail, an    *)
(* item whose path stood still gets every finding its own inode gives      *)
(* cause for, and no other: a call that fails costs the findings of that   *)
(* call only.  A link is broken or circular if it is so by every entry its *)
(* text takes the kernel through, and these stood still as well; and it    *)
(* escapes by its own text, wherever that leads.                           *)
FindingsOfStandingItems ==
  \A k \in DOMAIN findings :
    LET item    == items[k]
        forgiven == Forgiven(item, missed[k])
        asked   == {c \in CallNames \ missed[k] : Needed(c, item)}
    IN Finished(k) /\ Still(RelativePath(item)) =>
         /\ Ids(k) \ forgiven = (UNION {Shown(c, item) : c \in asked}) \ forgiven
         /\ Kind[item.inode] # "symlink" => missed[k] \subseteq FailingCalls

(* An id is in an item's findings once, except SU03, which both the setuid *)
(* and the setgid rules add to a file with both bits nobody may execute.   *)
RepeatedFindings ==
  \A k \in DOMAIN findings : \A j \in DOMAIN findings[k] : \A h \in 1..(j-1) :
    findings[k][h] = findings[k][j] =>
      LET i == items[k].inode
      IN /\ findings[k][j] = "SU03"
         /\ Has(i, "ISUID") /\ Has(i, "ISGID") /\ ~Executable(i)
         /\ Kind[i] # "directory"

(* An account that exists all along is never reported as missing, however  *)
(* long its record is, unless a lookup of it failed; one that never existed*)
(* always is.                                                              *)
OrphanVerdicts ==
  \A k \in DOMAIN findings :
    LET i == items[k].inode
        Verdict(id, account) ==
          /\ id \in Ids(k) => account \in lost \cup failed
          /\ Finished(k) /\ account_changes = 0 /\ account \notin known =>
               id \in Ids(k)
    IN Verdict("SU11", attr[i].uid) /\ Verdict("SG05", attr[i].gid)

(* The analysis can wait forever only for the content of a setuid file     *)
(* whose path other processes have led elsewhere since it was scanned.     *)
SleepsOnlyIfDisturbed ==
  call = "asleep" =>
    /\ Kind[Item.inode] = "regular" /\ Has(Item.inode, "ISUID")
    /\ ~Still(RelativePath(Item))

(* The audit_entry.hpp:44-48 comment asks that no normal finding be        *)
(* emitted from mixed evidence, and :50 says "stable" is identity verified *)
(* across all operations.  Every item is marked stable; its link text and  *)
(* its findings may come from other objects.                               *)
StableMeansOneObject ==
  \A k \in DOMAIN findings :
    LET item  == items[k]
        aside == {"SU11", "SG05", "SY01", "SY02"}
                 \cup (IF "content" \in missed[k] THEN {"SU16"} ELSE {})
    IN item.stability = "stable" =>
         /\ item.symlink_target \in {NoInode, item.inode}
         /\ Ids(k) \ aside \subseteq UNION {Shown(c, item) : c \in CallNames}

(* A finding is raised for its own reason, never because a call failed or  *)
(* because another condition looks like it.  THREAT-MODEL.md:256 wants     *)
(* "resolution failure" apart from "nonexistent identity"; SU16 is for "a  *)
(* SUID file that is neither a valid ELF nor a script"                     *)
(* (health_analyzer.cpp:226-227), which an unread one is not known to be;  *)
(* SU03 is "SUID bit set on non-executable file" (finding_registry.hpp:72).*)
FindingsHaveTheirCause ==
  \A k \in DOMAIN findings :
    LET i == items[k].inode
    IN /\ "SU11" \in Ids(k) => attr[i].uid \in lost
       /\ "SG05" \in Ids(k) => attr[i].gid \in lost
       /\ "SU16" \in Ids(k) => "content" \notin missed[k]
       /\ "SU03" \in Ids(k) => Has(i, "ISUID")

(* The analysis of any tree ends, or it waits for a writer.                *)
AnalysisEnds == <>(call \in {"analyzed", "asleep"} \/ pc = "failed")
===========================================================================
