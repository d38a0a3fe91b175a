-------------------------- MODULE AnalyzersProofs --------------------------
(***************************************************************************)
(* What TLAPS proves about the analysis: what is left of the scan while    *)
(* questions are asked by path, and what the answers are worth.            *)
(***************************************************************************)
EXTENDS Analyzers, WalkProofs

(* Once the scan is over, the filesystem is all that still moves of it. *)
After ==
  /\ pc = "collected"
  /\ FsChange
  /\ UNCHANGED <<given, pc, error, walk, actual_entry, dup_fds, stream, entry,
                 output, items>>

(* The analyzers and main look at what the scan returned, and leave it. *)
LEMMA AnalysisKeepsScan == AnalysisStep \/ Awaken => UNCHANGED <<vars, attr>>
<1> SUFFICES ASSUME AnalysisStep \/ Awaken PROVE UNCHANGED <<vars, attr>>
  OBVIOUS
<1>1. ASSUME NEW c, NEW ids, NEW failures, Settled(c, ids, failures)
      PROVE  UNCHANGED <<vars, attr>>
  BY <1>1 DEF Settled
<1>2. ASSUME NEW c, NEW ids, Answered(c, ids) PROVE UNCHANGED <<vars, attr>>
  BY <1>1, <1>2 DEF Answered
<1>3. ASSUME NEW c, Failed(c) PROVE UNCHANGED <<vars, attr>>
  BY <1>1, <1>3 DEF Failed
<1>4. ASSUME NEW c, NEW account, NEW id, Orphaned(c, account, id)
      PROVE  UNCHANGED <<vars, attr>>
  BY <1>2, <1>4 DEF Orphaned, analysisVars
<1>5. CASE StartAnalysis \/ ReadBlocks
  BY <1>5 DEF StartAnalysis, ReadBlocks
<1>6. CASE AnalyzeRecord \/ AnalyzeSymlink \/ Awaken
  BY <1>2, <1>6 DEF AnalyzeRecord, AnalyzeSymlink, Awaken
<1>7. CASE OrphanedUid \/ OrphanedGid
  BY <1>4, <1>7 DEF OrphanedUid, OrphanedGid
<1>8. CASE ReadFlags \/ LookForCapability \/ AnalyzeCapability
  BY <1>2, <1>3, <1>8 DEF ReadFlags, LookForCapability, AnalyzeCapability
<1>9. CASE ReadContent
  BY <1>2, <1>3, <1>9 DEF ReadContent
<1>10. CASE CallFails
  BY <1>1, <1>10 DEF CallFails
<1> QED
  BY <1>5, <1>6, <1>7, <1>8, <1>9, <1>10 DEF AnalysisStep

(* What the scan returned stays as it is for the rest of the run. *)
LEMMA ScanFrozen ==
  ASSUME pc \in Terminal, [Next]_vars \/ After
  PROVE  UNCHANGED <<pc, items, issues, visited_count, discovered_count, excluded_count>>
<1> USE DEF Terminal
<1>1. CASE After
  BY <1>1 DEF After, output
<1>2. CASE UNCHANGED vars
  BY <1>2 DEF vars, output
<1>3. CASE DirectoryStep
  BY <1>3 DEF DirectoryStep, DupFails, DupDirectory, PopDirectory,
     FdopendirFails, Fdopendir, Readdir, ReaddirEnds, ReaddirFails
<1>4. CASE EntryStep
  BY <1>4 DEF EntryStep, StatxFails, StatxIncomplete, StatxUnknownType,
     StatxExcluded, StatxGoesOn, StatxSuffices, StatxSees, OpenatFails,
     OpenatDirectory, ReadlinkFails, Readlink
<1>5. CASE ScannerStep
  BY <1>3, <1>4, <1>5 DEF ScannerStep, OpenRootFails, OpenRoot,
     FinishDiscovery, CollectMetadata
<1> QED
  BY <1>1, <1>2, <1>5 DEF Next, World, Done

(* The books of the scanner stay in order for the whole run. *)
LEMMA BooksAfter ==
  Books /\ ([Next]_vars \/ After) => Books'
<1> SUFFICES ASSUME Books, After PROVE Books'
  BY BooksStep
<1>1. FsTypeOK'
  BY FsStep DEF After, Books, Shape, TypeOK
<1>2. TypeOK'
  BY <1>1 DEF After, given, walk, output, Books, Shape, TypeOK
<1> QED
  BY <1>2 DEF After, given, walk, output, Books, Shape, OneStream, StatxDone,
     Unopened, EntryAccounting, DirectoryAccounting, Reported, IssuesAt,
     UnreadDirectories

---------------------------------------------------------------------------

(* A scan that has ended makes no step; the tree alone goes on changing. *)
LEMMA AtRest ==
  pc \in Terminal /\ ([Next]_vars \/ After) => UNCHANGED vars \/ After
<1> SUFFICES ASSUME pc \in Terminal, Next PROVE UNCHANGED vars
  OBVIOUS
<1> USE DEF Terminal
<1>1. CASE DirectoryStep
  BY <1>1 DEF DirectoryStep, DupFails, DupDirectory, PopDirectory,
     FdopendirFails, Fdopendir, Readdir, ReaddirEnds, ReaddirFails
<1>2. CASE EntryStep
  BY <1>2 DEF EntryStep, StatxFails, StatxIncomplete, StatxUnknownType,
     StatxExcluded, StatxGoesOn, StatxSuffices, StatxSees, OpenatFails,
     OpenatDirectory, ReadlinkFails, Readlink
<1>3. CASE ScannerStep
  BY <1>1, <1>2, <1>3 DEF ScannerStep, OpenRootFails, OpenRoot,
     FinishDiscovery, CollectMetadata
<1> QED
  BY <1>3 DEF Next, World, Done

(* What stood still under the root is accounted for, also once the scan is *)
(* over and the tree goes on changing.                                     *)
Complete ==
  /\ TypeOK /\ Remembered /\ Reason
  /\ pc # "collected" => KeptInv

LEMMA CompleteInit == Init => Complete
BY KeptInvInit, TypeInit, SourceInit DEF Complete, KeptInv, SourceInv, Init

LEMMA CompleteStep ==
  Complete /\ ([Next]_vars \/ After) => Complete'
<1> SUFFICES ASSUME Complete, [Next]_vars \/ After PROVE Complete'
  OBVIOUS
<1>1. CASE pc # "collected"
  <2>1. KeptInv'
    BY <1>1, KeptInvStep DEF Complete, After
  <2> QED  BY <2>1 DEF Complete, KeptInv, WalkInv, SourceInv, DescriptorInv, Shape
<1>2. CASE UNCHANGED vars /\ pc = "collected"
  <2>1. UNCHANGED <<fsVars, given, pc, error, walk, actual_entry, dup_fds, stream,
                    entry, output, items>>
    BY <1>2 DEF vars
  <2>2. TypeOK' /\ Remembered'
    BY <2>1 DEF Complete, TypeOK, FsTypeOK, Remembered, fsVars, given, walk, output
  <2>3. PICK fds \in Seq(DirInode), paths \in Seq(Seq(Name)) :
          Len(paths) = Len(fds) /\ Closed(fds, paths, items)
    BY <1>2 DEF Complete, Reason
  <2>4. Closed(fds, paths, items)'
    <3>1. /\ \A d, n : Stands(d, n)' = Stands(d, n)
          /\ \A path, i : /\ Excused(path)' = Excused(path)
                         /\ ToBeOpened(path, i)' = ToBeOpened(path, i)
                         /\ Listed(items, path, i)' = Listed(items, path, i)
      BY <2>1 DEF Stands, Undisturbed, Excused, ToBeOpened, Listed, fsVars, given, output
    <3> QED  BY <2>1, <2>3, <3>1 DEF Closed, Accounted, fsVars
  <2> QED  BY <1>2, <2>1, <2>2, <2>3, <2>4 DEF Complete, Reason
<1>3. CASE After
  <2>1. /\ TypeOK /\ FsTypeOK /\ Remembered /\ pc = "collected" /\ pc' = pc
        /\ UNCHANGED <<options, issues, items>>
    BY <1>3 DEF Complete, TypeOK, After, given, output
  <2>2. TypeOK'
    <3>1. FsTypeOK'
      BY <1>3, FsStep DEF After, Complete, TypeOK
    <3> QED  BY <1>3, <2>1, <3>1 DEF After, TypeOK, given, walk, output
  <2>3. /\ Remembered'
        /\ \A d \in Inode, n \in Name : past[d][n] \subseteq past'[d][n]
    BY <1>3, <2>1, PastGrows DEF After
  <2>4. ASSUME NEW d \in Inode, NEW n \in Name, Stands(d, n)'
        PROVE  Stands(d, n) /\ dirent'[d][n] = dirent[d][n]
    <3>1. /\ past'[d][n] = {dirent'[d][n]} /\ past[d][n] \subseteq past'[d][n]
          /\ dirent[d][n] \in past[d][n]
      BY <2>1, <2>3, <2>4 DEF Stands, Undisturbed, Remembered
    <3>2. dirent[d][n] = dirent'[d][n] /\ past[d][n] = {dirent[d][n]}
      BY <3>1
    <3> QED  BY <2>1, <2>4, <3>2 DEF Stands, Undisturbed
  <2>5. PICK fds \in Seq(DirInode), paths \in Seq(Seq(Name)) :
          Len(paths) = Len(fds) /\ Closed(fds, paths, items)
    BY <2>1 DEF Complete, Reason
  <2>6. Extends(issues', issues) /\ fds \in Seq(Inode)
    BY <2>1 DEF Extends, DirInode
  <2>7. PICK list : list = items
    OBVIOUS
  <2>8. Closed(fds, paths, list)'
    BY <2>1, <2>4, <2>5, <2>6, <2>7, ClosedStays
  <2>9. Closed(fds, paths, items)'
    BY <2>1, <2>7, <2>8 DEF Closed, Accounted, Listed
  <2> QED  BY <2>1, <2>2, <2>3, <2>5, <2>9 DEF Complete, Reason
<1> QED
  BY <1>1, <1>2, <1>3, AtRest DEF Terminal

---------------------------------------------------------------------------

(* What Raised computes: the ids of the rules that hold, in their order.   *)
LEMMA RaisedUnfolds ==
  ASSUME NEW rules, rules \in Seq(Rule)
  PROVE  \E f \in [Nat -> Seq(Registered)] :
           /\ Raised[rules] = f[Len(rules)]
           /\ f[0] = <<>>
           /\ \A k \in Nat : f[k+1] = IF Holds(rules[k+1]) THEN Append(f[k], rules[k+1][2])
                                      ELSE f[k]
<1> DEFINE Is(f) == f = [k \in Nat |-> IF k = 0 THEN <<>>
                                      ELSE IF Holds(rules[k]) THEN Append(f[k-1], rules[k][2])
                                      ELSE f[k-1]]
           T     == Seq(Registered)
           top   == <<>>
           Step  == [k \in Nat |-> [s \in T |-> IF Holds(rules[k+1])
                                               THEN Append(s, rules[k+1][2]) ELSE s]]
           Upto  == CHOOSE f : Is(f)
<1>1. Raised[rules] = Upto[Len(rules)]
  BY DEF Raised
<1>2. top \in T /\ Step \in [Nat -> [T -> T]]
  <2>1. ASSUME NEW k \in Nat, NEW s \in T, Holds(rules[k+1])
        PROVE  Append(s, rules[k+1][2]) \in T
    BY <2>1 DEF Holds
  <2> HIDE DEF T
  <2>2. Step \in [Nat -> [T -> T]]
    BY <2>1
  <2> QED  BY <2>2 DEF T
<1>3. PICK f \in [Nat -> T] :
        \A k \in Nat : f[k] = IF k = 0 THEN top ELSE Step[k-1][f[k-1]]
  <2> HIDE DEF T, top, Step, Is, Upto
  <2> QED  BY ONLY <1>2, RecursionOnNat
<1>4. \A k \in Nat : f[k] = IF k = 0 THEN <<>>
                            ELSE IF Holds(rules[k]) THEN Append(f[k-1], rules[k][2])
                            ELSE f[k-1]
  <2>1. ASSUME NEW k \in Nat, k # 0
        PROVE  f[k] = IF Holds(rules[k]) THEN Append(f[k-1], rules[k][2]) ELSE f[k-1]
    <3>1. k - 1 \in Nat /\ (k - 1) + 1 = k /\ f[k-1] \in T
      BY <2>1
    <3>2. f[k] = Step[k-1][f[k-1]]
      BY <1>3, <2>1
    <3> HIDE DEF T
    <3> QED  BY <3>1, <3>2
  <2> QED  BY <1>3, <2>1
<1>5. Is(f)
  <2> HIDE DEF T
  <2>1. f = [k \in Nat |-> f[k]]
    OBVIOUS
  <2> QED  BY <1>4, <2>1
<1> HIDE DEF Is
<1>6. Is(Upto)
  BY <1>5
<1> HIDE DEF Upto
<1>7. \A k \in Nat : Upto[k] = IF k = 0 THEN <<>>
                               ELSE IF Holds(rules[k]) THEN Append(Upto[k-1], rules[k][2])
                               ELSE Upto[k-1]
  BY <1>6 DEF Is
<1>8. \A k \in Nat : Upto[k] = f[k]
  <2> DEFINE Same == {k \in Nat : Upto[k] = f[k]}
  <2>1. 0 \in Same
    BY <1>4, <1>7
  <2>2. ASSUME NEW k \in Nat, k \in Same PROVE k + 1 \in Same
    <3>1. k + 1 \in Nat /\ k + 1 # 0 /\ (k + 1) - 1 = k /\ Upto[k] = f[k]
      BY <2>2
    <3> QED  BY <1>4, <1>7, <3>1
  <2> HIDE DEF Same
  <2>3. Nat \subseteq Same
    BY <2>1, <2>2, SetInduction
  <2> QED  BY <2>3 DEF Same
<1>9. ASSUME NEW k \in Nat
      PROVE  f[k+1] = IF Holds(rules[k+1]) THEN Append(f[k], rules[k+1][2]) ELSE f[k]
  <2>1. k + 1 \in Nat /\ k + 1 # 0 /\ (k + 1) - 1 = k
    OBVIOUS
  <2> QED  BY <1>4, <2>1
<1>10. Len(rules) \in Nat
  OBVIOUS
<1> QED
  BY <1>1, <1>3, <1>4, <1>8, <1>9, <1>10

(* The ids in s are those of the first k rules that hold, in their order.  *)
Sound(rules, k, s) ==
  \A j \in DOMAIN s : \E b \in 1..k : Holds(rules[b]) /\ s[j] = rules[b][2]
Full(rules, k, s) ==
  \A b \in 1..k : Holds(rules[b]) => \E j \in DOMAIN s : s[j] = rules[b][2]
Sorted(rules, k, s) ==
  \A j \in DOMAIN s : \A h \in 1..(j-1) : \E b \in 1..k : \E a \in 1..(b-1) :
    /\ Holds(rules[a]) /\ s[h] = rules[a][2]
    /\ Holds(rules[b]) /\ s[j] = rules[b][2]

LEMMA RaisedGrows ==
  ASSUME NEW rules, NEW k \in Nat, NEW s \in Seq(Registered),
         Sound(rules, k, s), Full(rules, k, s), Sorted(rules, k, s)
  PROVE  LET t == IF Holds(rules[k+1]) THEN Append(s, rules[k+1][2]) ELSE s
         IN Sound(rules, k+1, t) /\ Full(rules, k+1, t) /\ Sorted(rules, k+1, t)
<1>a. /\ \A b \in 1..(k+1) : b \in 1..k \/ b = k + 1
      /\ k + 1 \in 1..(k+1) /\ (k + 1) - 1 = k
      /\ \A b \in 1..k : b \in 1..(k+1)
  OBVIOUS
<1>1. CASE ~Holds(rules[k+1])
  <2>1. Sound(rules, k+1, s)
    BY <1>a DEF Sound
  <2>2. Full(rules, k+1, s)
    BY <1>a, <1>1 DEF Full
  <2>3. Sorted(rules, k+1, s)
    BY <1>a DEF Sorted
  <2> QED  BY <1>1, <2>1, <2>2, <2>3
<1>2. CASE Holds(rules[k+1])
  <2> DEFINE t   == Append(s, rules[k+1][2])
             new == Len(s) + 1
  <2>1. /\ DOMAIN t = 1..new /\ DOMAIN s = 1..(new-1) /\ new \in Nat \ {0}
        /\ \A j \in DOMAIN s : t[j] = s[j]
        /\ t[new] = rules[k+1][2]
    OBVIOUS
  <2> HIDE DEF new, t
  <2>2. /\ \A j \in DOMAIN t : j \in DOMAIN s \/ j = new
        /\ \A j \in DOMAIN s : j \in DOMAIN t
        /\ new \in DOMAIN t
        /\ \A j \in DOMAIN s : \A h \in 1..(j-1) : h \in DOMAIN s
        /\ \A h \in 1..(new-1) : h \in DOMAIN s
    BY <2>1
  <2>3. Sound(rules, k+1, t)
    BY <1>a, <1>2, <2>1, <2>2 DEF Sound
  <2>4. Full(rules, k+1, t)
    BY <1>a, <2>1, <2>2 DEF Full
  <2>5. Sorted(rules, k+1, t)
    <3> SUFFICES ASSUME NEW j \in DOMAIN t, NEW h \in 1..(j-1)
                 PROVE  \E b \in 1..(k+1) : \E a \in 1..(b-1) :
                          /\ Holds(rules[a]) /\ t[h] = rules[a][2]
                          /\ Holds(rules[b]) /\ t[j] = rules[b][2]
      BY DEF Sorted
    <3>1. CASE j \in DOMAIN s
      <4>1. PICK b \in 1..k : \E a \in 1..(b-1) :
              /\ Holds(rules[a]) /\ s[h] = rules[a][2]
              /\ Holds(rules[b]) /\ s[j] = rules[b][2]
        BY <3>1 DEF Sorted
      <4>2. t[h] = s[h] /\ t[j] = s[j] /\ b \in 1..(k+1)
        BY <1>a, <2>1, <2>2, <3>1
      <4> QED  BY <4>1, <4>2
    <3>2. CASE j = new
      <4>1. h \in DOMAIN s /\ t[h] = s[h]
        BY <2>1, <2>2, <3>2
      <4>2. PICK a \in 1..k : Holds(rules[a]) /\ s[h] = rules[a][2]
        BY <4>1 DEF Sound
      <4>3. a \in 1..((k+1)-1)
        OBVIOUS
      <4> QED  BY <1>a, <1>2, <2>1, <3>2, <4>1, <4>2, <4>3
    <3> QED  BY <2>2, <3>1, <3>2
  <2> QED  BY <1>2, <2>3, <2>4, <2>5 DEF t
<1> QED
  BY <1>1, <1>2

LEMMA RaisedFrom ==
  ASSUME NEW rules, rules \in Seq(Rule)
  PROVE  /\ Raised[rules] \in Seq(Registered)
         /\ Sound(rules, Len(rules), Raised[rules])
         /\ Full(rules, Len(rules), Raised[rules])
         /\ Sorted(rules, Len(rules), Raised[rules])
<1>1. PICK f \in [Nat -> Seq(Registered)] :
        /\ Raised[rules] = f[Len(rules)]
        /\ f[0] = <<>>
        /\ \A k \in Nat : f[k+1] = IF Holds(rules[k+1]) THEN Append(f[k], rules[k+1][2])
                                   ELSE f[k]
  BY RaisedUnfolds
<1> DEFINE Good == {k \in Nat : /\ Sound(rules, k, f[k]) /\ Full(rules, k, f[k])
                                /\ Sorted(rules, k, f[k])}
<1>2. 0 \in Good
  <2>1. f[0] = <<>>
    BY <1>1
  <2>2. DOMAIN f[0] = {} /\ 1..0 = {}
    BY <2>1
  <2> QED  BY <2>2 DEF Sound, Full, Sorted
<1>3. ASSUME NEW k \in Nat, k \in Good PROVE k + 1 \in Good
  <2>1. f[k] \in Seq(Registered) /\ k + 1 \in Nat
    OBVIOUS
  <2>2. f[k+1] = IF Holds(rules[k+1]) THEN Append(f[k], rules[k+1][2]) ELSE f[k]
    BY <1>1
  <2>3. Sound(rules, k, f[k]) /\ Full(rules, k, f[k]) /\ Sorted(rules, k, f[k])
    BY <1>3
  <2>4. Sound(rules, k+1, f[k+1]) /\ Full(rules, k+1, f[k+1]) /\ Sorted(rules, k+1, f[k+1])
    BY <2>1, <2>2, <2>3, RaisedGrows
  <2> QED  BY <2>1, <2>4
<1>4. Len(rules) \in Nat
  OBVIOUS
<1>5. Nat \subseteq Good
  <2> HIDE DEF Good
  <2> QED  BY <1>2, <1>3, SetInduction
<1>6. Len(rules) \in Good
  <2> HIDE DEF Good
  <2> QED  BY <1>4, <1>5
<1>7. f[Len(rules)] \in Seq(Registered)
  BY <1>4
<1> QED
  BY <1>1, <1>6, <1>7

---------------------------------------------------------------------------

(* The id that an item may have twice. *)
Twice(item, id) ==
  LET i == item.inode
  IN /\ id = "SU03"
     /\ Has(i, "ISUID") /\ Has(i, "ISGID") /\ ~Executable(i)
     /\ Kind[i] # "directory"

(* The rules that hold are for ids in S, and for different ids, or the one *)
(* above.                                                                  *)
HeldIn(rules, S) ==
  \A b \in DOMAIN rules : Holds(rules[b]) => rules[b][2] \in S
Once(rules, item) ==
  \A b \in DOMAIN rules : \A a \in 1..(b-1) :
    Holds(rules[a]) /\ Holds(rules[b]) /\ rules[a][2] = rules[b][2] =>
      Twice(item, rules[b][2])

Proper(rules, S, item) ==
  rules \in Seq(Rule) /\ HeldIn(rules, S) /\ Once(rules, item)

LEMMA ProperJoined ==
  ASSUME NEW r, NEW s, NEW S, NEW T, NEW item,
         Proper(r, S, item), Proper(s, T, item),
         \A id \in S \cap T : Twice(item, id)
  PROVE  Proper(r \o s, S \cup T, item)
<1> DEFINE n == Len(r)
           m == Len(s)
           t == r \o s
<1>1. /\ n \in Nat /\ m \in Nat /\ t \in Seq(Rule)
      /\ DOMAIN r = 1..n /\ DOMAIN s = 1..m /\ DOMAIN t = 1..(n+m)
      /\ \A b \in 1..n : t[b] = r[b]
      /\ \A b \in 1..(n+m) : b > n => t[b] = s[b-n] /\ b - n \in 1..m
  BY DEF Proper
<1>b. /\ \A b \in 1..n : \A a \in 1..(b-1) : Holds(r[a]) /\ Holds(r[b]) /\ r[a][2] = r[b][2]
                                            => Twice(item, r[b][2])
      /\ \A b \in 1..m : \A a \in 1..(b-1) : Holds(s[a]) /\ Holds(s[b]) /\ s[a][2] = s[b][2]
                                            => Twice(item, s[b][2])
  BY <1>1 DEF Proper, Once
<1> HIDE DEF n, m, t
<1>2. HeldIn(t, S \cup T)
  <2> SUFFICES ASSUME NEW b \in 1..(n+m), Holds(t[b]) PROVE t[b][2] \in S \cup T
    BY <1>1 DEF HeldIn
  <2>1. CASE b \in 1..n
    BY <1>1, <2>1 DEF Proper, HeldIn
  <2>2. CASE b > n
    BY <1>1, <2>2 DEF Proper, HeldIn
  <2> QED  BY <1>1, <2>1, <2>2
<1>3. Once(t, item)
  <2> SUFFICES ASSUME NEW b \in 1..(n+m), NEW a \in 1..(b-1),
                      Holds(t[a]), Holds(t[b]), t[a][2] = t[b][2]
               PROVE  Twice(item, t[b][2])
    BY <1>1 DEF Once
  <2>1. CASE b \in 1..n
    <3>1. a \in 1..n
      BY <1>1, <2>1
    <3> QED  BY <1>1, <2>1, <3>1 DEF Proper, Once
  <2>2. CASE a > n
    <3>1. b > n /\ a \in 1..(n+m) /\ a - n \in 1..((b - n) - 1)
      BY <1>1, <2>2
    <3>2. t[a] = s[a-n] /\ t[b] = s[b-n] /\ b - n \in 1..m
      BY <1>1, <2>2, <3>1
    <3> QED  BY <1>b, <3>1, <3>2
  <2>3. CASE b > n /\ ~(a > n)
    <3>1. a \in 1..n /\ b - n \in 1..m
      BY <1>1, <2>3
    <3>2. t[a][2] \in S
      BY <1>1, <3>1 DEF Proper, HeldIn
    <3>3. t[b][2] \in T
      BY <1>1, <2>3, <3>1 DEF Proper, HeldIn
    <3> QED  BY <3>2, <3>3
  <2> QED  BY <1>1, <2>1, <2>2, <2>3
<1> QED
  BY <1>1, <1>2, <1>3 DEF Proper, t

SetuidIds(item) ==
  {"SU01", "SU02", "SU04", "SU05", "SU07", "SU09", "SU10", "SU12", "SU17",
   "SU18", "SU20", "SU21"}
  \cup (IF Has(item.inode, "ISUID") /\ ~Executable(item.inode) THEN {"SU03"} ELSE {})
SetgidIds(i) ==
  {"SG01", "SG03", "SG04"}
  \cup (IF Has(i, "ISGID") /\ ~Executable(i) /\ Kind[i] # "directory"
        THEN {"SU03"} ELSE {})

(* The lists of rules, whatever their conditions are.  They are given with *)
(* the conditions as parameters: the ids are what is proved about.         *)
LEMMA TwoRules ==
  ASSUME NEW item, NEW x \in Registered, NEW y \in Registered, x # y,
         NEW c \in BOOLEAN, NEW d \in BOOLEAN
  PROVE  Proper(<< <<c, x>>, <<d, y>> >>, {x, y}, item)
BY DEF Proper, HeldIn, Once, Holds, Rule

LEMMA SmallRules ==
  ASSUME NEW item, NEW i, NEW magic
  PROVE  /\ Proper(TimeRules(item), {"SU13", "SU14"}, item)
         /\ Proper(PlaceRules(item), {"HWBD", "SG02"}, item)
         /\ Proper(RegularRules(i), {"SU22", "SU08"}, item)
         /\ Proper(FlagRules(i), {"IMMU", "APND"}, item)
         /\ Proper(ContentRules(magic), {"SU06", "SU16"}, item)
<1> USE DEF Registered, Low, MedLow, Med, High, Crit
<1>1. Proper(TimeRules(item), {"SU13", "SU14"}, item)
  <2>1. PICK c \in BOOLEAN, d \in BOOLEAN : TimeRules(item) = << <<c, "SU13">>, <<d, "SU14">> >>
    BY DEF TimeRules
  <2> QED  BY <2>1, TwoRules
<1>2. Proper(PlaceRules(item), {"HWBD", "SG02"}, item)
  <2>1. PICK c \in BOOLEAN, d \in BOOLEAN : PlaceRules(item) = << <<c, "HWBD">>, <<d, "SG02">> >>
    BY DEF PlaceRules
  <2> QED  BY <2>1, TwoRules
<1>3. Proper(RegularRules(i), {"SU22", "SU08"}, item)
  <2>1. PICK c \in BOOLEAN, d \in BOOLEAN : RegularRules(i) = << <<c, "SU22">>, <<d, "SU08">> >>
    BY DEF RegularRules
  <2> QED  BY <2>1, TwoRules
<1>4. Proper(FlagRules(i), {"IMMU", "APND"}, item)
  <2>a. /\ FlagRules(i)[1][1] \in BOOLEAN /\ FlagRules(i)[2][1] \in BOOLEAN
        /\ FlagRules(i) = << <<FlagRules(i)[1][1], "IMMU">>, <<FlagRules(i)[2][1], "APND">> >>
    BY DEF FlagRules
  <2>1. PICK c \in BOOLEAN, d \in BOOLEAN : FlagRules(i) = << <<c, "IMMU">>, <<d, "APND">> >>
    BY <2>a
  <2> QED  BY <2>1, TwoRules
<1>5. Proper(ContentRules(magic), {"SU06", "SU16"}, item)
  <2>1. PICK c \in BOOLEAN, d \in BOOLEAN : ContentRules(magic) = << <<c, "SU06">>, <<d, "SU16">> >>
    BY DEF ContentRules
  <2> QED  BY <2>1, TwoRules
<1> QED  BY <1>1, <1>2, <1>3, <1>4, <1>5

LEMMA SetuidListed ==
  ASSUME NEW item,
         NEW c \in [1..13 -> BOOLEAN],
         c[6] => Has(item.inode, "ISUID") /\ ~Executable(item.inode)
  PROVE  Proper(<< <<c[1], "SU09">>, <<c[2], "SU01">>, <<c[3], "SU02">>, <<c[4], "SU07">>, <<c[5], "SU10">>,
                   <<c[6], "SU03">>, <<c[7], "SU18">>, <<c[8], "SU17">>, <<c[9], "SU05">>, <<c[10], "SU04">>,
                   <<c[11], "SU20">>, <<c[12], "SU21">>, <<c[13], "SU12">> >>, SetuidIds(item), item)
<1> DEFINE r == << <<c[1], "SU09">>, <<c[2], "SU01">>, <<c[3], "SU02">>, <<c[4], "SU07">>, <<c[5], "SU10">>,
                 <<c[6], "SU03">>, <<c[7], "SU18">>, <<c[8], "SU17">>, <<c[9], "SU05">>, <<c[10], "SU04">>,
                 <<c[11], "SU20">>, <<c[12], "SU21">>, <<c[13], "SU12">> >>
<1>1. r \in Seq(Rule)
  BY DEF Rule, Registered, Low, MedLow, Med, High, Crit
<1>2. HeldIn(r, SetuidIds(item))
  BY DEF HeldIn, Holds, SetuidIds
<1>3. Once(r, item)
  BY DEF Once
<1> QED
  BY <1>1, <1>2, <1>3 DEF Proper

LEMMA SetuidProper ==
  ASSUME NEW item
  PROVE  Proper(SetuidRules(item), SetuidIds(item), item)
<1> DEFINE r == SetuidRules(item)
<1>a. /\ r[1][1] \in BOOLEAN /\ r[2][1] \in BOOLEAN /\ r[3][1] \in BOOLEAN
      /\ r[4][1] \in BOOLEAN /\ r[5][1] \in BOOLEAN /\ r[6][1] \in BOOLEAN
  BY DEF SetuidRules, Has
<1>b. /\ r[7][1] \in BOOLEAN /\ r[8][1] \in BOOLEAN /\ r[9][1] \in BOOLEAN
      /\ r[10][1] \in BOOLEAN /\ r[11][1] \in BOOLEAN /\ r[12][1] \in BOOLEAN
      /\ r[13][1] \in BOOLEAN
  BY DEF SetuidRules, Has
<1> DEFINE c == [k \in 1..13 |-> r[k][1]]
<1>1. c \in [1..13 -> BOOLEAN]
  <2> HIDE DEF r
  <2>1. \A k \in 1..13 : r[k][1] \in BOOLEAN
    BY <1>a, <1>b
  <2> QED  BY <2>1
<1>2. r = << <<c[1], "SU09">>, <<c[2], "SU01">>, <<c[3], "SU02">>, <<c[4], "SU07">>,
               <<c[5], "SU10">>, <<c[6], "SU03">>, <<c[7], "SU18">>, <<c[8], "SU17">>,
               <<c[9], "SU05">>, <<c[10], "SU04">>, <<c[11], "SU20">>, <<c[12], "SU21">>,
               <<c[13], "SU12">> >>
  BY DEF SetuidRules
<1>3. c[6] => Has(item.inode, "ISUID") /\ ~Executable(item.inode)
  <2>1. r[6][1] => Has(item.inode, "ISUID") /\ ~Executable(item.inode)
    BY DEF SetuidRules
  <2> HIDE DEF r
  <2> QED  BY <2>1
<1> HIDE DEF r, c
<1>4. Proper(r, SetuidIds(item), item)
  BY <1>1, <1>2, <1>3, SetuidListed
<1> QED
  BY <1>4 DEF r

LEMMA SetgidListed ==
  ASSUME NEW item,
         NEW c \in [1..4 -> BOOLEAN],
         c[4] => Has(item.inode, "ISGID") /\ ~Executable(item.inode) /\ Kind[item.inode] # "directory"
  PROVE  Proper(<< <<c[1], "SG01">>, <<c[2], "SG03">>, <<c[3], "SG04">>, <<c[4], "SU03">> >>, SetgidIds(item.inode), item)
<1> DEFINE r == << <<c[1], "SG01">>, <<c[2], "SG03">>, <<c[3], "SG04">>, <<c[4], "SU03">> >>
<1>1. r \in Seq(Rule)
  BY DEF Rule, Registered, Low, MedLow, Med, High, Crit
<1>2. HeldIn(r, SetgidIds(item.inode))
  BY DEF HeldIn, Holds, SetgidIds
<1>3. Once(r, item)
  BY DEF Once
<1> QED
  BY <1>1, <1>2, <1>3 DEF Proper

LEMMA SetgidProper ==
  ASSUME NEW item
  PROVE  Proper(SetgidRules(item.inode), SetgidIds(item.inode), item)
<1> DEFINE r == SetgidRules(item.inode)
<1>a. /\ r[1][1] \in BOOLEAN /\ r[2][1] \in BOOLEAN /\ r[3][1] \in BOOLEAN
      /\ r[4][1] \in BOOLEAN
  BY DEF SetgidRules, Has
<1> DEFINE c == [k \in 1..4 |-> r[k][1]]
<1>1. c \in [1..4 -> BOOLEAN]
  <2> HIDE DEF r
  <2>1. \A k \in 1..4 : r[k][1] \in BOOLEAN
    BY <1>a
  <2> QED  BY <2>1
<1>2. r = << <<c[1], "SG01">>, <<c[2], "SG03">>, <<c[3], "SG04">>, <<c[4], "SU03">> >>
  BY DEF SetgidRules
<1>3. c[4] => Has(item.inode, "ISGID") /\ ~Executable(item.inode) /\ Kind[item.inode] # "directory"
  <2>1. r[4][1] => Has(item.inode, "ISGID") /\ ~Executable(item.inode) /\ Kind[item.inode] # "directory"
    BY DEF SetgidRules
  <2> HIDE DEF r
  <2> QED  BY <2>1
<1> HIDE DEF r, c
<1>4. Proper(r, SetgidIds(item.inode), item)
  BY <1>1, <1>2, <1>3, SetgidListed
<1> QED
  BY <1>4 DEF r

LEMMA CapabilityListed ==
  ASSUME NEW item,
         NEW c \in [1..12 -> BOOLEAN]
  PROVE  Proper(<< <<c[1], "CA01">>, <<c[2], "CA28">>, <<c[3], "CA35">>, <<c[4], "CA36">>, <<c[5], "CA25">>,
                   <<c[6], "CA26">>, <<c[7], "CA27">>, <<c[8], "CA30">>, <<c[9], "CA31">>, <<c[10], "CA32">>,
                   <<c[11], "CA33">>, <<c[12], "CA34">> >>, CapabilityIds, item)
<1> DEFINE r == << <<c[1], "CA01">>, <<c[2], "CA28">>, <<c[3], "CA35">>, <<c[4], "CA36">>, <<c[5], "CA25">>,
                 <<c[6], "CA26">>, <<c[7], "CA27">>, <<c[8], "CA30">>, <<c[9], "CA31">>, <<c[10], "CA32">>,
                 <<c[11], "CA33">>, <<c[12], "CA34">> >>
<1>1. r \in Seq(Rule)
  BY DEF Rule, Registered, Low, MedLow, Med, High, Crit
<1>2. HeldIn(r, CapabilityIds)
  BY DEF HeldIn, Holds, CapabilityIds
<1>3. Once(r, item)
  BY DEF Once
<1> QED
  BY <1>1, <1>2, <1>3 DEF Proper

LEMMA CapabilityProper ==
  ASSUME NEW item, NEW cap \in Capability
  PROVE  Proper(CapabilityRules(cap), CapabilityIds, item)
<1> DEFINE r == CapabilityRules(cap)
<1>a. /\ r[1][1] \in BOOLEAN /\ r[2][1] \in BOOLEAN /\ r[3][1] \in BOOLEAN
      /\ r[4][1] \in BOOLEAN /\ r[5][1] \in BOOLEAN /\ r[6][1] \in BOOLEAN
  BY DEF CapabilityRules, Capability
<1>b. /\ r[7][1] \in BOOLEAN /\ r[8][1] \in BOOLEAN /\ r[9][1] \in BOOLEAN
      /\ r[10][1] \in BOOLEAN /\ r[11][1] \in BOOLEAN /\ r[12][1] \in BOOLEAN
  BY DEF CapabilityRules, Capability
<1> DEFINE c == [k \in 1..12 |-> r[k][1]]
<1>1. c \in [1..12 -> BOOLEAN]
  <2> HIDE DEF r
  <2>1. \A k \in 1..12 : r[k][1] \in BOOLEAN
    BY <1>a, <1>b
  <2> QED  BY <2>1
<1>2. r = << <<c[1], "CA01">>, <<c[2], "CA28">>, <<c[3], "CA35">>, <<c[4], "CA36">>,
               <<c[5], "CA25">>, <<c[6], "CA26">>, <<c[7], "CA27">>, <<c[8], "CA30">>,
               <<c[9], "CA31">>, <<c[10], "CA32">>, <<c[11], "CA33">>, <<c[12], "CA34">> >>
  BY DEF CapabilityRules
<1> HIDE DEF r, c
<1>4. Proper(r, CapabilityIds, item)
  BY <1>1, <1>2, CapabilityListed
<1> QED
  BY <1>4 DEF r

RecordIds(item) ==
  {"SU13", "SU14"} \cup {"HWBD", "SG02"} \cup {"SU22", "SU08"}
  \cup SetuidIds(item) \cup SetgidIds(item.inode)

LEMMA RecordProper ==
  ASSUME NEW item PROVE Proper(RecordRules(item), RecordIds(item), item)
<1>1. Proper(TimeRules(item) \o PlaceRules(item),
             {"SU13", "SU14"} \cup {"HWBD", "SG02"}, item)
  BY SmallRules, ProperJoined
<1>2. Proper(TimeRules(item) \o PlaceRules(item) \o RegularRules(item.inode),
             {"SU13", "SU14"} \cup {"HWBD", "SG02"} \cup {"SU22", "SU08"}, item)
  BY <1>1, SmallRules, ProperJoined
<1>3. Proper(TimeRules(item) \o PlaceRules(item) \o RegularRules(item.inode)
             \o SetuidRules(item),
             {"SU13", "SU14"} \cup {"HWBD", "SG02"} \cup {"SU22", "SU08"}
             \cup SetuidIds(item), item)
  <2>1. ({"SU13", "SU14"} \cup {"HWBD", "SG02"} \cup {"SU22", "SU08"}) \cap SetuidIds(item) = {}
    BY DEF SetuidIds
  <2> QED  BY <1>2, <2>1, SetuidProper, ProperJoined
<1>4. \A id \in ({"SU13", "SU14"} \cup {"HWBD", "SG02"} \cup {"SU22", "SU08"}
                \cup SetuidIds(item)) \cap SetgidIds(item.inode) : Twice(item, id)
  BY DEF SetuidIds, SetgidIds, Twice
<1> QED
  BY <1>3, <1>4, SetgidProper, ProperJoined DEF RecordRules, RecordIds

LEMMA OneRule ==
  ASSUME NEW item, NEW x \in Registered, NEW c \in BOOLEAN
  PROVE  Proper(<< <<c, x>> >>, {x}, item)
BY DEF Proper, HeldIn, Once, Holds, Rule

LEMMA SymlinkProper ==
  ASSUME NEW item, NEW c \in BOOLEAN, NEW d \in BOOLEAN
  PROVE  /\ Proper(TextRules(item), {"SY03"}, item)
         /\ Proper(TextRules(item) \o << <<c, "SY01">>, <<d, "SY02">> >>,
                   {"SY01", "SY02", "SY03"}, item)
<1> USE DEF Registered, Low, MedLow, Med, High, Crit
<1>1. Escapes(Text[item.symlink_target]) \in BOOLEAN
  BY DEF Escapes
<1>2. Proper(TextRules(item), {"SY03"}, item)
  BY <1>1, OneRule DEF TextRules
<1>3. Proper(<< <<c, "SY01">>, <<d, "SY02">> >>, {"SY01", "SY02"}, item)
  BY TwoRules
<1>4. {"SY03"} \cup {"SY01", "SY02"} = {"SY01", "SY02", "SY03"}
  OBVIOUS
<1>5. Proper(TextRules(item) \o << <<c, "SY01">>, <<d, "SY02">> >>,
             {"SY03"} \cup {"SY01", "SY02"}, item)
  BY <1>2, <1>3, ProperJoined
<1> QED
  BY <1>2, <1>4, <1>5

---------------------------------------------------------------------------

(* The ids a call may raise for an item: no two calls share one. *)
MayRaise(c, item) ==
  CASE c = "record"     -> RecordIds(item)
    [] c = "getpwuid"   -> {"SU11"}
    [] c = "getgrgid"   -> {"SG05"}
    [] c = "flags"      -> {"IMMU", "APND"}
    [] c = "redundant"  -> {"SU19"}
    [] c = "content"    -> {"SU06", "SU16"}
    [] c = "capability" -> CapabilityIds
    [] c = "stat"       -> {"SY01", "SY02", "SY03"}

(* What one answer brings: ids of that call, each once. *)
Brings(c, item, ids) ==
  /\ ids \in Seq(Registered)
  /\ \A j \in DOMAIN ids : ids[j] \in MayRaise(c, item)
  /\ \A j \in DOMAIN ids : \A h \in 1..(j-1) : ids[h] = ids[j] => Twice(item, ids[j])

LEMMA OwnIds ==
  ASSUME NEW c \in CallNames, NEW e \in CallNames, c # e, NEW item
  PROVE  MayRaise(c, item) \cap MayRaise(e, item) = {}
BY DEF MayRaise, CallNames, Calls, RecordIds, SetuidIds, SetgidIds, CapabilityIds

LEMMA RaisedBrings ==
  ASSUME NEW rules, NEW c, NEW item, Proper(rules, MayRaise(c, item), item)
  PROVE  Brings(c, item, Raised[rules])
<1>1. rules \in Seq(Rule) /\ DOMAIN rules = 1..Len(rules)
  BY DEF Proper
<1>2. PICK s : s = Raised[rules]
  OBVIOUS
<1>3. /\ s \in Seq(Registered)
      /\ Sound(rules, Len(rules), s) /\ Sorted(rules, Len(rules), s)
  BY <1>1, <1>2, RaisedFrom
<1>4. \A j \in DOMAIN s : s[j] \in MayRaise(c, item)
  BY <1>1, <1>3 DEF Sound, Proper, HeldIn
<1>5. ASSUME NEW j \in DOMAIN s, NEW h \in 1..(j-1), s[h] = s[j]
      PROVE  Twice(item, s[j])
  <2>1. PICK b \in 1..Len(rules) : \E a \in 1..(b-1) :
          /\ Holds(rules[a]) /\ s[h] = rules[a][2]
          /\ Holds(rules[b]) /\ s[j] = rules[b][2]
    BY <1>3 DEF Sorted
  <2> QED  BY <1>1, <1>5, <2>1 DEF Proper, Once
<1> QED
  BY <1>2, <1>3, <1>4, <1>5 DEF Brings

LEMMA FewIds ==
  ASSUME NEW c, NEW item
  PROVE  /\ Brings(c, item, <<>>)
         /\ \A x \in MayRaise(c, item) \cap Registered : Brings(c, item, <<x>>)
BY DEF Brings

(* The question that is open: the content, if the process sleeps. *)
Open == IF call = "asleep" THEN "content" ELSE call

(* A lookup of the account, and what it raised. *)
Sought(account, id, ids) ==
  \E answer \in {"found", "missing", "error"} :
    /\ Looked(account, answer)
    /\ ids = IF answer = "found" THEN <<>> ELSE <<id>>

Answer ==
  \E ids, failures :
    /\ Brings(Open, Item, ids) /\ failures \subseteq {Open}
    /\ CASE Open = "getpwuid" -> Sought(attr[Item.inode].uid, "SU11", ids)
         [] Open = "getgrgid" -> Sought(attr[Item.inode].gid, "SG05", ids)
         [] OTHER             -> UNCHANGED nsVars
    /\ Settled(Open, ids, failures)

(* Every step of the analysis starts it, waits, or answers the question    *)
(* that is open.                                                           *)
LEMMA AnswerStep ==
  ASSUME attr \in [Inode -> Metadata], AnalysisStep \/ Awaken
  PROVE  \/ StartAnalysis \/ ReadBlocks
         \/ \E a : ResizeBuffer(a) /\ UNCHANGED <<vars, analysisVars>>
         \/ Open \in CallNames /\ Answer
<1> USE DEF CallNames, Calls
<1>1. ASSUME NEW c \in CallNames \ {"getpwuid", "getgrgid"}, NEW ids, Open = c,
             Brings(c, Item, ids), Answered(c, ids), UNCHANGED nsVars
      PROVE  Open \in CallNames /\ Answer
  BY <1>1 DEF Answer, Answered
<1>2. ASSUME NEW c \in CallNames \ {"getpwuid", "getgrgid"}, Open = c, Failed(c),
             UNCHANGED nsVars
      PROVE  Open \in CallNames /\ Answer
  BY <1>2, FewIds DEF Answer, Failed
<1>3. CASE AnalyzeRecord
  <2>1. Brings("record", Item, Raised[RecordRules(Item)])
    BY RecordProper, RaisedBrings DEF MayRaise
  <2> QED  BY <1>1, <1>3, <2>1 DEF AnalyzeRecord, Open
<1>4. ASSUME NEW c \in {"getpwuid", "getgrgid"}, NEW account, NEW id \in Registered,
             c = "getpwuid" => account = attr[Item.inode].uid /\ id = "SU11",
             c = "getgrgid" => account = attr[Item.inode].gid /\ id = "SG05",
             Orphaned(c, account, id)
      PROVE  \/ ResizeBuffer(account) /\ UNCHANGED <<vars, analysisVars>>
             \/ Open \in CallNames /\ Answer
  <2>1. ASSUME NEW answer \in {"found", "missing", "error"}, Looked(account, answer),
               Answered(c, IF answer = "found" THEN <<>> ELSE <<id>>), call = c
        PROVE  Open \in CallNames /\ Answer
    <3>1. PICK ids : ids = IF answer = "found" THEN <<>> ELSE <<id>>
      OBVIOUS
    <3>2. id \in MayRaise(c, Item)
      BY <1>4 DEF MayRaise
    <3>3. Brings(c, Item, ids)
      BY <3>1, <3>2, FewIds
    <3>4. Sought(account, id, ids) /\ Settled(c, ids, {}) /\ Open = c
      BY <2>1, <3>1 DEF Sought, Answered, Open
    <3> QED  BY <1>4, <3>3, <3>4 DEF Answer
  <2> QED  BY <1>4, <2>1 DEF Orphaned
<1>5. CASE OrphanedUid \/ OrphanedGid
  <2>1. "SU11" \in Registered /\ "SG05" \in Registered
    BY DEF Registered, High
  <2> QED  BY <1>4, <1>5, <2>1 DEF OrphanedUid, OrphanedGid
<1>6. CASE ReadFlags
  <2>1. Brings("flags", Item, Raised[FlagRules(Where)])
    BY SmallRules, RaisedBrings DEF MayRaise
  <2> QED  BY <1>1, <1>2, <1>6, <2>1 DEF ReadFlags, Open
<1>7. CASE LookForCapability
  <2>1. ASSUME Where \in Inode
        PROVE  Brings("redundant", Item, Raised[<< <<attr[Where].capability.present, "SU19">> >>])
    <3>1. attr[Where].capability.present \in BOOLEAN
      BY <2>1 DEF Metadata, Capability
    <3>2. "SU19" \in Registered
      BY DEF Registered, MedLow
    <3> QED  BY <3>1, <3>2, OneRule, RaisedBrings DEF MayRaise
  <2> QED  BY <1>1, <1>2, <1>7, <2>1 DEF LookForCapability, Open
<1>8. CASE AnalyzeCapability
  <2>1. ASSUME Where \in Inode
        PROVE  Brings("capability", Item, Raised[CapabilityRules(attr[Where].capability)])
    <3>1. attr[Where].capability \in Capability
      BY <2>1 DEF Metadata
    <3> QED  BY <3>1, CapabilityProper, RaisedBrings DEF MayRaise
  <2> QED  BY <1>1, <1>2, <1>8, <2>1 DEF AnalyzeCapability, Open
<1>9. \A magic : Brings("content", Item, Raised[ContentRules(magic)])
  BY SmallRules, RaisedBrings DEF MayRaise
<1>10. CASE ReadContent
  BY <1>1, <1>2, <1>9, <1>10 DEF ReadContent, Open
<1>11. CASE Awaken
  BY <1>1, <1>9, <1>11 DEF Awaken, Open
<1>12. /\ Brings("stat", Item, Raised[TextRules(Item)])
       /\ Brings("stat", Item, Raised[TextRules(Item) \o << <<Where = NoInode, "SY01">>,
                                                           <<Where = "ELOOP", "SY02">> >>])
  <2>1. Proper(TextRules(Item) \o << <<Where = NoInode, "SY01">>, <<Where = "ELOOP", "SY02">> >>,
               {"SY01", "SY02", "SY03"}, Item)
    BY SymlinkProper
  <2>2. Proper(TextRules(Item), {"SY03"}, Item)
    BY SymlinkProper
  <2>3. Proper(TextRules(Item), {"SY01", "SY02", "SY03"}, Item)
    BY <2>2 DEF Proper, HeldIn
  <2> QED  BY <2>1, <2>3, RaisedBrings DEF MayRaise
<1>13. CASE AnalyzeSymlink
  BY <1>1, <1>12, <1>13 DEF AnalyzeSymlink, Open
<1>14. CASE CallFails
  <2>1. PICK ids : /\ \/ ids = <<>>
                      \/ call = "content" /\ ids = <<"SU16">>
                      \/ call = "stat" /\ ids = Raised[TextRules(Item)]
                   /\ Settled(call, ids, {call})
    <3>1. CASE call = "content"
      BY <1>14, <3>1 DEF CallFails
    <3>2. CASE call = "stat"
      BY <1>14, <3>2 DEF CallFails
    <3>3. CASE call \notin {"content", "stat"}
      BY <1>14, <3>3 DEF CallFails
    <3> QED  BY <3>1, <3>2, <3>3
  <2>2. /\ call \in CallNames \ {"getpwuid", "getgrgid"} /\ Open = call
        /\ UNCHANGED nsVars
    BY <1>14, AnalyzersAssumption DEF CallFails, Open
  <2>3. Brings("content", Item, <<"SU16">>)
    BY FewIds DEF MayRaise, Registered, Crit
  <2>4. Brings(call, Item, ids)
    BY <1>12, <2>1, <2>3, FewIds
  <2> QED  BY <2>1, <2>2, <2>4 DEF Answer
<1> QED
  BY <1>3, <1>5, <1>6, <1>7, <1>8, <1>10, <1>11, <1>13, <1>14 DEF AnalysisStep

---------------------------------------------------------------------------

(* The questions whose turn has come and gone for item k, whether they     *)
(* were put, or were not needed.                                           *)
Earlier(c) ==
  {Calls[j] : j \in {j \in DOMAIN Calls :
                       \E p \in DOMAIN Calls : j < p /\ Calls[p] = c}}
Passed(k) ==
  IF Finished(k) THEN CallNames
  ELSE IF k = at THEN Earlier(Open) ELSE {}

LEMMA CallsInOrder ==
  /\ DOMAIN Calls = 1..8
  /\ \A j, k \in 1..8 : Calls[j] = Calls[k] => j = k
  /\ \A p \in 1..8 : Earlier(Calls[p]) = {Calls[j] : j \in 1..(p-1)}
  /\ Earlier("record") = {}
<1>1. DOMAIN Calls = 1..8 /\ Calls[1] = "record"
  BY DEF Calls
<1>2. \A j, k \in 1..8 : Calls[j] = Calls[k] => j = k
  BY DEF Calls
<1>3. ASSUME NEW p \in 1..8
      PROVE  Earlier(Calls[p]) = {Calls[j] : j \in 1..(p-1)}
  <2>1. {j \in DOMAIN Calls : \E q \in DOMAIN Calls : j < q /\ Calls[q] = Calls[p]} = 1..(p-1)
    BY <1>1, <1>2
  <2> QED  BY <2>1 DEF Earlier
<1>4. 1..(1-1) = {}
  OBVIOUS
<1> QED
  BY <1>1, <1>2, <1>3, <1>4

(* What Proceed does: it passes the question that was open and those that  *)
(* the item does not need, and no others.                                  *)
LEMMA Proceeds ==
  ASSUME NEW n, n = at, n \in 1..Len(items), Len(items) \in Nat,
         Open \in CallNames, call # "analyzed", Proceed(Open), UNCHANGED items
  PROVE  /\ call' \in CallNames \cup {"analyzed"}
         /\ at' \in 1..Len(items)
         /\ \A k \in 1..Len(items) : k # n => Passed(k)' = Passed(k)
         /\ Open \notin Passed(n) /\ Open \in Passed(n)'
         /\ Passed(n) \subseteq Passed(n)'
         /\ \A c \in Passed(n)' : c \in Passed(n) \/ c = Open \/ ~Needed(c, Item)
<1>1. PICK p \in 1..8 : Calls[p] = Open
  BY CallsInOrder DEF CallNames
<1> DEFINE later == {k \in DOMAIN Calls :
                       /\ \E j \in 1..(k-1) : Calls[j] = Open
                       /\ Needed(Calls[k], Item)}
<1>2. \A k : k \in later <=> k \in 1..8 /\ p < k /\ Needed(Calls[k], Item)
  BY <1>1, CallsInOrder
<1>3. \/ /\ later # {}
         /\ call' = Calls[CHOOSE k \in later : \A j \in later : k <= j] /\ at' = at
      \/ /\ later = {} /\ at < Len(items) /\ call' = "record" /\ at' = at + 1
      \/ /\ later = {} /\ ~(at < Len(items)) /\ call' = "analyzed" /\ at' = at
  BY DEF Proceed
<1> HIDE DEF later
<1>4. /\ ~Finished(n)
      /\ Passed(n) = {Calls[j] : j \in 1..(p-1)}
  BY <1>1, CallsInOrder DEF Passed, Finished
<1>5. Open \notin Passed(n)
  BY <1>1, <1>4, CallsInOrder
<1>6. "analyzed" \notin CallNames /\ "asleep" \notin CallNames /\ "record" \in CallNames
      /\ \A q \in 1..8 : Calls[q] \in CallNames
  BY DEF CallNames, Calls
<1>7. CASE later # {}
  <2>1. later \in SUBSET Nat
    BY <1>2
  <2>2. PICK q \in later : \A j \in later : q <= j
    BY <1>7, <2>1, SmallestElement
  <2> DEFINE m == CHOOSE k \in later : \A j \in later : k <= j
  <2>3. m \in later /\ \A j \in later : m <= j
    BY <2>2
  <2>4. call' = Calls[m] /\ at' = at
    BY <1>3, <1>7
  <2> HIDE DEF m
  <2>5. m \in 1..8 /\ p < m
    BY <1>2, <2>3
  <2>6. Open' = Calls[m] /\ ~Finished(n)'
    BY <1>6, <2>4, <2>5 DEF Open, Finished
  <2>7. Passed(n)' = {Calls[j] : j \in 1..(m-1)}
    BY <2>4, <2>5, <2>6, CallsInOrder DEF Passed, Earlier, Calls
  <2>8. \A k \in 1..Len(items) : k # n => Passed(k)' = Passed(k)
    BY <1>6, <2>4, <2>5 DEF Passed, Finished
  <2>9. \A c \in Passed(n)' : c \in Passed(n) \/ c = Open \/ ~Needed(c, Item)
    BY <1>1, <1>2, <1>4, <2>3, <2>5, <2>7
  <2> QED  BY <1>1, <1>4, <1>5, <1>6, <2>4, <2>5, <2>7, <2>8, <2>9
<1>8. CASE later = {}
  <2>1. \A c \in CallNames : c \in Passed(n) \/ c = Open \/ ~Needed(c, Item)
    <3> SUFFICES ASSUME NEW j \in 1..8
                 PROVE  Calls[j] \in Passed(n) \/ Calls[j] = Open \/ ~Needed(Calls[j], Item)
      BY CallsInOrder DEF CallNames
    <3> QED  BY <1>1, <1>2, <1>4, <1>8
  <2>2. Finished(n)'
    BY <1>3, <1>8 DEF Finished
  <2>3. Passed(n)' = CallNames
    BY <2>2 DEF Passed, CallNames, Calls
  <2>4. Passed(n) \subseteq CallNames
    BY <1>4, <1>6
  <2>5. CASE at < Len(items)
    <3>1. call' = "record" /\ at' = at + 1 /\ Open' = "record"
      BY <1>3, <1>8, <2>5 DEF Open
    <3>2. ASSUME NEW k \in 1..Len(items), k # n PROVE Passed(k)' = Passed(k)
      <4>1. CASE k < n
        BY <3>1, <4>1 DEF Passed, Finished, CallNames, Calls
      <4>2. CASE k = n + 1
        <5>1. Passed(k) = {}
          BY <4>2 DEF Passed, Finished
        <5>2. Passed(k)' = Earlier("record")
          BY <3>1, <4>2 DEF Passed, Finished, Earlier, Calls
        <5> QED  BY <5>1, <5>2, CallsInOrder
      <4>3. CASE k > n + 1
        BY <3>1, <4>3 DEF Passed, Finished
      <4> QED  BY <3>2, <4>1, <4>2, <4>3
    <3> QED  BY <1>5, <1>6, <2>1, <2>3, <2>4, <2>5, <3>1, <3>2
  <2>6. CASE ~(at < Len(items))
    <3>1. call' = "analyzed" /\ at' = at /\ at = Len(items)
      BY <1>3, <1>8, <2>6
    <3>2. ASSUME NEW k \in 1..Len(items), k # n PROVE Passed(k)' = Passed(k)
      BY <3>1, <3>2 DEF Passed, Finished, CallNames, Calls
    <3> QED  BY <1>5, <1>6, <2>1, <2>3, <2>4, <3>1, <3>2
  <2> QED  BY <2>5, <2>6
<1> QED
  BY <1>7, <1>8

---------------------------------------------------------------------------

(* The four things that happen to the name service. *)
NsStep ==
  \/ AccountChange \/ UNCHANGED nsVars
  \/ \E a : ResizeBuffer(a)
  \/ \E a, answer : Looked(a, answer)

(* Steps that are not the analysis's: of the scan, of main, of others. *)
Elsewhere ==
  /\ [Next]_vars \/ After
  /\ NsStep
  /\ UNCHANGED analysisVars

LEMMA AnalysisSteps ==
  [AnalysisNext]_kls => AnalysisStep \/ Awaken \/ Elsewhere
BY DEF AnalysisNext, KlsStep, Meanwhile, Elsewhere, After, NsStep, kls, Next

NsInv == NsTypeOK /\ Account \ known \subseteq lost

LEMMA NsInvInit == NsInit => NsInv
BY NameServiceAssumption DEF NsInit, NsInv, NsTypeOK

LEMMA NsInvStep ==
  ASSUME NsInv, NsStep
  PROVE  /\ NsInv'
         /\ lost \subseteq lost' /\ failed \subseteq failed'
         /\ account_changes' = 0 => /\ account_changes = 0
                                   /\ UNCHANGED <<known, lost>>
<1> USE DEF NsInv, NsTypeOK
<1>1. CASE AccountChange
  BY <1>1, NameServiceAssumption DEF AccountChange
<1>2. CASE UNCHANGED nsVars
  BY <1>2 DEF nsVars
<1>3. ASSUME NEW a, ResizeBuffer(a)
      PROVE  /\ NsInv' /\ UNCHANGED <<known, account_changes, lost, failed>>
  BY <1>3 DEF ResizeBuffer
<1>4. ASSUME NEW a, NEW answer, Looked(a, answer)
      PROVE  /\ NsInv' /\ failed \subseteq failed'
             /\ UNCHANGED <<known, account_changes, lost>>
  BY <1>4, NameServiceAssumption DEF Looked
<1> QED
  BY <1>1, <1>2, <1>3, <1>4 DEF NsStep

(* One step of the analysis: the name service moves as above. *)
LEMMA AnalysisNsStep ==
  ASSUME AnalysisTypeOK, AnalysisStep \/ Awaken PROVE NsStep
<1>1. CASE StartAnalysis \/ ReadBlocks
  BY <1>1 DEF StartAnalysis, ReadBlocks, NsStep
<1>2. CASE Open \in CallNames /\ Answer
  BY <1>2 DEF Answer, Sought, NsStep
<1> QED
  BY <1>1, <1>2, AnswerStep DEF AnalysisTypeOK, NsStep

---------------------------------------------------------------------------

(* The analysis goes through the items of a finished scan, one by one. *)
AnalysisInv ==
  /\ Books
  /\ NsInv
  /\ AnalysisTypeOK
  /\ call # "idle" => pc = "collected"
  /\ call = "idle" => at = 0

LEMMA AnalysisInvInit == AnalysisInit => AnalysisInv
<1> SUFFICES ASSUME AnalysisInit PROVE AnalysisInv
  OBVIOUS
<1>1. Books /\ NsInv
  BY BooksInit, NsInvInit DEF AnalysisInit
<1>2. attr \in [Inode -> Metadata]
  BY AnalyzersAssumption DEF AnalysisInit
<1>3. Len(items) \in Nat /\ call = "idle" /\ at = 0 /\ findings = <<>> /\ missed = <<>>
  BY <1>1 DEF Books, Shape, TypeOK, AnalysisInit
<1> QED
  BY <1>1, <1>2, <1>3 DEF AnalysisInv, AnalysisTypeOK, NsInv, Books, Shape, CallNames, Calls

LEMMA ElsewhereKeepsInv == AnalysisInv /\ Elsewhere => AnalysisInv'
<1> SUFFICES ASSUME AnalysisInv, Elsewhere PROVE AnalysisInv'
  OBVIOUS
<1>1. Books' /\ TypeOK' /\ NsInv' /\ NsTypeOK' /\ Len(items') \in Nat
  BY BooksAfter, NsInvStep DEF AnalysisInv, Elsewhere, Books, Shape, TypeOK, NsInv
<1>2. UNCHANGED <<attr, call, at, findings, missed>>
  BY DEF Elsewhere, analysisVars
<1>3. call # "idle" => UNCHANGED <<pc, items>>
  BY ScanFrozen DEF AnalysisInv, Elsewhere, Terminal
<1>4. AnalysisTypeOK'
  BY <1>1, <1>2, <1>3 DEF AnalysisInv, AnalysisTypeOK
<1> QED
  BY <1>1, <1>2, <1>3, <1>4 DEF AnalysisInv

(* The types of what an answer leaves behind, whatever it is. *)
LEMMA SettledTypes ==
  ASSUME AnalysisInv, Open \in CallNames, Answer
  PROVE  /\ at \in 1..Len(items) /\ Len(items) \in Nat /\ DOMAIN findings = 1..Len(items)
         /\ call # "analyzed" /\ call # "idle" /\ pc = "collected"
         /\ UNCHANGED <<vars, attr>>
         /\ Proceed(Open)
         /\ findings' \in Seq(Seq(Registered)) /\ missed' \in Seq(SUBSET CallNames)
         /\ Len(findings') = Len(items) /\ Len(missed') = Len(items)
<1>1. Len(items) \in Nat
  BY DEF AnalysisInv, Books, Shape, TypeOK
<1>2. call \in CallNames \cup {"asleep"} /\ call # "analyzed" /\ call # "idle"
  BY DEF Open, CallNames, Calls
<1>3. /\ at \in 1..Len(items) /\ pc = "collected"
      /\ findings \in Seq(Seq(Registered)) /\ Len(findings) = Len(items)
      /\ missed \in Seq(SUBSET CallNames) /\ Len(missed) = Len(items)
  BY <1>1, <1>2 DEF AnalysisInv, AnalysisTypeOK
<1>4. PICK ids, failures : /\ Brings(Open, Item, ids) /\ failures \subseteq {Open}
                           /\ Settled(Open, ids, failures)
  BY DEF Answer
<1>5. /\ findings' = [findings EXCEPT ![at] = findings[at] \o ids]
      /\ missed' = [missed EXCEPT ![at] = missed[at] \cup failures]
      /\ Proceed(Open) /\ UNCHANGED <<vars, attr>>
  BY <1>4 DEF Settled
<1>6. findings[at] \o ids \in Seq(Registered)
  <2>1. ids \in Seq(Registered) /\ findings[at] \in Seq(Registered)
    BY <1>3, <1>4 DEF Brings
  <2> QED  BY <2>1
<1>7. missed[at] \cup failures \in SUBSET CallNames
  BY <1>3, <1>4
<1>8. findings' \in Seq(Seq(Registered)) /\ Len(findings') = Len(items)
  BY <1>3, <1>5, <1>6
<1>9. missed' \in Seq(SUBSET CallNames) /\ Len(missed') = Len(items)
  BY <1>3, <1>5, <1>7
<1> QED
  BY <1>1, <1>2, <1>3, <1>5, <1>8, <1>9

LEMMA AnalysisKeepsInv ==
  AnalysisInv /\ (AnalysisStep \/ Awaken) => AnalysisInv'
<1> SUFFICES ASSUME AnalysisInv, AnalysisStep \/ Awaken PROVE AnalysisInv'
  OBVIOUS
<1>1. UNCHANGED <<vars, attr>>
  BY AnalysisKeepsScan
<1>2. Books' /\ TypeOK' /\ NsInv' /\ NsTypeOK' /\ Len(items) \in Nat /\ UNCHANGED <<pc, items>>
  BY <1>1, BooksStep, AnalysisNsStep, NsInvStep
     DEF AnalysisInv, Books, Shape, TypeOK, NsInv, vars, output
<1>3. CASE StartAnalysis
  <2>1. /\ call' \in {"analyzed", "record"} /\ at' \in 0..Len(items) /\ pc = "collected"
        /\ call' = "record" => at' > 0
    BY <1>2, <1>3 DEF StartAnalysis, AnalysisInv, Books, Shape, TypeOK
  <2>2. /\ findings' \in Seq(Seq(Registered)) /\ Len(findings') = Len(items)
        /\ missed' \in Seq(SUBSET CallNames) /\ Len(missed') = Len(items)
    <3>1. DOMAIN items = 1..Len(items)
      BY DEF AnalysisInv, Books, Shape, TypeOK
    <3>2. /\ findings' = [k \in 1..Len(items) |-> <<>>]
          /\ missed' = [k \in 1..Len(items) |-> {}]
      BY <1>3, <3>1 DEF StartAnalysis
    <3>3. <<>> \in Seq(Registered)
      OBVIOUS
    <3> QED  BY <1>2, <3>2, <3>3, FunctionIsSequence
  <2>3. /\ call' # "idle" /\ call' # "asleep" /\ pc' = "collected" /\ Len(items') = Len(items)
        /\ call' \in CallNames \cup {"analyzed"} /\ at' \in 0..Len(items)
        /\ call' \in CallNames => at' > 0
    BY <1>2, <2>1 DEF CallNames, Calls
  <2>4. AnalysisTypeOK'
    BY <1>1, <1>2, <2>2, <2>3 DEF AnalysisInv, AnalysisTypeOK
  <2> QED  BY <1>2, <2>3, <2>4 DEF AnalysisInv
<1>4. CASE ReadBlocks
  BY <1>1, <1>2, <1>4 DEF ReadBlocks, AnalysisInv, AnalysisTypeOK, CallNames, Calls
<1>5. CASE UNCHANGED analysisVars
  BY <1>1, <1>2, <1>5 DEF analysisVars, AnalysisInv, AnalysisTypeOK
<1>6. CASE Open \in CallNames /\ Answer
  <2>1. /\ call' \in CallNames \cup {"analyzed"} /\ at' \in 1..Len(items)
    BY <1>2, <1>6, SettledTypes, Proceeds
  <2>2. "idle" \notin CallNames \cup {"analyzed"}
    BY DEF CallNames, Calls
  <2> QED  BY <1>1, <1>2, <1>6, <2>1, <2>2, SettledTypes DEF AnalysisInv, AnalysisTypeOK
<1> QED
  BY <1>3, <1>4, <1>5, <1>6, AnswerStep DEF AnalysisInv, AnalysisTypeOK

LEMMA AnalysisInvStep == AnalysisInv /\ [AnalysisNext]_kls => AnalysisInv'
BY AnalysisSteps, ElsewhereKeepsInv, AnalysisKeepsInv

(* However the tree and the accounts change meanwhile, the analysis keeps  *)
(* one list of findings and one of failures for every item of the scan,    *)
(* and never asks for an item that is not there.                           *)
THEOREM AnalysisTypeCorrect == AnalysisSpec => []AnalysisTypeOK
<1>1. AnalysisInv => AnalysisTypeOK
  BY DEF AnalysisInv
<1> QED
  BY <1>1, AnalysisInvInit, AnalysisInvStep, PTL DEF AnalysisSpec

---------------------------------------------------------------------------

(* The ids come from questions passed, and none twice but SU03.            *)
InOrder(ids, passed, item) ==
  /\ \A j \in DOMAIN ids : \E c \in passed : ids[j] \in MayRaise(c, item)
  /\ \A j \in DOMAIN ids : \A h \in 1..(j-1) : ids[h] = ids[j] => Twice(item, ids[j])

(* The verdict on an account, from before the question about it on.        *)
Judged(ids, passed, c, id, account) ==
  /\ (\E j \in DOMAIN ids : ids[j] = id) => account \in lost \cup failed
  /\ c \in passed /\ account_changes = 0 /\ account \notin known =>
       \E j \in DOMAIN ids : ids[j] = id

InBooks(ids, passed, item) ==
  /\ ids \in Seq(Registered)
  /\ InOrder(ids, passed, item)
  /\ Judged(ids, passed, "getpwuid", "SU11", attr[item.inode].uid)
  /\ Judged(ids, passed, "getgrgid", "SG05", attr[item.inode].gid)

(* Whatever the findings of an item, the questions passed, and the item    *)
(* are: they are in order.                                                 *)
FindingsInv ==
  \A k, ids, passed, item :
    /\ k \in DOMAIN findings /\ ids = findings[k]
    /\ passed = Passed(k) /\ item = items[k]
    => InBooks(ids, passed, item)

LEMMA BooksStay ==
  ASSUME NsInv, NsStep, UNCHANGED attr, NEW ids, NEW passed, NEW item,
         InBooks(ids, passed, item)
  PROVE  InBooks(ids, passed, item)'
<1>1. InOrder(ids, passed, item)' = InOrder(ids, passed, item)
  BY DEF InOrder, MayRaise, RecordIds, SetuidIds, SetgidIds, Twice, Has, Executable
<1>2. PICK uid, gid : uid = attr[item.inode].uid /\ gid = attr[item.inode].gid
  OBVIOUS
<1>3. /\ Judged(ids, passed, "getpwuid", "SU11", uid)'
      /\ Judged(ids, passed, "getgrgid", "SG05", gid)'
  BY <1>2, NsInvStep DEF InBooks, Judged
<1> QED
  BY <1>1, <1>2, <1>3 DEF InBooks, Judged

(* An answer, joined to the findings so far. *)
LEMMA OrderGrows ==
  ASSUME NEW ids \in Seq(Registered), NEW new, NEW p, NEW q, NEW item, NEW c,
         InOrder(ids, p, item), Brings(c, item, new),
         c \in CallNames, p \subseteq CallNames \ {c}, p \subseteq q, c \in q
  PROVE  InOrder(ids \o new, q, item)
<1> DEFINE n == Len(ids)
           m == Len(new)
           t == ids \o new
<1>1. /\ n \in Nat /\ m \in Nat /\ DOMAIN t = 1..(n+m)
      /\ DOMAIN ids = 1..n /\ DOMAIN new = 1..m
      /\ \A j \in 1..n : t[j] = ids[j]
      /\ \A j \in 1..(n+m) : j > n => t[j] = new[j-n] /\ j - n \in 1..m
  BY DEF Brings
<1> HIDE DEF n, m, t
<1>2. /\ \A j \in 1..n : \E e \in p : ids[j] \in MayRaise(e, item)
      /\ \A j \in 1..m : new[j] \in MayRaise(c, item)
      /\ \A j \in 1..n : \A h \in 1..(j-1) : ids[h] = ids[j] => Twice(item, ids[j])
      /\ \A j \in 1..m : \A h \in 1..(j-1) : new[h] = new[j] => Twice(item, new[j])
  BY <1>1 DEF InOrder, Brings
<1>3. ASSUME NEW j \in 1..(n+m) PROVE \E e \in q : t[j] \in MayRaise(e, item)
  BY <1>1, <1>2
<1>4. ASSUME NEW j \in 1..(n+m), NEW h \in 1..(j-1), t[h] = t[j]
      PROVE  Twice(item, t[j])
  <2>1. CASE j \in 1..n
    <3>1. h \in 1..n
      BY <1>1, <2>1
    <3> QED  BY <1>1, <1>2, <1>4, <2>1, <3>1
  <2>2. CASE h > n
    <3>1. j > n /\ h \in 1..(n+m) /\ h - n \in 1..((j - n) - 1)
      BY <1>1, <2>2
    <3>2. t[h] = new[h-n] /\ t[j] = new[j-n] /\ j - n \in 1..m
      BY <1>1, <2>2, <3>1
    <3> QED  BY <1>2, <1>4, <3>1, <3>2
  <2>3. CASE j > n /\ h \in 1..n
    <3>1. PICK e \in p : t[h] \in MayRaise(e, item)
      BY <1>1, <1>2, <2>3
    <3>2. t[j] \in MayRaise(c, item)
      BY <1>1, <1>2, <2>3
    <3> QED  BY <1>4, <3>1, <3>2, OwnIds
  <2>4. j \in 1..n \/ j > n
    BY <1>1
  <2>5. h \in 1..n \/ h > n
    BY <1>1
  <2> QED  BY <2>1, <2>2, <2>3, <2>4, <2>5
<1> QED
  BY <1>1, <1>3, <1>4 DEF InOrder, t

LEMMA JudgedGrows ==
  ASSUME NEW ids \in Seq(Registered), NEW new \in Seq(Registered), NEW p, NEW q,
         NEW e, NEW id, NEW account \in Account, NsInv, NsStep,
         Judged(ids, p, e, id, account),
         \/ Sought(account, id, new)
         \/ (\A j \in DOMAIN new : new[j] # id) /\ (e \in q => e \in p)
  PROVE  Judged(ids \o new, q, e, id, account)'
<1>1. /\ lost \subseteq lost' /\ failed \subseteq failed'
      /\ account_changes' = 0 => account_changes = 0 /\ known' = known
  BY NsInvStep
<1> DEFINE n == Len(ids)
           m == Len(new)
           t == ids \o new
<1>2. /\ n \in Nat /\ m \in Nat /\ DOMAIN t = 1..(n+m)
      /\ DOMAIN ids = 1..n /\ DOMAIN new = 1..m
      /\ \A j \in 1..n : t[j] = ids[j]
      /\ \A j \in 1..m : t[n+j] = new[j] /\ n + j \in 1..(n+m)
      /\ \A j \in 1..(n+m) : j \in 1..n \/ (j - n \in 1..m /\ t[j] = new[j-n])
  OBVIOUS
<1> HIDE DEF n, m, t
<1>3. (\E j \in DOMAIN t : t[j] = id) <=>
        (\E j \in DOMAIN ids : ids[j] = id) \/ (\E j \in DOMAIN new : new[j] = id)
  <2>1. ASSUME NEW j \in DOMAIN ids, ids[j] = id PROVE \E h \in DOMAIN t : t[h] = id
    <3>1. j \in 1..(n+m) /\ t[j] = id
      BY <1>2, <2>1
    <3> QED  BY <1>2, <3>1
  <2>2. ASSUME NEW j \in DOMAIN new, new[j] = id PROVE \E h \in DOMAIN t : t[h] = id
    <3>1. n + j \in 1..(n+m) /\ t[n+j] = id
      BY <1>2, <2>2
    <3> QED  BY <1>2, <3>1
  <2>3. ASSUME NEW j \in DOMAIN t, t[j] = id
        PROVE  (\E h \in DOMAIN ids : ids[h] = id) \/ (\E h \in DOMAIN new : new[h] = id)
    BY <1>2, <2>3
  <2> QED  BY <2>1, <2>2, <2>3
<1>4. CASE Sought(account, id, new)
  <2>1. PICK answer \in {"found", "missing", "error"} :
          Looked(account, answer) /\ new = IF answer = "found" THEN <<>> ELSE <<id>>
    BY <1>4 DEF Sought
  <2>2. CASE answer = "found"
    <3>1. account \in known /\ DOMAIN new = {} /\ known' = known
      BY <2>1, <2>2 DEF Looked
    <3> QED  BY <1>1, <1>3, <3>1 DEF Judged, t
  <2>3. CASE answer # "found"
    <3>1. new = <<id>>
      BY <2>1, <2>3
    <3>2. \E j \in DOMAIN new : new[j] = id
      BY <3>1
    <3>3. account \in lost' \cup failed'
      BY <1>1, <2>1, <2>3 DEF Looked, NsInv
    <3> QED  BY <1>3, <3>2, <3>3 DEF Judged, t
  <2> QED  BY <2>2, <2>3
<1>5. CASE (\A j \in DOMAIN new : new[j] # id) /\ (e \in q => e \in p)
  BY <1>1, <1>3, <1>5 DEF Judged, t
<1> QED
  BY <1>4, <1>5

(* Both accounts of an item are accounts. *)
LEMMA AccountsOfItems ==
  ASSUME AnalysisInv, NEW k \in 1..Len(items)
  PROVE  /\ items[k].inode \in Inode
         /\ attr[items[k].inode].uid \in Account /\ attr[items[k].inode].gid \in Account
<1>1. items[k].inode \in Inode
  <2>1. items \in Seq(AuditItem)
    BY DEF AnalysisInv, Books, Shape, TypeOK
  <2>2. items[k] \in AuditItem
    BY <2>1
  <2> QED  BY <2>2 DEF AuditItem
<1>2. attr[items[k].inode] \in Metadata
  BY <1>1 DEF AnalysisInv, AnalysisTypeOK
<1> QED
  BY <1>1, <1>2 DEF Metadata

LEMMA AnswerInBooks ==
  ASSUME AnalysisInv, FindingsInv, Open \in CallNames, Answer, NEW n, n = at
  PROVE  \E ids, p, item : /\ ids = findings'[n] /\ p = Passed(n)' /\ item = items'[n]
                          /\ InBooks(ids, p, item)'
<1>1. /\ n \in 1..Len(items) /\ n \in DOMAIN findings /\ findings \in Seq(Seq(Registered))
      /\ call # "analyzed" /\ UNCHANGED <<items, attr>> /\ Proceed(Open) /\ Len(items) \in Nat
      /\ NsInv
  BY SettledTypes DEF AnalysisInv, AnalysisTypeOK, vars
<1>2. PICK new, failures :
        /\ Brings(Open, Item, new)
        /\ CASE Open = "getpwuid" -> Sought(attr[Item.inode].uid, "SU11", new)
             [] Open = "getgrgid" -> Sought(attr[Item.inode].gid, "SG05", new)
             [] OTHER             -> UNCHANGED nsVars
        /\ Settled(Open, new, failures)
  BY DEF Answer
<1>3. PICK ids, p, q, item, c, uid, gid :
        /\ ids = findings[n] /\ p = Passed(n) /\ q = Passed(n)'
        /\ item = items[n] /\ c = Open
        /\ uid = attr[item.inode].uid /\ gid = attr[item.inode].gid
  OBVIOUS
<1>4. /\ InOrder(ids, p, item)
      /\ Judged(ids, p, "getpwuid", "SU11", uid)
      /\ Judged(ids, p, "getgrgid", "SG05", gid)
      /\ ids \in Seq(Registered) /\ uid \in Account /\ gid \in Account
  BY <1>1, <1>3, AccountsOfItems DEF FindingsInv, InBooks
<1>5. /\ c \notin p /\ c \in q /\ p \subseteq q
      /\ \A e \in q : e \in p \/ e = c \/ ~Needed(e, item)
  BY <1>1, <1>3, Proceeds DEF Item
<1>6. p \subseteq CallNames
  BY <1>3 DEF Passed, Earlier, CallNames
<1>7. InOrder(ids \o new, q, item)
  BY <1>2, <1>3, <1>4, <1>5, <1>6, OrderGrows, <1>1 DEF Item
<1>8. new \in Seq(Registered) /\ \A j \in DOMAIN new : new[j] \in MayRaise(c, item)
  BY <1>1, <1>2, <1>3 DEF Brings, Item
<1>9. NsStep
  BY <1>2 DEF Sought, NsStep
<1>10. Needed("getpwuid", item) /\ Needed("getgrgid", item)
  BY DEF Needed
<1>11. Judged(ids \o new, q, "getpwuid", "SU11", uid)'
  <2>1. CASE c = "getpwuid"
    <3>1. Sought(uid, "SU11", new)
      BY <1>1, <1>2, <1>3, <2>1 DEF Item
    <3> QED  BY <1>1, <1>4, <1>8, <1>9, <3>1, JudgedGrows
  <2>2. CASE c # "getpwuid"
    <3>1. "getpwuid" \in CallNames /\ MayRaise("getpwuid", item) = {"SU11"} /\ c \in CallNames
      BY <1>3 DEF CallNames, Calls, MayRaise
    <3>2. \A j \in DOMAIN new : new[j] # "SU11"
      BY <1>8, <2>2, <3>1, OwnIds
    <3>3. "getpwuid" \in q => "getpwuid" \in p
      BY <1>5, <1>10, <2>2
    <3> QED  BY <1>1, <1>4, <1>8, <1>9, <3>2, <3>3, JudgedGrows
  <2> QED  BY <2>1, <2>2
<1>12. Judged(ids \o new, q, "getgrgid", "SG05", gid)'
  <2>1. CASE c = "getgrgid"
    <3>1. Sought(gid, "SG05", new)
      BY <1>1, <1>2, <1>3, <2>1 DEF Item
    <3> QED  BY <1>1, <1>4, <1>8, <1>9, <3>1, JudgedGrows
  <2>2. CASE c # "getgrgid"
    <3>1. "getgrgid" \in CallNames /\ MayRaise("getgrgid", item) = {"SG05"} /\ c \in CallNames
      BY <1>3 DEF CallNames, Calls, MayRaise
    <3>2. \A j \in DOMAIN new : new[j] # "SG05"
      BY <1>8, <2>2, <3>1, OwnIds
    <3>3. "getgrgid" \in q => "getgrgid" \in p
      BY <1>5, <1>10, <2>2
    <3> QED  BY <1>1, <1>4, <1>8, <1>9, <3>2, <3>3, JudgedGrows
  <2> QED  BY <2>1, <2>2
<1>13. findings'[n] = ids \o new
  BY <1>1, <1>2, <1>3 DEF Settled
<1>14. PICK t : t = ids \o new
  OBVIOUS
<1>15. t \in Seq(Registered) /\ InOrder(t, q, item)
  BY <1>4, <1>7, <1>8, <1>14
<1>16. InOrder(t, q, item)'
  BY <1>1, <1>15
     DEF InOrder, MayRaise, RecordIds, SetuidIds, SetgidIds, Twice, Has, Executable
<1>17. /\ Judged(t, q, "getpwuid", "SU11", uid)'
       /\ Judged(t, q, "getgrgid", "SG05", gid)'
  BY <1>11, <1>12, <1>14 DEF Judged
<1>18. InBooks(t, q, item)'
  BY <1>1, <1>3, <1>15, <1>16, <1>17 DEF InBooks, Judged
<1> QED
  BY <1>1, <1>3, <1>13, <1>14, <1>18

LEMMA FindingsInvInit == AnalysisInit => FindingsInv
BY DEF AnalysisInit, FindingsInv

LEMMA FindingsInvStep ==
  AnalysisInv /\ FindingsInv /\ (AnalysisStep \/ Awaken \/ Elsewhere) => FindingsInv'
<1> SUFFICES ASSUME AnalysisInv, FindingsInv, AnalysisStep \/ Awaken \/ Elsewhere,
                    NEW k, NEW ids, NEW passed, NEW item,
                    k \in DOMAIN findings', ids = findings'[k],
                    passed = Passed(k)', item = items'[k]
             PROVE  InBooks(ids, passed, item)'
  BY DEF FindingsInv
<1>1. /\ NsInv /\ NsStep /\ UNCHANGED attr
  BY AnalysisNsStep, AnalysisKeepsScan DEF AnalysisInv, Elsewhere, analysisVars
<1>2. ASSUME k \in DOMAIN findings, UNCHANGED items,
             findings'[k] = findings[k], Passed(k)' = Passed(k)
      PROVE  InBooks(ids, passed, item)'
  BY <1>1, <1>2, BooksStay DEF FindingsInv
<1>3. ASSUME UNCHANGED <<call, at, findings>> PROVE Passed(k)' = Passed(k)
  BY <1>3 DEF Passed, Finished, Open, Earlier, Calls, CallNames
<1>4. CASE Elsewhere
  <2>1. UNCHANGED <<call, at, findings>>
    BY <1>4 DEF Elsewhere, analysisVars
  <2>2. call # "idle"
    BY <2>1 DEF AnalysisInv, AnalysisTypeOK
  <2>3. UNCHANGED items
    BY <1>4, <2>2, ScanFrozen DEF AnalysisInv, Elsewhere, Terminal
  <2> QED  BY <1>2, <1>3, <2>1, <2>3
<1>5. ASSUME AnalysisStep \/ Awaken PROVE UNCHANGED items
  BY <1>5, AnalysisKeepsScan DEF vars
<1>6. CASE (AnalysisStep \/ Awaken) /\ UNCHANGED analysisVars
  BY <1>2, <1>3, <1>5, <1>6 DEF analysisVars
<1>7. CASE ReadBlocks
  <2>1. UNCHANGED <<at, findings>> /\ Open' = Open /\ call # "analyzed" /\ call' # "analyzed"
    BY <1>7 DEF ReadBlocks, Open
  <2>2. Passed(k)' = Passed(k)
    BY <2>1 DEF Passed, Finished, Earlier, Calls, CallNames
  <2>3. UNCHANGED items
    BY <1>7 DEF ReadBlocks, vars
  <2> QED  BY <1>2, <2>1, <2>2, <2>3
<1>8. CASE StartAnalysis
  <2>1. k \in DOMAIN items /\ ids = <<>> /\ DOMAIN items = 1..Len(items) /\ Len(items) \in Nat
    BY <1>8 DEF StartAnalysis, AnalysisInv, Books, Shape, TypeOK
  <2>2. call' = "record" /\ at' = 1
    BY <1>8, <2>1 DEF StartAnalysis
  <2>3. passed = {}
    <3>1. ~(k < 1) /\ "record" # "analyzed" /\ "record" # "asleep"
      BY <2>1
    <3>2. Passed(k)' = IF k = 1 THEN Earlier("record") ELSE {}
      BY <2>2, <3>1 DEF Passed, Finished, Open, Earlier, Calls
    <3> QED  BY <3>2, CallsInOrder
  <2>4. DOMAIN ids = {} /\ ids \in Seq(Registered)
    BY <2>1
  <2> QED  BY <2>3, <2>4 DEF InBooks, InOrder, Judged
<1>9. CASE (AnalysisStep \/ Awaken) /\ Open \in CallNames /\ Answer
  <2>1. /\ k \in DOMAIN findings /\ k \in 1..Len(items) /\ Len(items) \in Nat
        /\ at \in 1..Len(items) /\ call # "analyzed" /\ Proceed(Open)
        /\ findings \in Seq(Seq(Registered)) /\ UNCHANGED items
    BY <1>5, <1>9, SettledTypes DEF AnalysisInv, AnalysisTypeOK
  <2>2. CASE k = at
    BY <1>9, <2>2, AnswerInBooks
  <2>3. CASE k # at
    <3>1. Passed(k)' = Passed(k)
      BY <1>9, <2>1, <2>3, Proceeds
    <3>2. findings'[k] = findings[k]
      BY <1>9, <2>1, <2>3 DEF Answer, Settled
    <3> QED  BY <1>2, <2>1, <3>1, <3>2
  <2> QED  BY <2>2, <2>3
<1> QED
  BY <1>4, <1>6, <1>7, <1>8, <1>9, AnswerStep DEF AnalysisInv, AnalysisTypeOK

(* One id, one cause: however the tree changes between the questions, an   *)
(* id is in an item's findings once, but for the one that two sets of      *)
(* rules share.                                                            *)
THEOREM NoFindingTwice == AnalysisSpec => []RepeatedFindings
<1>1. FindingsInv => RepeatedFindings
  BY DEF FindingsInv, InBooks, InOrder, RepeatedFindings, Twice
<1>2. AnalysisInv /\ FindingsInv /\ [AnalysisNext]_kls => (AnalysisInv /\ FindingsInv)'
  BY AnalysisSteps, AnalysisInvStep, FindingsInvStep
<1>3. AnalysisInit => AnalysisInv /\ FindingsInv
  BY AnalysisInvInit, FindingsInvInit
<1> QED
  BY <1>1, <1>2, <1>3, PTL DEF AnalysisSpec

(* Whoever adds and removes accounts, however long their records are, and  *)
(* whichever lookups fail: an orphan is reported only with a cause, and    *)
(* always if its account never was there.                                  *)
THEOREM OrphansJudged == AnalysisSpec => []OrphanVerdicts
<1>1. AnalysisInv /\ FindingsInv => OrphanVerdicts
  <2> SUFFICES ASSUME AnalysisInv, FindingsInv, NEW k \in DOMAIN findings
               PROVE  LET i == items[k].inode
                          Verdict(id, account) ==
                            /\ id \in Ids(k) => account \in lost \cup failed
                            /\ Finished(k) /\ account_changes = 0 /\ account \notin known =>
                                 id \in Ids(k)
                      IN Verdict("SU11", attr[i].uid) /\ Verdict("SG05", attr[i].gid)
    BY DEF OrphanVerdicts
  <2>1. PICK ids, passed, uid, gid :
          /\ ids = findings[k] /\ passed = Passed(k)
          /\ uid = attr[items[k].inode].uid /\ gid = attr[items[k].inode].gid
    OBVIOUS
  <2>2. /\ Judged(ids, passed, "getpwuid", "SU11", uid)
        /\ Judged(ids, passed, "getgrgid", "SG05", gid)
    BY <2>1 DEF FindingsInv, InBooks
  <2>3. \A id : id \in Ids(k) <=> \E j \in DOMAIN ids : ids[j] = id
    BY <2>1 DEF Ids
  <2>4. Finished(k) => "getpwuid" \in passed /\ "getgrgid" \in passed
    BY <2>1 DEF Passed, CallNames, Calls
  <2> QED  BY <2>1, <2>2, <2>3, <2>4 DEF Judged
<1>2. AnalysisInv /\ FindingsInv /\ [AnalysisNext]_kls => (AnalysisInv /\ FindingsInv)'
  BY AnalysisSteps, AnalysisInvStep, FindingsInvStep
<1>3. AnalysisInit => AnalysisInv /\ FindingsInv
  BY AnalysisInvInit, FindingsInvInit
<1> QED
  BY <1>1, <1>2, <1>3, PTL DEF AnalysisSpec

---------------------------------------------------------------------------

(* What is looked up is an object, or nothing. *)
LEMMA LookedUpTyped ==
  ASSUME NEW tree \in Entries, NEW d \in DirInode, NEW n \in Component
  PROVE  /\ LookedUp(tree, d, n) \in Inode \cup {NoInode}
         /\ n \in Name => LookedUp(tree, d, n) = tree[d][n]
<1>1. Up(tree, d) \in Inode
  <2> DEFINE Holders == {e \in DirInode : \E m \in Name : tree[e][m] = d}
  <2>1. Holders # {} => (CHOOSE e \in Holders : TRUE) \in Holders
    OBVIOUS
  <2> QED  BY <2>1, FileSystemAssumption DEF Up, DirInode
<1>2. d \in Inode /\ n \in Name => tree[d][n] \in Inode \cup {NoInode}
  BY DEF Entries, DirInode
<1>3. n \in Name => n # "." /\ n # ".."
  BY PathsAssumption
<1> QED
  BY <1>1, <1>2, <1>3 DEF LookedUp, Component, DirInode

(* What the kernel does with one name more. *)
LEMMA FurtherSteps ==
  ASSUME NEW tree \in Entries, NEW s \in Way
  PROVE  /\ Further(tree)[s] \in Way
         /\ s.todo = <<>> \/ s.here \notin DirInode =>
              \A other \in Entries : Further(other)[s] = Further(tree)[s]
         /\ s.todo = <<>> => Further(tree)[s] = s
         /\ s.todo # <<>> /\ s.here \in DirInode =>
              /\ Head(s.todo) \in Component
              /\ \A other \in Entries :
                   LookedUp(other, s.here, Head(s.todo)) = LookedUp(tree, s.here, Head(s.todo))
                     => Further(other)[s] = Further(tree)[s]
              /\ LET i == LookedUp(tree, s.here, Head(s.todo))
                 IN ~(i \in Inode /\ Kind[i] = "symlink") =>
                      Further(tree)[s] = [here |-> i, todo |-> Tail(s.todo), links |-> s.links]
<1> DEFINE Next1(t) ==
      LET i == LookedUp(t, s.here, Head(s.todo))
      IN IF s.todo = <<>> \/ s.here \notin Inode THEN s
         ELSE IF s.here \notin DirInode THEN [s EXCEPT !.here = "ENOTDIR"]
         ELSE IF ~(i \in Inode /\ Kind[i] = "symlink")
              THEN [here |-> i, todo |-> Tail(s.todo), links |-> s.links]
         ELSE IF s.links = LinkLimit THEN [s EXCEPT !.here = "ELOOP"]
         ELSE Followed(Text[i], s.here, Tail(s.todo), s.links + 1)
<1>1. \A t : Further(t)[s] = Next1(t)
  BY DEF Further
<1>2. /\ s.here \in Inode \cup {NoInode, "ENOTDIR", "ELOOP"}
      /\ s.todo \in Seq(Component) /\ s.links \in Nat
      /\ s = [here |-> s.here, todo |-> s.todo, links |-> s.links]
  BY DEF Way
<1>3. s.todo # <<>> => Head(s.todo) \in Component /\ Tail(s.todo) \in Seq(Component)
  BY <1>2
<1>4. ASSUME NEW i \in Inode, NEW d \in Inode, NEW rest \in Seq(Component), NEW links \in Nat
      PROVE  Followed(Text[i], d, rest, links) \in Way
  <2>1. Text[i].names \in Seq(Component) /\ RootRoute \in Seq(Name) /\ Name \subseteq Component
    BY PathsAssumption DEF LinkText, Component
  <2>2. SubSeq(Text[i].names, Len(RootRoute) + 1, Len(Text[i].names)) \in Seq(Component)
    BY <2>1
  <2>3. Root \in Inode /\ Slash \in Inode
    BY FileSystemAssumption DEF DirInode
  <2>4. \A t \in Seq(Component) : t \o rest \in Seq(Component)
    OBVIOUS
  <2> QED  BY <1>4, <2>1, <2>2, <2>3, <2>4 DEF Followed, Way
<1>5. \A x \in Inode \cup {NoInode, "ENOTDIR", "ELOOP"}, t \in Seq(Component) :
        /\ [s EXCEPT !.here = x] \in Way
        /\ [here |-> x, todo |-> t, links |-> s.links] \in Way
  <2> SUFFICES ASSUME NEW x \in Inode \cup {NoInode, "ENOTDIR", "ELOOP"},
                      NEW t \in Seq(Component)
               PROVE  /\ [s EXCEPT !.here = x] \in Way
                      /\ [here |-> x, todo |-> t, links |-> s.links] \in Way
    OBVIOUS
  <2>1. [s EXCEPT !.here = x] = [here |-> x, todo |-> s.todo, links |-> s.links]
    BY <1>2
  <2> QED  BY <1>2, <2>1 DEF Way
<1>6. ASSUME s.todo # <<>>, s.here \in DirInode
      PROVE  LookedUp(tree, s.here, Head(s.todo)) \in Inode \cup {NoInode}
  BY <1>3, <1>6, LookedUpTyped
<1>7. s.here \in DirInode => s.here \in Inode
  BY DEF DirInode
<1>8. Next1(tree) \in Way
  <2>1. CASE s.todo = <<>> \/ s.here \notin Inode
    BY <2>1
  <2>2. CASE s.todo # <<>> /\ s.here \in Inode /\ s.here \notin DirInode
    <3>1. [s EXCEPT !.here = "ENOTDIR"] \in Way
      BY <1>2, <1>5
    <3> QED  BY <2>2, <3>1
  <2>3. CASE s.todo # <<>> /\ s.here \in DirInode
    <3>1. PICK i : i = LookedUp(tree, s.here, Head(s.todo))
      OBVIOUS
    <3>2. i \in Inode \cup {NoInode}
      BY <1>6, <2>3, <3>1
    <3>3. [here |-> i, todo |-> Tail(s.todo), links |-> s.links] \in Way /\ [s EXCEPT !.here = "ELOOP"] \in Way
      BY <1>3, <1>5, <2>3, <3>2
    <3>4. i \in Inode => Followed(Text[i], s.here, Tail(s.todo), s.links + 1) \in Way
      <4>1. s.links + 1 \in Nat /\ Tail(s.todo) \in Seq(Component) /\ s.here \in Inode
        BY <1>2, <1>3, <1>7, <2>3
      <4> QED  BY <1>4, <4>1
    <3> QED  BY <1>7, <2>3, <3>1, <3>3, <3>4
  <2> QED  BY <2>1, <2>2, <2>3
<1>9. s.todo = <<>> \/ s.here \notin DirInode => \A t : Next1(t) = Next1(tree)
  OBVIOUS
<1>10. s.todo # <<>> /\ s.here \in DirInode =>
         LET i == LookedUp(tree, s.here, Head(s.todo))
         IN ~(i \in Inode /\ Kind[i] = "symlink") =>
              Next1(tree) = [here |-> i, todo |-> Tail(s.todo), links |-> s.links]
  BY <1>3, <1>5, <1>6, <1>7
<1>11. \A t : LookedUp(t, s.here, Head(s.todo)) = LookedUp(tree, s.here, Head(s.todo))
                => Next1(t) = Next1(tree)
  OBVIOUS
<1>12. s.todo = <<>> => Next1(tree) = s
  OBVIOUS
<1> HIDE DEF Next1
<1> QED
  BY <1>1, <1>3, <1>8, <1>9, <1>10, <1>11, <1>12

LEMMA ResolutionUnfolds ==
  ASSUME NEW tree, NEW d, NEW names,
         tree \in Entries, d \in Inode, names \in Seq(Component)
  PROVE  /\ \A k \in Nat : Resolution(tree, d, names)[k] \in Way
         /\ Resolution(tree, d, names)[0] = Setout(d, names)
         /\ \A k \in Nat : Resolution(tree, d, names)[k+1] =
                             Further(tree)[Resolution(tree, d, names)[k]]
<1> DEFINE a     == Setout(d, names)
           F     == Further(tree)
           Is(f) == f = [k \in Nat |-> IF k = 0 THEN a ELSE F[f[k-1]]]
           g     == CHOOSE f : Is(f)
<1>1. Resolution(tree, d, names) = g
  BY DEF Resolution
<1>2. a \in Way
  BY DEF Setout, Way
<1>3. F \in [Way -> Way]
  <2>1. \A s \in Way : F[s] \in Way
    BY FurtherSteps
  <2>2. F = [s \in Way |-> F[s]]
    BY DEF Further
  <2> HIDE DEF F
  <2> QED  BY <2>1, <2>2
<1> HIDE DEF a, F
<1>5. PICK f \in [Nat -> Way] : \A k \in Nat : f[k] = IF k = 0 THEN a ELSE F[f[k-1]]
  BY ONLY <1>2, <1>3, IterationOnNat
<1>6. Is(f)
  <2>1. f = [k \in Nat |-> f[k]]
    OBVIOUS
  <2> QED  BY <1>5, <2>1
<1> HIDE DEF Is
<1>7. Is(g)
  BY <1>6
<1> HIDE DEF g
<1>8. /\ g[0] = a
      /\ \A k \in Nat : g[k+1] = F[g[k]]
  <2>1. g = [k \in Nat |-> IF k = 0 THEN a ELSE F[g[k-1]]]
    BY <1>7 DEF Is
  <2>2. \A k \in Nat : k + 1 \in Nat /\ k + 1 # 0 /\ (k + 1) - 1 = k
    OBVIOUS
  <2> QED  BY ONLY <2>1, <2>2
<1> DEFINE Typed == {k \in Nat : g[k] \in Way}
<1>9. Nat \subseteq Typed
  <2>1. 0 \in Typed
    BY <1>2, <1>8
  <2>2. ASSUME NEW k \in Nat, k \in Typed PROVE k + 1 \in Typed
    <3>1. g[k+1] = F[g[k]]
      BY <1>8
    <3> QED  BY <1>3, <2>2, <3>1
  <2> HIDE DEF Typed
  <2> QED  BY <2>1, <2>2, SetInduction
<1> QED
  BY <1>1, <1>8, <1>9 DEF a, F

(* A path without links leads where its names do. *)
LEMMA DirectWay ==
  ASSUME NEW tree, NEW hist, NEW names,
         tree \in Entries, names \in Seq(Name), Steady(tree, hist, names),
         Resolved(tree, names)[Len(names)] \in Inode,
         Kind[Resolved(tree, names)[Len(names)]] # "symlink"
  PROVE  LeadsTo(tree, Root, names) = Resolved(tree, names)[Len(names)]
<1> DEFINE m == Len(names)
           a == Resolved(tree, names)
           w == Resolution(tree, Root, names)
<1>1. /\ m \in Nat /\ Len(names) = m /\ DOMAIN names = 1..m /\ Root \in Inode
      /\ \A k \in 1..m : names[k] \in Name
      /\ names \in Seq(Component) /\ Name \subseteq Component
  BY FileSystemAssumption DEF Component, DirInode
<1>2. /\ \A k \in Nat : w[k] \in Way
      /\ w[0] = Setout(Root, names)
      /\ \A k \in Nat : w[k+1] = Further(tree)[w[k]]
  <2>1. tree \in Entries /\ Root \in Inode /\ names \in Seq(Component)
    BY <1>1
  <2> QED  BY ONLY <2>1, ResolutionUnfolds
<1>3. a[0] = Root /\ \A k \in Nat : a[k+1] = Advance(tree, a[k], names[k+1])
  BY ResolvedUnfolds
<1>4. /\ \A k \in 1..m : a[k-1] \in DirInode
      /\ a[m] \in Inode /\ Kind[a[m]] # "symlink"
  BY DEF Steady
<1>5. Lookups(names) \in Nat /\ m <= Lookups(names)
  <2>1. LinkLimit \in Nat /\ TextLimit \in Nat
    BY PathsAssumption
  <2>2. LinkLimit * TextLimit \in Nat
    BY <2>1
  <2> QED  BY <1>1, <2>2 DEF Lookups
<1> HIDE DEF m, a, w
<1>6. \A k \in 0..m : a[k] \in Inode /\ Kind[a[k]] # "symlink"
  <2> SUFFICES ASSUME NEW k \in 0..m, k # m PROVE a[k] \in Inode /\ Kind[a[k]] # "symlink"
    BY <1>4
  <2>1. k + 1 \in 1..m /\ (k + 1) - 1 = k
    BY <1>1
  <2>2. a[k] \in DirInode
    BY <1>4, <2>1
  <2> QED  BY <2>2 DEF DirInode
(* w goes down the names, and rests at the last. *)
<1> DEFINE Goes(k) == /\ w[k].here = a[k]
                      /\ w[k].todo \in Seq(Component) /\ Len(w[k].todo) = m - k
                      /\ \A j \in 1..(m - k) : w[k].todo[j] = names[k+j]
           Down == {k \in Nat : k <= m => Goes(k)}
<1>7. 0 \in Down
  <2>1. w[0].here = a[0] /\ w[0].todo = names
    BY <1>2, <1>3 DEF Setout
  <2> QED  BY <1>1, <2>1
<1>8. ASSUME NEW k \in Nat, k \in Down PROVE k + 1 \in Down
  <2> SUFFICES ASSUME k + 1 <= m PROVE Goes(k + 1)
    OBVIOUS
  <2>1. Goes(k) /\ k + 1 \in 1..m /\ (k + 1) - 1 = k /\ m - k >= 1 /\ k + 1 \in 0..m
    <3>1. k <= m /\ k + 1 \in 1..m /\ (k + 1) - 1 = k /\ m - k >= 1 /\ k + 1 \in 0..m
      BY <1>1
    <3> HIDE DEF Goes
    <3> QED  BY <1>8, <3>1
  <2>2. PICK s : s = w[k]
    OBVIOUS
  <2>3. /\ s \in Way /\ s.here = a[k] /\ a[k] \in DirInode
        /\ s.todo \in Seq(Component) /\ Len(s.todo) = m - k
        /\ \A j \in 1..(m - k) : s.todo[j] = names[k+j]
    BY <1>2, <1>4, <2>1, <2>2
  <2>4. s.todo # <<>> /\ Head(s.todo) = names[k+1] /\ names[k+1] \in Name
    BY <1>1, <2>1, <2>3
  <2>5. LookedUp(tree, s.here, Head(s.todo)) = a[k+1]
    <3>1. LookedUp(tree, a[k], names[k+1]) = tree[a[k]][names[k+1]]
      BY <1>1, <2>3, <2>4, LookedUpTyped
    <3>2. a[k+1] = tree[a[k]][names[k+1]]
      BY <1>3, <2>3 DEF Advance
    <3> QED  BY <2>3, <2>4, <3>1, <3>2
  <2>6. a[k+1] \in Inode /\ Kind[a[k+1]] # "symlink"
    BY <1>6, <2>1
  <2>7. Further(tree)[s] = [here |-> a[k+1], todo |-> Tail(s.todo), links |-> s.links]
    <3>1. PICK i : i = LookedUp(tree, s.here, Head(s.todo))
      OBVIOUS
    <3>2. i = a[k+1] /\ ~(i \in Inode /\ Kind[i] = "symlink")
      BY <2>5, <2>6, <3>1
    <3>3. Further(tree)[s] = [here |-> i, todo |-> Tail(s.todo), links |-> s.links]
      <4>1. tree \in Entries /\ s \in Way /\ s.todo # <<>> /\ s.here \in DirInode
        BY <2>3, <2>4
      <4> QED  BY ONLY <3>1, <3>2, <4>1, FurtherSteps
    <3> QED  BY <3>2, <3>3
  <2>8. w[k+1] = [here |-> a[k+1], todo |-> Tail(s.todo), links |-> s.links]
    BY <1>2, <2>2, <2>7
  <2>9. /\ Tail(s.todo) \in Seq(Component) /\ Len(Tail(s.todo)) = m - (k + 1)
        /\ \A j \in 1..(m - (k + 1)) : Tail(s.todo)[j] = names[(k + 1) + j]
    BY <1>1, <2>1, <2>3, <2>4
  <2> QED  BY <2>8, <2>9
<1>9. Nat \subseteq Down
  <2> HIDE DEF Down
  <2> QED  BY <1>7, <1>8, SetInduction
<1>10. w[m].here = a[m] /\ w[m].todo = <<>>
  <2>1. Goes(m)
    BY <1>1, <1>9
  <2> QED  BY <1>1, <2>1
<1> HIDE DEF Down, Goes
<1> DEFINE Rests == {k \in Nat : w[m + k] = w[m]}
<1>11. 0 \in Rests
  BY <1>1
<1>12. ASSUME NEW k \in Nat, k \in Rests PROVE k + 1 \in Rests
  <2>1. m + k \in Nat /\ m + (k + 1) = (m + k) + 1 /\ w[m + k] = w[m]
    BY <1>1, <1>12
  <2>2. Further(tree)[w[m]] = w[m]
    BY <1>1, <1>2, <1>10, FurtherSteps
  <2>3. w[(m + k) + 1] = Further(tree)[w[m + k]]
    BY <1>2, <2>1
  <2> QED  BY <2>1, <2>2, <2>3
<1>13. Nat \subseteq Rests
  <2> HIDE DEF Rests
  <2> QED  BY <1>11, <1>12, SetInduction
<1>14. w[Lookups(names)] = w[m]
  <2>1. Lookups(names) - m \in Nat /\ m + (Lookups(names) - m) = Lookups(names)
    BY <1>1, <1>5
  <2> QED  BY <1>13, <2>1
<1> QED
  BY <1>10, <1>14 DEF LeadsTo, m, a, w

(* A name that means the same in the whole of a history means it at each   *)
(* of its ends, ".." because a directory has one name at most.             *)
LEMMA UnmovedBefore ==
  ASSUME NEW tree, NEW hist, NEW newTree, NEW newHist,
         Holding(tree, hist), Holding(newTree, newHist),
         \A d \in Inode, n \in Name : hist[d][n] \subseteq newHist[d][n],
         OneName(tree), OneName(newTree),
         NEW d \in DirInode, NEW n \in Component, Unmoved(newTree, newHist, d, n)
  PROVE  /\ Unmoved(tree, hist, d, n)
         /\ LookedUp(tree, d, n) = LookedUp(newTree, d, n)
<1>1. /\ DirInode \subseteq Inode
      /\ \A e \in DirInode, x \in Name :
           /\ tree[e][x] \in hist[e][x] /\ hist[e][x] \subseteq newHist[e][x]
           /\ newTree[e][x] \in newHist[e][x]
  BY DEF Holding, DirInode
<1>2. CASE n = "."
  BY <1>2 DEF Unmoved, LookedUp
<1>3. CASE n = ".."
  <2>1. /\ Unmoved(tree, hist, d, n) <=>
             \/ \E e \in DirInode, x \in Name : hist[e][x] = {d}
             \/ \A e \in DirInode, x \in Name : d \notin hist[e][x]
        /\ LookedUp(tree, d, n) = Up(tree, d) /\ LookedUp(newTree, d, n) = Up(newTree, d)
        /\ \/ \E e \in DirInode, x \in Name : newHist[e][x] = {d}
           \/ \A e \in DirInode, x \in Name : d \notin newHist[e][x]
    BY <1>3 DEF Unmoved, LookedUp
  <2> DEFINE Holders(t) == {e \in DirInode : \E x \in Name : t[e][x] = d}
  <2>2. \A t : Up(t, d) = IF Holders(t) = {} THEN Slash ELSE CHOOSE e \in Holders(t) : TRUE
    BY DEF Up
  <2>3. CASE \E e \in DirInode, x \in Name : newHist[e][x] = {d}
    <3>1. PICK e \in DirInode, x \in Name : newHist[e][x] = {d}
      BY <2>3
    <3>2. tree[e][x] = d /\ newTree[e][x] = d /\ hist[e][x] = {d}
      <4>1. PICK X : X = hist[e][x] /\ tree[e][x] \in X /\ X \subseteq {d}
        BY <1>1, <3>1
      <4> QED  BY <1>1, <3>1, <4>1
    <3>3. Holders(tree) = {e}
      BY <3>2 DEF OneName
    <3>4. Holders(newTree) = {e}
      BY <3>2 DEF OneName
    <3> HIDE DEF Holders
    <3> QED  BY <2>1, <2>2, <3>2, <3>3, <3>4
  <2>4. CASE \A e \in DirInode, x \in Name : d \notin newHist[e][x]
    <3>1. Holders(tree) = {} /\ Holders(newTree) = {}
      BY <1>1, <2>4
    <3>2. \A e \in DirInode, x \in Name : d \notin hist[e][x]
      BY <1>1, <2>4
    <3> HIDE DEF Holders
    <3> QED  BY <2>1, <2>2, <3>1, <3>2
  <2> QED  BY <2>1, <2>3, <2>4
<1>4. CASE n # "." /\ n # ".."
  <2>1. /\ n \in Name /\ newHist[d][n] = {newTree[d][n]}
        /\ LookedUp(tree, d, n) = tree[d][n] /\ LookedUp(newTree, d, n) = newTree[d][n]
        /\ Unmoved(tree, hist, d, n) <=> hist[d][n] = {tree[d][n]}
    BY <1>4 DEF Component, Unmoved, LookedUp
  <2>2. PICK x, y, X : x = tree[d][n] /\ y = newTree[d][n] /\ X = hist[d][n]
    OBVIOUS
  <2>3. x \in X /\ X \subseteq {y}
    BY <1>1, <2>1, <2>2
  <2>4. x = y /\ X = {x}
    BY <2>3
  <2> QED  BY <2>1, <2>2, <2>4
<1> QED
  BY <1>2, <1>3, <1>4

(* A way that has stood still has, and has led to the same. *)
LEMMA WayBefore ==
  ASSUME NEW tree, NEW hist, NEW newTree, NEW newHist, NEW names,
         tree \in Entries, newTree \in Entries, names \in Seq(Component),
         Holding(tree, hist), Holding(newTree, newHist),
         \A d \in Inode, n \in Name : hist[d][n] \subseteq newHist[d][n],
         OneName(tree), OneName(newTree),
         SteadyWay(newTree, newHist, Root, names)
  PROVE  /\ SteadyWay(tree, hist, Root, names)
         /\ LeadsTo(tree, Root, names) = LeadsTo(newTree, Root, names)
<1> DEFINE a == Resolution(tree, Root, names)
           b == Resolution(newTree, Root, names)
           m == Lookups(names)
<1>1. Root \in Inode
  BY FileSystemAssumption DEF DirInode
<1>2. /\ a[0] = b[0]
      /\ \A k \in Nat : a[k] \in Way /\ b[k] \in Way
      /\ \A k \in Nat : a[k+1] = Further(tree)[a[k]] /\ b[k+1] = Further(newTree)[b[k]]
  <2>1. tree \in Entries /\ names \in Seq(Component)
    OBVIOUS
  <2>2. newTree \in Entries /\ names \in Seq(Component)
    OBVIOUS
  <2>3. /\ \A k \in Nat : a[k] \in Way
        /\ a[0] = Setout(Root, names)
        /\ \A k \in Nat : a[k+1] = Further(tree)[a[k]]
    BY ONLY <1>1, <2>1, ResolutionUnfolds
  <2>4. /\ \A k \in Nat : b[k] \in Way
        /\ b[0] = Setout(Root, names)
        /\ \A k \in Nat : b[k+1] = Further(newTree)[b[k]]
    BY ONLY <1>1, <2>2, ResolutionUnfolds
  <2> QED  BY <2>3, <2>4
<1>3. m \in Nat
  <2>1. LinkLimit \in Nat /\ TextLimit \in Nat /\ Len(names) \in Nat
    BY PathsAssumption
  <2>2. LinkLimit * TextLimit \in Nat
    BY <2>1
  <2> QED  BY <2>1, <2>2 DEF Lookups
<1>4. \A k \in 0..(m - 1) :
        b[k].todo # <<>> /\ b[k].here \in DirInode =>
          Unmoved(newTree, newHist, b[k].here, Head(b[k].todo))
  BY DEF SteadyWay
<1> HIDE DEF a, b, m
<1>5. ASSUME NEW k \in 0..(m - 1), a[k] = b[k]
      PROVE  /\ a[k+1] = b[k+1]
             /\ a[k].todo # <<>> /\ a[k].here \in DirInode =>
                  Unmoved(tree, hist, a[k].here, Head(a[k].todo))
  <2>1. PICK s : s = a[k]
    OBVIOUS
  <2>2. k \in Nat /\ s = b[k] /\ s \in Way
    BY <1>2, <1>3, <1>5, <2>1
  <2>3. a[k+1] = Further(tree)[s] /\ b[k+1] = Further(newTree)[s]
    BY <1>2, <2>1, <2>2
  <2>4. CASE s.todo = <<>> \/ s.here \notin DirInode
    <3>1. Further(newTree)[s] = Further(tree)[s]
      BY <2>2, <2>4, FurtherSteps
    <3> QED  BY <2>1, <2>3, <2>4, <3>1
  <2>5. CASE s.todo # <<>> /\ s.here \in DirInode
    <3>1. Head(s.todo) \in Component
      BY <2>2, <2>5, FurtherSteps
    <3>2. Unmoved(newTree, newHist, s.here, Head(s.todo))
      BY <1>4, <2>2, <2>5
    <3>3. PICK d, n : d = s.here /\ n = Head(s.todo)
      OBVIOUS
    <3>4. Unmoved(tree, hist, d, n) /\ LookedUp(tree, d, n) = LookedUp(newTree, d, n)
      BY <2>5, <3>1, <3>2, <3>3, UnmovedBefore
    <3>5. Further(newTree)[s] = Further(tree)[s]
      BY <2>2, <2>5, <3>3, <3>4, FurtherSteps
    <3> QED  BY <2>1, <2>3, <3>3, <3>4, <3>5
  <2> QED  BY <2>4, <2>5
<1> DEFINE Same == {k \in Nat : k <= m => a[k] = b[k]}
<1>6. 0 \in Same
  BY <1>2
<1>7. ASSUME NEW k \in Nat, k \in Same PROVE k + 1 \in Same
  <2> SUFFICES ASSUME k + 1 <= m PROVE a[k+1] = b[k+1]
    OBVIOUS
  <2>1. k \in 0..(m - 1) /\ a[k] = b[k]
    BY <1>3, <1>7
  <2> QED  BY <1>5, <2>1
<1>8. Nat \subseteq Same
  <2> HIDE DEF Same
  <2> QED  BY <1>6, <1>7, SetInduction
<1>9. \A k \in 0..(m - 1) : a[k] = b[k]
  BY <1>3, <1>8
<1>10. a[m] = b[m]
  BY <1>3, <1>8
<1>11. \A k \in 0..(m - 1) :
         a[k].todo # <<>> /\ a[k].here \in DirInode =>
           Unmoved(tree, hist, a[k].here, Head(a[k].todo))
  BY <1>5, <1>9
<1> QED
  BY <1>10, <1>11 DEF SteadyWay, LeadsTo, a, b, m

---------------------------------------------------------------------------

(* What the items' paths have led to, also once the scan is over. *)
AtItems ==
  /\ TypeOK /\ Remembered /\ OneName(dirent) /\ ItemsReached
  /\ pc # "collected" => TracedInv

LEMMA AtItemsInit == Init => AtItems
<1> SUFFICES ASSUME Init PROVE OneName(dirent)
  BY TracedInit DEF AtItems, TracedInv, SourceInv, DescriptorInv, Shape
<1> QED
  BY TreesAssumption DEF Init, FsInit

LEMMA OneNameOn ==
  ASSUME TypeOK, OneName(dirent), [Next]_vars \/ After
  PROVE  OneName(dirent)'
<1>1. CASE FsChange
  <2>1. OneName(dirent')
    BY <1>1, OneNameStep DEF TypeOK
  <2> QED  BY <2>1 DEF OneName
<1>2. CASE UNCHANGED fsVars
  BY <1>2 DEF fsVars, OneName
<1>3. CASE DirectoryStep
  BY <1>2, <1>3 DEF DirectoryStep, DupFails, DupDirectory, PopDirectory,
     FdopendirFails, Fdopendir, Readdir, ReaddirEnds, ReaddirFails
<1>4. CASE EntryStep
  BY <1>2, <1>4 DEF EntryStep, StatxFails, StatxIncomplete, StatxUnknownType,
     StatxExcluded, StatxGoesOn, StatxSuffices, OpenatFails,
     OpenatDirectory, ReadlinkFails, Readlink, RejectEntry
<1> QED
  BY <1>1, <1>2, <1>3, <1>4 DEF Next, Done, World, After, vars, ScannerStep,
     OpenRootFails, OpenRoot, FinishDiscovery, CollectMetadata

LEMMA Onwards ==
  ASSUME TypeOK, Remembered, [Next]_vars \/ After
  PROVE  Onward
<1>1. CASE [Next]_vars
  BY <1>1, PastStep DEF Onward
<1>2. CASE After
  BY <1>2, PastGrows DEF After, Onward, TypeOK
<1> QED
  BY <1>1, <1>2

LEMMA ItemsReachedOn ==
  ASSUME Onward, ItemsReached, UNCHANGED items PROVE ItemsReached'
<1> SUFFICES ASSUME NEW c, \E k \in DOMAIN items : c = items[k],
                    NEW path, NEW i, NEW t,
                    path = c.full_path, i = c.inode, t = c.symlink_target
             PROVE  Recorded(path, i, t)'
  BY DEF ItemsReached
<1>1. Recorded(path, i, t)
  BY DEF ItemsReached
<1>2. /\ Reaches(path, i) => Reaches(path, i)'
      /\ Reaches(path, t) => Reaches(path, t)'
  BY ReachesOn
<1> QED
  BY <1>1, <1>2 DEF Recorded

LEMMA AtItemsStep ==
  AtItems /\ ([Next]_vars \/ After) => AtItems'
<1> SUFFICES ASSUME AtItems, [Next]_vars \/ After PROVE AtItems'
  OBVIOUS
<1>1. CASE pc # "collected"
  <2>1. TracedInv'
    BY <1>1, TracedStep DEF AtItems, After
  <2>2. OneName(dirent)'
    BY OneNameOn DEF AtItems
  <2> QED  BY <2>1, <2>2 DEF AtItems, TracedInv, SourceInv, DescriptorInv, Shape
<1>2. CASE pc = "collected"
  <2>1. UNCHANGED <<pc, items>>
    BY <1>2, ScanFrozen DEF Terminal
  <2>2. Onward
    BY Onwards DEF AtItems
  <2>4. TypeOK'
    <3>1. CASE UNCHANGED vars
      BY <3>1 DEF vars, AtItems, TypeOK, FsTypeOK, fsVars, given, walk, output
    <3>2. CASE After
      <4>1. FsTypeOK'
        BY <3>2, FsStep DEF After, AtItems, TypeOK
      <4> QED  BY <3>2, <4>1 DEF After, AtItems, TypeOK, given, walk, output
    <3> QED  BY <1>2, <3>1, <3>2, AtRest DEF Terminal
  <2>3. ItemsReached'
    BY <2>1, <2>2, ItemsReachedOn DEF AtItems
  <2>5. OneName(dirent)'
    BY OneNameOn DEF AtItems
  <2> QED  BY <1>2, <2>1, <2>2, <2>3, <2>4, <2>5 DEF AtItems, Onward
<1> QED
  BY <1>1, <1>2

LEMMA ItemsTyped ==
  ASSUME TypeOK, NEW k \in DOMAIN items
  PROVE  items[k] \in AuditItem /\ items[k].full_path \in Seq(Name)
<1>1. items \in Seq(AuditItem)
  BY DEF TypeOK
<1>2. items[k] \in AuditItem
  BY <1>1
<1> QED
  BY <1>2 DEF AuditItem

(* An item whose path stood still is there, and its text is its own. *)
LEMMA StillItem ==
  ASSUME AtItems, NEW k \in DOMAIN items, Still(RelativePath(items[k]))
  PROVE  /\ items[k].inode \in Inode
         /\ Walked(RelativePath(items[k])) = items[k].inode
         /\ items[k].symlink_target \in {NoInode, items[k].inode}
<1>1. PICK c, path, i, t : /\ c = items[k] /\ path = c.full_path /\ i = c.inode
                           /\ t = c.symlink_target
  OBVIOUS
<1>2. Recorded(path, i, t)
  BY <1>1 DEF AtItems, ItemsReached
<1>3. RelativePath(items[k]) = UnderRoot(path)
  BY <1>1 DEF RelativePath, UnderRoot
<1>4. Walked(UnderRoot(path)) = i /\ (t = NoInode \/ t = i)
  BY <1>2, <1>3 DEF Recorded, Reaches
<1>5. items[k] \in AuditItem
  BY DEF AtItems, TypeOK
<1> QED
  BY <1>1, <1>3, <1>4, <1>5 DEF AuditItem

LEMMA StillLeads ==
  ASSUME AtItems, NEW k \in DOMAIN items, Still(RelativePath(items[k])),
         Kind[items[k].inode] # "symlink"
  PROVE  LeadsTo(dirent, Root, RelativePath(items[k])) = items[k].inode
<1>1. PICK names, i : names = RelativePath(items[k]) /\ i = items[k].inode
  OBVIOUS
<1>2. i \in Inode /\ Walked(names) = i /\ Kind[i] # "symlink"
  BY <1>1, StillItem
<1>3. dirent \in Entries /\ names \in Seq(Name)
  <2>1. items[k].full_path \in Seq(Name)
    BY ItemsTyped DEF AtItems
  <2> QED  BY <1>1, <2>1 DEF AtItems, TypeOK, FsTypeOK, RelativePath
<1>4. Steady(dirent, past, names)
  BY <1>1 DEF Still
<1>5. LeadsTo(dirent, Root, names) = i
  BY <1>2, <1>3, <1>4, DirectWay DEF Walked
<1> QED
  BY <1>1, <1>5

LEMMA StillWhere ==
  ASSUME AtItems, AnalysisInv, NEW n, n = at, n \in DOMAIN items,
         Still(RelativePath(items[n]))
  PROVE  /\ Item = items[n] /\ Item.inode \in Inode
         /\ Item.symlink_target \in {NoInode, Item.inode}
         /\ Kind[Item.inode] # "symlink" => Where = Item.inode
         /\ denied \subseteq DirInode
<1>1. Item = items[n]
  BY DEF Item
<1>2. /\ Item.inode \in Inode /\ Walked(RelativePath(Item)) = Item.inode
      /\ Item.symlink_target \in {NoInode, Item.inode}
  BY <1>1, StillItem
<1>3. denied \subseteq DirInode
  BY DEF AtItems, TypeOK, FsTypeOK
<1>4. ASSUME Kind[Item.inode] # "symlink"
      PROVE  LeadsTo(dirent, Root, RelativePath(Item)) = Item.inode
  BY <1>1, <1>4, StillLeads
<1> QED
  BY <1>1, <1>2, <1>3, <1>4 DEF Where

(* Only questions the record calls for are put, and none about an item     *)
(* left alone has to wait.                                                 *)
Asked ==
  \A item : item = Item =>
    /\ call \in CallNames \cup {"asleep"} => Needed(Open, item)
    /\ call = "asleep" => ~Still(RelativePath(item))

AskedInv == AnalysisInv /\ AtItems /\ Asked

LEMMA NextAsked ==
  ASSUME AnalysisInv, Open \in CallNames, Answer,
         NEW item, item = Item', NEW c, c = call', c \in CallNames
  PROVE  Needed(c, item)'
<1>1. /\ at \in 1..Len(items) /\ UNCHANGED <<items, attr>> /\ Proceed(Open)
  BY SettledTypes DEF vars
<1> DEFINE later == {k \in DOMAIN Calls :
                       /\ \E j \in 1..(k-1) : Calls[j] = Open
                       /\ Needed(Calls[k], Item)}
<1>2. \A k : k \in later <=> /\ k \in DOMAIN Calls /\ \E j \in 1..(k-1) : Calls[j] = Open
                            /\ Needed(Calls[k], Item)
  OBVIOUS
<1>3. \/ /\ later # {}
         /\ call' = Calls[CHOOSE k \in later : \A j \in later : k <= j] /\ at' = at
      \/ /\ later = {} /\ at < Len(items) /\ call' = "record" /\ at' = at + 1
      \/ /\ later = {} /\ ~(at < Len(items)) /\ call' = "analyzed" /\ at' = at
  BY <1>1 DEF Proceed
<1>4. Needed(c, item)' = Needed(c, item)
  BY <1>1 DEF Needed, Has
<1> HIDE DEF later
<1>5. CASE later # {}
  <2>1. later \in SUBSET Nat
    BY <1>2, CallsInOrder
  <2>2. PICK q \in later : \A j \in later : q <= j
    BY <1>5, <2>1, SmallestElement
  <2> DEFINE m == CHOOSE k \in later : \A j \in later : k <= j
  <2>3. m \in later /\ \A j \in later : m <= j
    BY <2>2
  <2>4. call' = Calls[m] /\ at' = at
    BY <1>3, <1>5
  <2> HIDE DEF m
  <2>5. item = Item
    BY <1>1, <2>4 DEF Item
  <2>6. Needed(Calls[m], item)
    BY <1>2, <2>3, <2>5
  <2> QED  BY <1>4, <2>4, <2>6
<1>6. CASE call' = "record"
  BY <1>4, <1>6 DEF Needed
<1>7. CASE call' = "analyzed"
  BY <1>7 DEF CallNames, Calls
<1> QED
  BY <1>3, <1>5, <1>6, <1>7

LEMMA AskedInvInit == AnalysisInit => AskedInv
<1> SUFFICES ASSUME AnalysisInit PROVE AskedInv
  OBVIOUS
<1>1. call = "idle" /\ Init
  BY DEF AnalysisInit
<1>2. Asked
  BY <1>1 DEF Asked, CallNames, Calls
<1> QED
  BY <1>1, <1>2, AnalysisInvInit, AtItemsInit DEF AskedInv

(* A step of the analysis leaves the scan where it is. *)
LEMMA AtItemsAnalysis ==
  ASSUME AtItems, AnalysisStep \/ Awaken \/ Elsewhere PROVE AtItems'
<1>1. CASE AnalysisStep \/ Awaken
  <2>1. UNCHANGED vars
    BY <1>1, AnalysisKeepsScan
  <2> QED  BY <2>1, AtItemsStep
<1>2. CASE Elsewhere
  BY <1>2, AtItemsStep DEF Elsewhere
<1> QED
  BY <1>1, <1>2

LEMMA StandingBefore ==
  ASSUME AtItems, Elsewhere, NEW item, item.full_path \in Seq(Name),
         Still(RelativePath(item))'
  PROVE  Still(RelativePath(item))
<1>1. PICK names : names = RelativePath(item)
  OBVIOUS
<1>2. names \in Seq(Name)
  BY <1>1 DEF RelativePath
<1>3. Onward
  BY Onwards DEF AtItems, Elsewhere
<1>4. Still(names)'
  BY <1>1 DEF RelativePath
<1> QED
  BY <1>1, <1>2, <1>3, <1>4, StillBefore

LEMMA AskedInvStep ==
  AskedInv /\ (AnalysisStep \/ Awaken \/ Elsewhere) => AskedInv'
<1> SUFFICES ASSUME AskedInv, AnalysisStep \/ Awaken \/ Elsewhere PROVE Asked'
  BY AnalysisKeepsInv, ElsewhereKeepsInv, AtItemsAnalysis DEF AskedInv
<1>a. AnalysisInv /\ AtItems /\ Asked /\ AnalysisInv' /\ TypeOK
  BY AnalysisKeepsInv, ElsewhereKeepsInv DEF AskedInv, AtItems
<1> SUFFICES ASSUME NEW item, item = Item'
             PROVE  /\ call' \in CallNames \cup {"asleep"} => Needed(Open, item)'
                    /\ call' = "asleep" => ~Still(RelativePath(item))'
  BY DEF Asked
<1>b. call \in CallNames \cup {"asleep"} => /\ at \in DOMAIN items /\ at \in 1..Len(items)
                                           /\ pc = "collected"
  <2>1. /\ items \in Seq(AuditItem)
        /\ call \in CallNames \cup {"asleep"} => at \in 0..Len(items) /\ at > 0 /\ pc = "collected"
    BY <1>a DEF AnalysisInv, AnalysisTypeOK, TypeOK
  <2> QED  BY <2>1
<1>c. UNCHANGED attr
  BY AnalysisKeepsScan DEF Elsewhere, analysisVars
<1>1. CASE Elsewhere
  <2>1. UNCHANGED <<call, at>>
    BY <1>1 DEF Elsewhere, analysisVars
  <2> SUFFICES ASSUME call \in CallNames \cup {"asleep"}
               PROVE  /\ Needed(Open, item)'
                      /\ call' = "asleep" => ~Still(RelativePath(item))'
    BY <2>1
  <2>2. UNCHANGED items
    BY <1>1, <1>b, ScanFrozen DEF Elsewhere, Terminal
  <2>3. item = Item /\ item = items[at]
    BY <2>1, <2>2 DEF Item
  <2>4. Needed(Open, item)'
    <3>1. Needed(Open, item)
      BY <1>a, <2>3 DEF Asked
    <3> QED  BY <1>c, <2>1, <3>1 DEF Needed, Has, Open
  <2>5. ASSUME call = "asleep" PROVE ~Still(RelativePath(item))'
    <3>1. ~Still(RelativePath(item))
      BY <1>a, <2>3, <2>5 DEF Asked
    <3>2. item.full_path \in Seq(Name)
      BY <1>a, <1>b, <2>3, ItemsTyped
    <3> QED  BY <1>1, <1>a, <3>1, <3>2, StandingBefore
  <2> QED  BY <2>1, <2>4, <2>5
<1>2. CASE (AnalysisStep \/ Awaken) /\ UNCHANGED <<call, at>>
  <2>1. UNCHANGED vars
    BY <1>2, AnalysisKeepsScan
  <2>2. UNCHANGED <<items, dirent, past>>
    BY <2>1 DEF vars, fsVars
  <2>3. item = Item
    BY <1>2, <2>2 DEF Item
  <2>4. /\ call \in CallNames \cup {"asleep"} => Needed(Open, item)
        /\ call = "asleep" => ~Still(RelativePath(item))
    BY <1>a, <2>3 DEF Asked
  <2>5. Needed(Open, item)' = Needed(Open, item)
    BY <1>2, <1>c DEF Needed, Has, Open
  <2>6. Still(RelativePath(item))' = Still(RelativePath(item))
    BY <2>2 DEF Still, RelativePath, Steady, Resolved, Advance
  <2> QED  BY <1>2, <2>4, <2>5, <2>6
<1>3. CASE StartAnalysis
  <2>1. call' \in {"analyzed", "record"}
    BY <1>3 DEF StartAnalysis
  <2>2. call' \in CallNames \cup {"asleep"} => call' = "record" /\ Open' = "record"
    BY <2>1 DEF CallNames, Calls, Open
  <2> QED  BY <2>2 DEF Needed
<1>4. CASE ReadBlocks
  <2>1. /\ call = "content" /\ call' = "asleep" /\ Opens({"named_pipe", "character_device"})
        /\ UNCHANGED <<at, vars>>
    BY <1>4 DEF ReadBlocks
  <2>2. UNCHANGED <<items, dirent, past>>
    BY <2>1 DEF vars, fsVars
  <2>3. item = Item /\ Open = "content" /\ Open' = "content" /\ call \in CallNames
    BY <2>1, <2>2 DEF Item, Open, CallNames, Calls
  <2>4. Needed("content", item)
    BY <1>a, <2>3 DEF Asked
  <2>5. Needed("content", item)'
    BY <1>c, <2>4 DEF Needed, Has
  <2>6. ~Still(RelativePath(item))
    <3> SUFFICES ASSUME Still(RelativePath(item)) PROVE FALSE
      OBVIOUS
    <3>1. Kind[item.inode] = "regular"
      BY <2>4 DEF Needed
    <3>2. Where = item.inode
      BY <1>a, <1>b, <2>3, <3>1, StillWhere DEF Item
    <3> QED  BY <2>1, <3>1, <3>2 DEF Opens
  <2>7. Still(RelativePath(item))' = Still(RelativePath(item))
    BY <2>2 DEF Still, RelativePath, Steady, Resolved, Advance
  <2> QED  BY <2>3, <2>5, <2>6, <2>7
<1>5. CASE Open \in CallNames /\ Answer
  <2>1. call' \in CallNames \cup {"analyzed"}
    <3>1. /\ at \in 1..Len(items) /\ Len(items) \in Nat /\ call # "analyzed"
          /\ Proceed(Open) /\ UNCHANGED items
      BY <1>5, <1>a, SettledTypes DEF vars
    <3> QED  BY <1>5, <3>1, Proceeds
  <2>2. PICK c : c = call'
    OBVIOUS
  <2>3. c \in CallNames => Needed(c, item)'
    BY <1>5, <1>a, <2>2, NextAsked
  <2>4. "asleep" \notin CallNames
    BY DEF CallNames, Calls
  <2>5. c \in CallNames => Open' = c
    BY <2>2, <2>4 DEF Open
  <2>6. call' # "asleep"
    BY <2>1, <2>4
  <2>7. call' \in CallNames \cup {"asleep"} => c \in CallNames
    BY <2>2, <2>6
  <2>8. c \in CallNames => Needed(Open, item)'
    BY <2>3, <2>5 DEF Needed, Has, Open
  <2> QED  BY <2>6, <2>7, <2>8
<1> QED
  BY <1>1, <1>2, <1>3, <1>4, <1>5, <1>a, AnswerStep DEF AnalysisInv, AnalysisTypeOK, analysisVars

(* The process can be put to sleep only by those who have taken a setuid   *)
(* file's place: its open without O_NONBLOCK, of an item nobody touched,   *)
(* always returns.                                                         *)
THEOREM SleepNeedsInterference == AnalysisSpec => []SleepsOnlyIfDisturbed
<1>1. AskedInv => SleepsOnlyIfDisturbed
  <2> SUFFICES ASSUME AskedInv, call = "asleep"
               PROVE  /\ Kind[Item.inode] = "regular" /\ Has(Item.inode, "ISUID")
                      /\ ~Still(RelativePath(Item))
    BY DEF SleepsOnlyIfDisturbed
  <2>1. PICK item : item = Item
    OBVIOUS
  <2>2. Needed("content", item) /\ ~Still(RelativePath(item))
    BY <2>1 DEF AskedInv, Asked, Open
  <2> QED  BY <2>1, <2>2 DEF Needed
<1>2. AskedInv /\ [AnalysisNext]_kls => AskedInv'
  BY AnalysisSteps, AskedInvStep
<1> QED
  BY <1>1, <1>2, AskedInvInit, PTL DEF AnalysisSpec

---------------------------------------------------------------------------

Named(ids) == {ids[j] : j \in DOMAIN ids}
Held(rules) == {rules[k][2] : k \in {j \in DOMAIN rules : rules[j][1]}}

LEMMA RaisedAreHeld ==
  ASSUME NEW rules, rules \in Seq(Rule)
  PROVE  Raised[rules] \in Seq(Registered) /\ Named(Raised[rules]) = Held(rules)
<1>1. PICK s : s = Raised[rules]
  OBVIOUS
<1>2. /\ s \in Seq(Registered)
      /\ Sound(rules, Len(rules), s) /\ Full(rules, Len(rules), s)
  BY <1>1, RaisedFrom
<1>3. /\ DOMAIN rules = 1..Len(rules)
      /\ \A b \in 1..Len(rules) : Holds(rules[b]) <=> rules[b][1]
  <2>1. \A b \in 1..Len(rules) : rules[b] \in Rule
    OBVIOUS
  <2> QED  BY <2>1 DEF Holds, Rule
<1>4. ASSUME NEW id \in Named(s) PROVE id \in Held(rules)
  <2>1. PICK j \in DOMAIN s : id = s[j]
    BY DEF Named
  <2>2. PICK b \in 1..Len(rules) : Holds(rules[b]) /\ s[j] = rules[b][2]
    BY <1>2 DEF Sound
  <2> QED  BY <1>3, <2>1, <2>2 DEF Held
<1>5. ASSUME NEW id \in Held(rules) PROVE id \in Named(s)
  <2>1. PICK b \in 1..Len(rules) : rules[b][1] /\ id = rules[b][2]
    BY <1>3 DEF Held
  <2>2. PICK j \in DOMAIN s : s[j] = rules[b][2]
    BY <1>2, <1>3, <2>1 DEF Full
  <2> QED  BY <2>1, <2>2 DEF Named
<1> QED
  BY <1>1, <1>2, <1>4, <1>5

(* An answer to c about an item left alone: what its inode shows and where *)
(* its path leads, or, if the call failed, nothing that counts.            *)
Exact(c, ids, failures, item) ==
  /\ ids \in Seq(Registered) /\ failures \subseteq {c}
  /\ failures = {} =>
       \A id : id \notin Forgiven(item, {}) => (id \in Named(ids) <=> id \in Shown(c, item))
  /\ failures # {} => Named(ids) \subseteq Forgiven(item, {c})
  /\ Kind[item.inode] # "symlink" => failures \subseteq FailingCalls

AnsweredExactly ==
  \E ids, failures : Settled(Open, ids, failures) /\ Exact(Open, ids, failures, Item)

LEMMA ForgivenGrows ==
  ASSUME NEW item, NEW miss, NEW more
  PROVE  /\ Forgiven(item, miss) \subseteq Forgiven(item, miss \cup more)
         /\ {"SU11", "SG05"} \subseteq Forgiven(item, miss)
         /\ Kind[item.inode] = "symlink" => CapabilityIds \cup {"SU19"} \subseteq Forgiven(item, miss)
BY DEF Forgiven

LEMMA HeldProper ==
  ASSUME NEW rules, NEW S, NEW item, Proper(rules, S, item)
  PROVE  rules \in Seq(Rule) /\ Held(rules) \subseteq S
<1>1. rules \in Seq(Rule) /\ DOMAIN rules = 1..Len(rules)
  BY DEF Proper
<1>2. ASSUME NEW b \in 1..Len(rules), rules[b][1] PROVE rules[b][2] \in S
  <2>1. rules[b] \in Rule
    BY <1>1
  <2> QED  BY <1>2, <2>1 DEF Proper, HeldIn, Holds, Rule
<1> QED
  BY <1>1, <1>2 DEF Held

LEMMA ExactRules ==
  ASSUME NEW c, NEW rules, rules \in Seq(Rule), NEW item,
         \/ Held(rules) = Shown(c, item)
         \/ Held(rules) \cup Shown(c, item) \subseteq Forgiven(item, {})
  PROVE  Exact(c, Raised[rules], {}, item)
BY RaisedAreHeld DEF Exact

LEMMA ExactFailure ==
  ASSUME NEW c, NEW item, Kind[item.inode] # "symlink" => c \in FailingCalls
  PROVE  Exact(c, <<>>, {c}, item)
<1>1. Named(<<>>) = {} /\ <<>> \in Seq(Registered)
  BY DEF Named
<1> QED
  BY <1>1 DEF Exact

LEMMA ShownHeld ==
  ASSUME NEW item, NEW i, i = item.inode
  PROVE  /\ Shown("record", item) = Held(RecordRules(item))
         /\ Shown("flags", item) = Held(FlagRules(i))
         /\ Shown("content", item) = Held(ContentRules(attr[i].magic))
         /\ Shown("getpwuid", item) = {} /\ Shown("getgrgid", item) = {}
         /\ Shown("redundant", item) = IF attr[i].capability.present THEN {"SU19"} ELSE {}
         /\ Shown("capability", item) = Held(CapabilityRules(attr[i].capability))
<1>1. Shown("record", item) = Held(RecordRules(item))
  BY DEF Shown, Held
<1>2. Shown("flags", item) = Held(FlagRules(i))
  BY DEF Shown, Held
<1>3. Shown("content", item) = Held(ContentRules(attr[i].magic))
  BY DEF Shown, Held
<1>4. Shown("getpwuid", item) = {} /\ Shown("getgrgid", item) = {}
  BY DEF Shown
<1>5. Shown("redundant", item) = IF attr[i].capability.present THEN {"SU19"} ELSE {}
  BY DEF Shown
<1>6. Shown("capability", item) = Held(CapabilityRules(attr[i].capability))
  BY DEF Shown, Held
<1> QED
  BY <1>1, <1>2, <1>3, <1>4, <1>5, <1>6

(* Of a link, it depends on where its path leads.                          *)
LEMMA ShownOfLink ==
  ASSUME NEW item, NEW i, i = item.inode, NEW goal,
         goal = LeadsTo(dirent, Root, RelativePath(item))
  PROVE  Shown("stat", item) = Held(<< <<Escapes(Text[i]), "SY03">>,
                                       <<goal = NoInode, "SY01">>,
                                       <<goal = "ELOOP", "SY02">> >>)
BY DEF Shown, Held

LEMMA ThreeInOne ==
  ASSUME NEW x, NEW y, NEW z PROVE <<x>> \o <<y, z>> = <<x, y, z>>
<1> DEFINE S == {x, y, z}
           s == <<x>>
           t == <<y, z>>
           u == <<x, y, z>>
<1>1. /\ s \in Seq(S) /\ t \in Seq(S) /\ u \in Seq(S)
      /\ Len(s) = 1 /\ Len(t) = 2 /\ Len(u) = 3
      /\ s[1] = x /\ t[1] = y /\ t[2] = z /\ u[1] = x /\ u[2] = y /\ u[3] = z
  OBVIOUS
<1> HIDE DEF S, s, t, u
<1>2. /\ s \o t \in Seq(S) /\ Len(s \o t) = Len(s) + Len(t)
      /\ \A i \in 1..Len(s) + Len(t) : (s \o t)[i] =
           IF i <= Len(s) THEN s[i] ELSE t[i - Len(s)]
  BY ONLY <1>1, ConcatProperties
<1>3. PICK v : v = s \o t
  OBVIOUS
<1>4. /\ v \in Seq(S) /\ Len(v) = 3
      /\ \A i \in 1..3 : v[i] = IF i <= 1 THEN s[i] ELSE t[i - 1]
  BY ONLY <1>1, <1>2, <1>3
<1>5. v[1] = u[1] /\ v[2] = u[2] /\ v[3] = u[3]
  BY <1>1, <1>4
<1>6. \A k \in 1..3 : v[k] = u[k]
  BY <1>5
<1>7. v = u
  BY <1>1, <1>4, <1>6, SeqEqual
<1> QED
  BY <1>3, <1>7 DEF s, t, u

(* Every answer about an item left alone is of that kind. *)
LEMMA StandingAnswer ==
  ASSUME AskedInv, NEW n, n = at, n \in DOMAIN items,
         Still(RelativePath(items[n])), AnalysisStep \/ Awaken
  PROVE  \/ StartAnalysis \/ ReadBlocks
         \/ \E a : ResizeBuffer(a) /\ UNCHANGED <<vars, analysisVars>>
         \/ AnsweredExactly
<1> DEFINE i == Item.inode
<1>1. /\ Item = items[n] /\ i \in Inode
      /\ Item.symlink_target \in {NoInode, i}
      /\ Kind[i] # "symlink" => Where = i
      /\ denied \subseteq DirInode
  BY StillWhere DEF AskedInv
<1>2. /\ attr \in [Inode -> Metadata] /\ attr[i] \in Metadata
  BY <1>1 DEF AskedInv, AnalysisInv, AnalysisTypeOK
<1>3. /\ call \in CallNames \cup {"asleep"} => Needed(Open, Item)
      /\ call # "asleep"
  BY <1>1 DEF AskedInv, Asked
<1>4. Open = call
  BY <1>3 DEF Open
<1>5. ASSUME NEW c, NEW ids, call = c, Answered(c, ids), Exact(c, ids, {}, Item)
      PROVE  AnsweredExactly
  BY <1>4, <1>5 DEF AnsweredExactly, Answered
<1>6. ASSUME NEW c, call = c, Failed(c), Kind[i] # "symlink" => c \in FailingCalls
      PROVE  AnsweredExactly
  BY <1>4, <1>6, ExactFailure DEF AnsweredExactly, Failed
<1>7. CASE AnalyzeRecord
  <2>1. RecordRules(Item) \in Seq(Rule)
    BY RecordProper DEF Proper
  <2>2. Exact("record", Raised[RecordRules(Item)], {}, Item)
    BY <2>1, ExactRules, ShownHeld
  <2> QED  BY <1>5, <1>7, <2>2 DEF AnalyzeRecord
<1>8. ASSUME NEW c \in {"getpwuid", "getgrgid"}, NEW account,
             NEW id \in {"SU11", "SG05"}, Orphaned(c, account, id)
      PROVE  \/ ResizeBuffer(account) /\ UNCHANGED <<vars, analysisVars>>
             \/ AnsweredExactly
  <2>1. "SU11" \in Registered /\ "SG05" \in Registered
    BY DEF Registered, High
  <2>2. Exact(c, <<>>, {}, Item) /\ Exact(c, <<id>>, {}, Item)
    <3>1. Shown(c, Item) = {}
      BY ShownHeld
    <3>2. /\ <<>> \in Seq(Registered) /\ <<id>> \in Seq(Registered)
          /\ Named(<<>>) = {} /\ Named(<<id>>) = {id}
      BY <2>1 DEF Named
    <3> QED  BY <3>1, <3>2, ForgivenGrows DEF Exact
  <2>3. ASSUME NEW answer, call = c,
               Answered(c, IF answer = "found" THEN <<>> ELSE <<id>>)
        PROVE  AnsweredExactly
    <3>1. PICK ids : ids = IF answer = "found" THEN <<>> ELSE <<id>>
      OBVIOUS
    <3> QED  BY <1>5, <2>2, <2>3, <3>1
  <2> QED  BY <1>8, <2>3 DEF Orphaned
<1>9. CASE OrphanedUid \/ OrphanedGid
  BY <1>8, <1>9 DEF OrphanedUid, OrphanedGid
<1>10. CASE ReadFlags
  <2>1. Kind[i] = "regular" /\ call = "flags"
    BY <1>3, <1>4, <1>10 DEF ReadFlags, Needed, CallNames, Calls
  <2>2. Opens({"regular", "directory"}) /\ Where = i
    BY <1>1, <2>1 DEF Opens, DirInode
  <2>3. FlagRules(i) \in Seq(Rule)
    BY SmallRules DEF Proper
  <2>4. Exact("flags", Raised[FlagRules(i)], {}, Item)
    BY <2>3, ExactRules, ShownHeld
  <2> QED  BY <1>5, <1>10, <2>1, <2>2, <2>4 DEF ReadFlags
<1>11. CASE LookForCapability
  <2>1. call = "redundant"
    BY <1>11 DEF LookForCapability
  <2>2. CASE Where \in Inode
    <3>1. PICK r : r = << <<attr[Where].capability.present, "SU19">> >>
      OBVIOUS
    <3>2. attr[Where].capability.present \in BOOLEAN /\ "SU19" \in Registered
      BY <1>2, <2>2 DEF Metadata, Capability, Registered, MedLow
    <3>3. r \in Seq(Rule) /\ Held(r) = IF attr[Where].capability.present THEN {"SU19"} ELSE {}
      BY <3>1, <3>2 DEF Rule, Held
    <3>4. Shown("redundant", Item) = IF attr[i].capability.present THEN {"SU19"} ELSE {}
      BY ShownHeld
    <3>5. \/ Held(r) = Shown("redundant", Item)
          \/ Held(r) \cup Shown("redundant", Item) \subseteq Forgiven(Item, {})
      <4>1. CASE Kind[i] # "symlink"
        BY <1>1, <3>3, <3>4, <4>1
      <4>2. CASE Kind[i] = "symlink"
        BY <3>3, <3>4, <4>2, ForgivenGrows
      <4> QED  BY <4>1, <4>2
    <3>6. Exact("redundant", Raised[r], {}, Item)
      BY <3>3, <3>5, ExactRules
    <3> QED  BY <1>5, <1>11, <2>1, <2>2, <3>1, <3>6 DEF LookForCapability
  <2>3. CASE Where \notin Inode
    <3>1. Failed("redundant") /\ Kind[i] = "symlink"
      BY <1>1, <1>11, <2>3 DEF LookForCapability
    <3> QED  BY <1>6, <2>1, <3>1
  <2> QED  BY <2>2, <2>3
<1>12. CASE AnalyzeCapability
  <2>1. call = "capability"
    BY <1>12 DEF AnalyzeCapability
  <2>2. CASE Where \in Inode
    <3>1. PICK r, t : /\ r = CapabilityRules(attr[Where].capability)
                      /\ t = CapabilityRules(attr[i].capability)
      OBVIOUS
    <3>2. attr[Where].capability \in Capability /\ attr[i].capability \in Capability
      BY <1>2, <2>2 DEF Metadata
    <3>3. Proper(r, CapabilityIds, Item) /\ Proper(t, CapabilityIds, Item)
      BY <3>1, <3>2, CapabilityProper
    <3>4. /\ r \in Seq(Rule) /\ Held(r) \subseteq CapabilityIds
          /\ Held(t) \subseteq CapabilityIds
      BY <3>3, HeldProper
    <3>5. Shown("capability", Item) = Held(t)
      BY <3>1, ShownHeld
    <3>6. \/ Held(r) = Shown("capability", Item)
          \/ Held(r) \cup Shown("capability", Item) \subseteq Forgiven(Item, {})
      <4>1. CASE Kind[i] # "symlink"
        BY <1>1, <3>1, <3>5, <4>1
      <4>2. CASE Kind[i] = "symlink"
        BY <3>4, <3>5, <4>2, ForgivenGrows
      <4> QED  BY <4>1, <4>2
    <3>7. Exact("capability", Raised[r], {}, Item)
      BY <3>4, <3>6, ExactRules
    <3> QED  BY <1>5, <1>12, <2>1, <2>2, <3>1, <3>7 DEF AnalyzeCapability
  <2>3. CASE Where \notin Inode
    <3>1. Failed("capability") /\ Kind[i] = "symlink"
      BY <1>1, <1>12, <2>3 DEF AnalyzeCapability
    <3> QED  BY <1>6, <2>1, <3>1
  <2> QED  BY <2>2, <2>3
<1>13. CASE ReadContent
  <2>1. Kind[i] = "regular" /\ call = "content"
    BY <1>3, <1>4, <1>13 DEF ReadContent, Needed, CallNames, Calls
  <2>2. Opens({"regular"}) /\ Where = i
    BY <1>1, <2>1 DEF Opens, DirInode
  <2>3. /\ ~Opens({"directory"})
        /\ ~Opens({"named_pipe", "character_device", "block_device"})
    BY <2>1, <2>2 DEF Opens
  <2>4. Answered("content", Raised[ContentRules(attr[i].magic)])
    BY <1>13, <2>2, <2>3 DEF ReadContent
  <2>5. ContentRules(attr[i].magic) \in Seq(Rule)
    BY SmallRules DEF Proper
  <2>6. Exact("content", Raised[ContentRules(attr[i].magic)], {}, Item)
    BY <2>5, ExactRules, ShownHeld
  <2> QED  BY <1>5, <2>1, <2>4, <2>6
<1>14. CASE AnalyzeSymlink
  <2>1. call = "stat"
    BY <1>14 DEF AnalyzeSymlink
  <2>2. Needed("stat", Item)
    BY <1>3, <1>4, <2>1 DEF CallNames, Calls
  <2>3. Item.symlink_target = i
    BY <1>1, <2>2 DEF Needed
  <2>4. PICK r : r = TextRules(Item) \o << <<Where = NoInode, "SY01">>,
                                          <<Where = "ELOOP", "SY02">> >>
    OBVIOUS
  <2>5. r \in Seq(Rule)
    BY <2>4, SymlinkProper DEF Proper
  <2>6. r = << <<Escapes(Text[i]), "SY03">>, <<Where = NoInode, "SY01">>,
               <<Where = "ELOOP", "SY02">> >>
    <3>1. TextRules(Item) = << <<Escapes(Text[i]), "SY03">> >>
      BY <2>3 DEF TextRules
    <3> QED  BY <2>4, <3>1, ThreeInOne
  <2>7. Shown("stat", Item) = Held(r)
    BY <2>6, ShownOfLink DEF Where
  <2>8. Exact("stat", Raised[r], {}, Item)
    BY <2>5, <2>7, ExactRules
  <2> QED  BY <1>5, <1>14, <2>1, <2>4, <2>8 DEF AnalyzeSymlink
<1>15. CASE CallFails
  <2>1. PICK ids : /\ \/ ids = <<>>
                      \/ call = "content" /\ ids = <<"SU16">>
                      \/ call = "stat" /\ ids = Raised[TextRules(Item)]
                   /\ Settled(call, ids, {call})
    <3>1. CASE call = "content"
      BY <1>15, <3>1 DEF CallFails
    <3>2. CASE call = "stat"
      BY <1>15, <3>2 DEF CallFails
    <3>3. CASE call \notin {"content", "stat"}
      BY <1>15, <3>3 DEF CallFails
    <3> QED  BY <3>1, <3>2, <3>3
  <2>2. ids \in Seq(Registered) /\ Named(ids) \subseteq Forgiven(Item, {call})
    <3>1. CASE ids = <<>>
      BY <3>1 DEF Named
    <3>2. CASE call = "content" /\ ids = <<"SU16">>
      BY <3>2 DEF Named, Forgiven, Registered, Crit
    <3>3. CASE call = "stat" /\ ids = Raised[TextRules(Item)]
      <4>1. PICK r : r = TextRules(Item)
        OBVIOUS
      <4>2. r \in Seq(Rule)
        BY <4>1, SymlinkProper DEF Proper
      <4>3. Held(r) \subseteq {"SY03"}
        BY <4>1 DEF Held, TextRules
      <4>4. ids \in Seq(Registered) /\ Named(ids) \subseteq {"SY03"}
        BY <3>3, <4>1, <4>2, <4>3, RaisedAreHeld
      <4> QED  BY <3>3, <4>4 DEF Forgiven
    <3> QED  BY <2>1, <3>1, <3>2, <3>3
  <2>3. call \in FailingCalls
    BY <1>15 DEF CallFails
  <2>4. Exact(call, ids, {call}, Item)
    BY <2>2, <2>3 DEF Exact
  <2> QED  BY <1>4, <2>1, <2>4 DEF AnsweredExactly
<1>16. CASE Awaken
  BY <1>3, <1>16 DEF Awaken
<1> QED
  BY <1>7, <1>9, <1>10, <1>11, <1>12, <1>13, <1>14, <1>15, <1>16 DEF AnalysisStep

---------------------------------------------------------------------------

(* What item has been told by the questions passed: of an item left alone, *)
(* everything that is shown to those that did not fail, and no more.       *)
Told(ids, passed, miss, item) ==
  /\ miss \subseteq passed
  /\ Still(RelativePath(item)) =>
       /\ \A id : id \notin Forgiven(item, miss) =>
            (id \in Named(ids) <=>
               \E c \in passed \ miss : Needed(c, item) /\ id \in Shown(c, item))
       /\ Kind[item.inode] # "symlink" => miss \subseteq FailingCalls

ToldInv ==
  \A k, ids, passed, miss, item :
    /\ k \in DOMAIN findings /\ ids = findings[k] /\ passed = Passed(k)
    /\ miss = missed[k] /\ item = items[k]
    => Told(ids, passed, miss, item)

LEMMA NamedJoined ==
  ASSUME NEW ids \in Seq(Registered), NEW new \in Seq(Registered)
  PROVE  Named(ids \o new) = Named(ids) \cup Named(new)
<1> DEFINE n == Len(ids)
           m == Len(new)
           t == ids \o new
<1>1. /\ n \in Nat /\ m \in Nat /\ DOMAIN t = 1..(n+m)
      /\ DOMAIN ids = 1..n /\ DOMAIN new = 1..m
      /\ \A j \in 1..n : t[j] = ids[j]
      /\ \A j \in 1..m : t[n+j] = new[j] /\ n + j \in 1..(n+m)
      /\ \A j \in 1..(n+m) : j \in 1..n \/ (j - n \in 1..m /\ t[j] = new[j-n])
  OBVIOUS
<1> HIDE DEF n, m, t
<1>2. ASSUME NEW id \in Named(t) PROVE id \in Named(ids) \cup Named(new)
  <2>1. PICK j \in 1..(n+m) : id = t[j]
    BY <1>1 DEF Named
  <2> QED  BY <1>1, <2>1 DEF Named
<1>3. ASSUME NEW id \in Named(ids) PROVE id \in Named(t)
  <2>1. PICK j \in 1..n : id = ids[j]
    BY <1>1 DEF Named
  <2>2. j \in 1..(n+m)
    BY <1>1
  <2> QED  BY <1>1, <2>1, <2>2 DEF Named
<1>4. ASSUME NEW id \in Named(new) PROVE id \in Named(t)
  <2>1. PICK j \in 1..m : id = new[j]
    BY <1>1 DEF Named
  <2> QED  BY <1>1, <2>1 DEF Named
<1> QED
  BY <1>2, <1>3, <1>4 DEF t

LEMMA ToldGrows ==
  ASSUME NEW ids \in Seq(Registered), NEW new \in Seq(Registered), NEW p, NEW q,
         NEW miss, NEW failures, NEW item, NEW c,
         Told(ids, p, miss, item), failures \subseteq {c},
         Still(RelativePath(item)) => Exact(c, new, failures, item),
         c \in q, c \notin p, p \subseteq q, Needed(c, item),
         \A e \in q : e \in p \/ e = c \/ ~Needed(e, item)
  PROVE  Told(ids \o new, q, miss \cup failures, item)
<1>1. miss \subseteq p /\ c \notin miss /\ miss \cup failures \subseteq q
  BY DEF Told
<1> SUFFICES ASSUME Still(RelativePath(item))
             PROVE  /\ \A id : id \notin Forgiven(item, miss \cup failures) =>
                         (id \in Named(ids \o new) <=>
                            \E e \in q \ (miss \cup failures) :
                              Needed(e, item) /\ id \in Shown(e, item))
                    /\ Kind[item.inode] # "symlink" => miss \cup failures \subseteq FailingCalls
  BY <1>1 DEF Told
<1>2. Exact(c, new, failures, item)
  OBVIOUS
<1>3. Kind[item.inode] # "symlink" => miss \cup failures \subseteq FailingCalls
  BY <1>2 DEF Exact, Told
<1>4. ASSUME NEW id, id \notin Forgiven(item, miss \cup failures)
      PROVE  id \in Named(ids) \/ id \in Named(new) <=>
               \E e \in q \ (miss \cup failures) : Needed(e, item) /\ id \in Shown(e, item)
  <2>1. /\ id \notin Forgiven(item, miss) /\ id \notin Forgiven(item, failures)
        /\ id \notin Forgiven(item, {})
    BY <1>4 DEF Forgiven
  <2>2. id \in Named(ids) <=> \E e \in p \ miss : Needed(e, item) /\ id \in Shown(e, item)
    BY <2>1 DEF Told
  <2>3. CASE failures = {}
    <3>1. id \in Named(new) <=> id \in Shown(c, item)
      BY <1>2, <2>1, <2>3 DEF Exact
    <3> QED  BY <1>1, <2>2, <2>3, <3>1
  <2>4. CASE failures = {c}
    <3>1. id \notin Named(new)
      BY <1>2, <2>1, <2>4 DEF Exact
    <3> QED  BY <1>1, <2>2, <2>4, <3>1
  <2> QED  BY <2>3, <2>4
<1> QED
  BY <1>3, <1>4, NamedJoined

(* What was shown of a standing item is still shown, if its path leads to  *)
(* the same or the ids that depend on it are forgiven.                     *)
Lasting(item) ==
  Still(RelativePath(item))' =>
    /\ Still(RelativePath(item))
    /\ \/ Kind[item.inode] = "symlink" /\ ~WayStill(RelativePath(item))'
       \/ /\ Kind[item.inode] = "symlink" => WayStill(RelativePath(item))
          /\ LeadsTo(dirent, Root, RelativePath(item))'
               = LeadsTo(dirent, Root, RelativePath(item))

LEMMA NeededStays ==
  ASSUME UNCHANGED attr, NEW c, NEW item
  PROVE  Needed(c, item)' = Needed(c, item)
BY DEF Needed, Has

LEMMA ShownStays ==
  ASSUME UNCHANGED attr, NEW c, NEW item, c # "stat"
  PROVE  Shown(c, item)' = Shown(c, item)
<1> USE DEF Has, Executable
<1>1. /\ TimeRules(item)' = TimeRules(item)
      /\ PlaceRules(item)' = PlaceRules(item)
      /\ RegularRules(item.inode)' = RegularRules(item.inode)
      /\ SetuidRules(item)' = SetuidRules(item)
      /\ SetgidRules(item.inode)' = SetgidRules(item.inode)
  BY DEF TimeRules, PlaceRules, RegularRules, SetuidRules, SetgidRules
<1>2. RecordRules(item)' = RecordRules(item)
  BY <1>1 DEF RecordRules
<1>3. FlagRules(item.inode)' = FlagRules(item.inode)
  BY DEF FlagRules
<1> QED
  BY <1>2, <1>3 DEF Shown

(* Of three rules of known conditions, those held.                         *)
LEMMA ThreeHeld ==
  ASSUME NEW x \in BOOLEAN, NEW y \in BOOLEAN, NEW z \in BOOLEAN,
         NEW a, NEW b, NEW c, NEW id
  PROVE  id \in Held(<< <<x, a>>, <<y, b>>, <<z, c>> >>) <=>
           \/ x /\ id = a
           \/ y /\ id = b
           \/ z /\ id = c
<1> DEFINE r == << <<x, a>>, <<y, b>>, <<z, c>> >>
<1>1. DOMAIN r = {1, 2, 3}
  OBVIOUS
<1>2. /\ r[1][1] = x /\ r[1][2] = a
      /\ r[2][1] = y /\ r[2][2] = b
      /\ r[3][1] = z /\ r[3][2] = c
  OBVIOUS
<1> HIDE DEF r
<1>3. id \in Held(r) <=> \E k \in {1, 2, 3} : r[k][1] /\ id = r[k][2]
  BY <1>1 DEF Held
<1>4. ASSUME NEW k \in {1, 2, 3}, r[k][1], id = r[k][2]
      PROVE  \/ x /\ id = a
             \/ y /\ id = b
             \/ z /\ id = c
  <2>1. CASE k = 1
    BY <1>2, <1>4, <2>1, Zenon
  <2>2. CASE k = 2
    BY <1>2, <1>4, <2>2, Zenon
  <2>3. CASE k = 3
    BY <1>2, <1>4, <2>3, Zenon
  <2> QED  BY <2>1, <2>2, <2>3
<1>5. /\ x /\ id = a => r[1][1] /\ id = r[1][2]
      /\ y /\ id = b => r[2][1] /\ id = r[2][2]
      /\ z /\ id = c => r[3][1] /\ id = r[3][2]
  BY <1>2, Zenon
<1>6. ASSUME NEW k \in {1, 2, 3} PROVE r[k][1] /\ id = r[k][2] => id \in Held(r)
  BY <1>3
<1>7. (x /\ id = a) \/ (y /\ id = b) \/ (z /\ id = c) => id \in Held(r)
  BY <1>5, <1>6, Zenon
<1> QED
  BY <1>3, <1>4, <1>7, Zenon DEF r

LEMMA LinkStays ==
  ASSUME NEW item, Lasting(item), Still(RelativePath(item))',
         NEW miss, NEW id, id \notin Forgiven(item, miss)'
  PROVE  /\ id \notin Forgiven(item, miss)
         /\ id \in Shown("stat", item)' <=> id \in Shown("stat", item)
<1> DEFINE names == RelativePath(item)
<1>1. PICK i, goal, new, still :
        /\ i = item.inode /\ still = WayStill(names)'
        /\ goal = LeadsTo(dirent, Root, names) /\ new = LeadsTo(dirent, Root, names)'
  OBVIOUS
<1>2. /\ id \in Shown("stat", item) <=>
           \/ Escapes(Text[i]) /\ id = "SY03"
           \/ goal = NoInode /\ id = "SY01"
           \/ goal = "ELOOP" /\ id = "SY02"
      /\ id \in Shown("stat", item)' <=>
           \/ Escapes(Text[i]) /\ id = "SY03"
           \/ new = NoInode /\ id = "SY01"
           \/ new = "ELOOP" /\ id = "SY02"
  <2> DEFINE Rules(where) == << <<Escapes(Text[i]), "SY03">>, <<where = NoInode, "SY01">>,
                                <<where = "ELOOP", "SY02">> >>
  <2>1. \A where : id \in Held(Rules(where)) <=>
                     \/ Escapes(Text[i]) /\ id = "SY03"
                     \/ where = NoInode /\ id = "SY01"
                     \/ where = "ELOOP" /\ id = "SY02"
    <3> TAKE where
    <3>1. Escapes(Text[i]) \in BOOLEAN
      BY Zenon DEF Escapes
    <3>2. PICK out \in BOOLEAN, gone \in BOOLEAN, circular \in BOOLEAN :
            /\ out = Escapes(Text[i])
            /\ gone = (where = NoInode) /\ circular = (where = "ELOOP")
      BY <3>1, Zenon
    <3>3. Rules(where) = << <<out, "SY03">>, <<gone, "SY01">>, <<circular, "SY02">> >>
      BY <3>2, Zenon
    <3> HIDE DEF Rules
    <3>4. id \in Held(Rules(where)) <=> \/ out /\ id = "SY03"
                                        \/ gone /\ id = "SY01"
                                        \/ circular /\ id = "SY02"
      BY <3>3, ThreeHeld
    <3> QED  BY <3>2, <3>4, Zenon
  <2>2. Shown("stat", item) = Held(Rules(goal))
    BY <1>1, ShownOfLink
  <2>3. Shown("stat", item)' = Held(Rules(new))
    BY <1>1 DEF Shown, Held
  <2> HIDE DEF Rules
  <2> QED  BY <2>1, <2>2, <2>3
<1>3. /\ id \notin {"SU11", "SG05"}
      /\ Kind[i] = "symlink" => /\ id \notin CapabilityIds \cup {"SU19"}
                                /\ ~still => id \notin {"SY01", "SY02"}
      /\ "content" \in miss => id # "SU16"
      /\ "stat" \in miss => id # "SY03"
  BY <1>1 DEF Forgiven
<1>4. id \notin Forgiven(item, miss)
  BY <1>1, <1>3 DEF Forgiven, Lasting
<1>5. id \in Shown("stat", item)' <=> id \in Shown("stat", item)
  BY <1>1, <1>2, <1>3 DEF Lasting
<1> QED
  BY <1>4, <1>5

LEMMA ToldStays ==
  ASSUME UNCHANGED attr, NEW ids, NEW passed, NEW miss, NEW item,
         Told(ids, passed, miss, item), Lasting(item)
  PROVE  Told(ids, passed, miss, item)'
<1> SUFFICES ASSUME Still(RelativePath(item))'
             PROVE  /\ \A id : id \notin Forgiven(item, miss)' =>
                         (id \in Named(ids) <=>
                            \E c \in passed \ miss :
                              Needed(c, item)' /\ id \in Shown(c, item)')
                    /\ Kind[item.inode] # "symlink" => miss \subseteq FailingCalls
  BY DEF Told, Named
<1>1. Still(RelativePath(item))
  BY DEF Lasting
<1>2. ASSUME NEW id, id \notin Forgiven(item, miss)'
      PROVE  id \in Named(ids) <=>
               \E c \in passed \ miss : Needed(c, item)' /\ id \in Shown(c, item)'
  <2>1. id \notin Forgiven(item, miss)
    BY <1>2, LinkStays
  <2>2. \A c : /\ Needed(c, item)' <=> Needed(c, item)
               /\ id \in Shown(c, item)' <=> id \in Shown(c, item)
    BY <1>2, LinkStays, NeededStays, ShownStays
  <2>3. id \in Named(ids) <=> \E c \in passed \ miss : Needed(c, item) /\ id \in Shown(c, item)
    BY <1>1, <2>1 DEF Told
  <2> QED  BY <2>2, <2>3
<1>3. Kind[item.inode] # "symlink" => miss \subseteq FailingCalls
  BY <1>1 DEF Told
<1> QED
  BY <1>2, <1>3

(* Nothing moves.                                                          *)
LEMMA LastingHere ==
  ASSUME UNCHANGED <<dirent, past>>, NEW item PROVE Lasting(item)
<1>1. Still(RelativePath(item))' = Still(RelativePath(item))
  BY DEF Still, RelativePath, Steady, Resolved, Advance
<1>2. WayStill(RelativePath(item))' = WayStill(RelativePath(item))
  BY DEF WayStill, RelativePath, SteadyWay, Unmoved, Resolution, Further, Followed, LookedUp, Up
<1>3. LeadsTo(dirent, Root, RelativePath(item))' = LeadsTo(dirent, Root, RelativePath(item))
  BY DEF LeadsTo, RelativePath, Resolution, Further, Followed, LookedUp, Up
<1> QED
  BY <1>1, <1>2, <1>3 DEF Lasting

(* Somewhere in the tree, something does.                                  *)
LEMMA LastingElsewhere ==
  ASSUME AtItems, AtItems', Elsewhere, UNCHANGED items, NEW k \in DOMAIN items,
         NEW item, item = items[k]
  PROVE  Lasting(item)
<1>1. PICK names : names = RelativePath(item)
  OBVIOUS
<1>2. item.full_path \in Seq(Name)
  BY ItemsTyped DEF AtItems
<1>3. names \in Seq(Name) /\ names \in Seq(Component) /\ RelativePath(item)' = names
  BY <1>1, <1>2 DEF RelativePath, Component
<1>4. Onward
  BY Onwards DEF AtItems, Elsewhere
<1>5. Still(names)' => Still(names)
  BY <1>3, <1>4, StillBefore
<1>6. WayStill(names)' => /\ WayStill(names)
                         /\ LeadsTo(dirent, Root, names)' = LeadsTo(dirent, Root, names)
  <2> SUFFICES ASSUME WayStill(names)'
               PROVE  /\ WayStill(names)
                      /\ LeadsTo(dirent, Root, names)' = LeadsTo(dirent, Root, names)
    OBVIOUS
  <2>1. SteadyWay(dirent', past', Root, names)
    BY DEF WayStill, SteadyWay, Unmoved, Resolution, Further, Followed, LookedUp, Up
  <2>2. dirent \in Entries /\ dirent' \in Entries
    BY DEF AtItems, TypeOK, FsTypeOK, Entries, DirInode
  <2>3. OneName(dirent) /\ OneName(dirent')
    BY DEF AtItems, OneName
  <2>4. /\ Holding(dirent, past) /\ Holding(dirent', past')
        /\ \A d \in Inode, n \in Name : past[d][n] \subseteq past'[d][n]
    BY <1>4 DEF Onward, Remembered, Holding
  <2>5. /\ SteadyWay(dirent, past, Root, names)
        /\ LeadsTo(dirent, Root, names) = LeadsTo(dirent', Root, names)
    BY <1>3, <2>1, <2>2, <2>3, <2>4, WayBefore
  <2>6. LeadsTo(dirent, Root, names)' = LeadsTo(dirent', Root, names)
    BY DEF LeadsTo, Resolution, Further, Followed, LookedUp, Up
  <2> QED  BY <2>5, <2>6 DEF WayStill
<1>7. ASSUME Still(names)', Kind[item.inode] # "symlink"
      PROVE  LeadsTo(dirent, Root, names)' = LeadsTo(dirent, Root, names)
  <2>1. LeadsTo(dirent, Root, names) = item.inode
    BY <1>1, <1>5, <1>7, StillLeads
  <2>2. Walked(names) = item.inode /\ item.inode \in Inode
    BY <1>1, <1>5, <1>7, StillItem
  <2>3. Walked(names)' = item.inode
    BY <1>3, <1>4, <1>7, <2>2, StillBefore
  <2>4. Steady(dirent', past', names) /\ Resolved(dirent', names)[Len(names)] = item.inode
    BY <1>7, <2>3 DEF Still, Steady, Walked, Resolved, Advance
  <2>5. dirent' \in Entries
    BY DEF AtItems, TypeOK, FsTypeOK, Entries, DirInode
  <2>6. LeadsTo(dirent', Root, names) = item.inode
    BY <1>3, <1>7, <2>2, <2>4, <2>5, DirectWay
  <2>7. LeadsTo(dirent, Root, names)' = LeadsTo(dirent', Root, names)
    BY DEF LeadsTo, Resolution, Further, Followed, LookedUp, Up
  <2> QED  BY <2>1, <2>6, <2>7
<1> QED
  BY <1>1, <1>3, <1>5, <1>6, <1>7 DEF Lasting

LEMMA AnswerIsTold ==
  ASSUME AskedInv, ToldInv, Open \in CallNames, Answer, NEW n, n = at,
         Still(RelativePath(items[n])) => AnsweredExactly
  PROVE  \E ids, p, miss, item :
           /\ ids = findings'[n] /\ p = Passed(n)' /\ miss = missed'[n] /\ item = items'[n]
           /\ Told(ids, p, miss, item)'
<1>1. /\ n \in 1..Len(items) /\ n \in DOMAIN findings /\ findings \in Seq(Seq(Registered))
      /\ missed \in Seq(SUBSET CallNames) /\ n \in DOMAIN missed /\ DOMAIN missed = 1..Len(items)
      /\ call # "analyzed" /\ UNCHANGED <<items, attr, dirent, past>> /\ Proceed(Open)
      /\ Len(items) \in Nat
  <2>1. AnalysisInv /\ AnalysisTypeOK
    BY DEF AskedInv, AnalysisInv
  <2> QED  BY <2>1, SettledTypes DEF AnalysisTypeOK, vars, fsVars
<1>2. PICK ids, p, q, miss, item, c :
        /\ ids = findings[n] /\ p = Passed(n) /\ q = Passed(n)' /\ miss = missed[n]
        /\ item = items[n] /\ c = Open
  OBVIOUS
<1>3. Item = item /\ Needed(c, item)
  BY <1>1, <1>2 DEF Item, AskedInv, Asked, Open, CallNames, Calls
<1>4. PICK new, failures :
        /\ new \in Seq(Registered) /\ failures \subseteq {c} /\ Settled(c, new, failures)
        /\ Still(RelativePath(item)) => Exact(c, new, failures, item)
  <2>1. CASE Still(RelativePath(item))
    <3>1. PICK new, failures : Settled(Open, new, failures) /\ Exact(Open, new, failures, Item)
      BY <1>2, <2>1 DEF AnsweredExactly
    <3>2. new \in Seq(Registered) /\ failures \subseteq {c}
      BY <1>2, <3>1 DEF Exact
    <3> QED  BY <1>2, <1>3, <3>1, <3>2
  <2>2. CASE ~Still(RelativePath(item))
    BY <1>2, <2>2 DEF Answer, Brings
  <2> QED  BY <2>1, <2>2
<1>5. Told(ids, p, miss, item) /\ ids \in Seq(Registered)
  <2>1. Told(ids, p, miss, item)
    BY <1>1, <1>2 DEF ToldInv
  <2>2. ids \in Seq(Registered)
    BY <1>1, <1>2
  <2> QED  BY <2>1, <2>2
<1>6. /\ c \notin p /\ c \in q /\ p \subseteq q
      /\ \A e \in q : e \in p \/ e = c \/ ~Needed(e, item)
  BY <1>1, <1>2, <1>3, Proceeds
<1>7. Told(ids \o new, q, miss \cup failures, item)
  BY <1>3, <1>4, <1>5, <1>6, ToldGrows
<1>8. findings'[n] = ids \o new /\ missed'[n] = miss \cup failures
  BY <1>1, <1>2, <1>4 DEF Settled
<1>9. PICK t, u : t = ids \o new /\ u = miss \cup failures
  OBVIOUS
<1>10. Lasting(item)
  BY <1>1, LastingHere
<1>11. Told(t, q, u, item)'
  BY <1>1, <1>7, <1>9, <1>10, ToldStays
<1> QED
  BY <1>1, <1>2, <1>8, <1>9, <1>11

LEMMA ToldInvInit == AnalysisInit => ToldInv
BY DEF AnalysisInit, ToldInv

LEMMA ToldInvStep ==
  AskedInv /\ ToldInv /\ (AnalysisStep \/ Awaken \/ Elsewhere) => ToldInv'
<1> SUFFICES ASSUME AskedInv, ToldInv, AnalysisStep \/ Awaken \/ Elsewhere,
                    NEW k, NEW ids, NEW passed, NEW miss, NEW item,
                    k \in DOMAIN findings', ids = findings'[k],
                    passed = Passed(k)', miss = missed'[k], item = items'[k]
             PROVE  Told(ids, passed, miss, item)'
  BY DEF ToldInv
<1>a. /\ AnalysisInv /\ AtItems /\ TypeOK /\ AnalysisTypeOK /\ UNCHANGED attr
      /\ DOMAIN items = 1..Len(items) /\ Len(items) \in Nat
  BY AnalysisKeepsScan DEF AskedInv, AtItems, AnalysisInv, TypeOK, Elsewhere, analysisVars
<1>1. ASSUME k \in DOMAIN findings, UNCHANGED items, findings'[k] = findings[k],
             missed'[k] = missed[k], Passed(k)' = Passed(k), Lasting(item)
      PROVE  Told(ids, passed, miss, item)'
  <2>1. Told(ids, passed, miss, item)
    BY <1>1 DEF ToldInv
  <2> QED  BY <1>a, <1>1, <2>1, ToldStays
<1>2. ASSUME UNCHANGED <<call, at, findings>> PROVE Passed(k)' = Passed(k)
  BY <1>2 DEF Passed, Finished, Open, Earlier, Calls, CallNames
<1>3. CASE Elsewhere
  <2>1. UNCHANGED <<call, at, findings, missed>>
    BY <1>3 DEF Elsewhere, analysisVars
  <2>2. call # "idle" /\ k \in DOMAIN findings
    BY <1>a, <2>1 DEF AnalysisTypeOK
  <2>3. UNCHANGED items
    BY <1>3, <1>a, <2>2, ScanFrozen DEF AnalysisInv, Elsewhere, Terminal
  <2>4. k \in DOMAIN items /\ item = items[k]
    BY <1>a, <2>2, <2>3 DEF AnalysisTypeOK
  <2>5. AtItems'
    BY <1>3, <1>a, AtItemsAnalysis
  <2>6. Lasting(item)
    BY <1>3, <1>a, <2>3, <2>4, <2>5, LastingElsewhere
  <2> QED  BY <1>1, <1>2, <2>1, <2>2, <2>3, <2>6
<1>4. ASSUME AnalysisStep \/ Awaken
      PROVE  UNCHANGED items /\ Lasting(item)
  <2>1. UNCHANGED <<items, dirent, past>>
    BY <1>4, AnalysisKeepsScan DEF vars, fsVars
  <2> QED  BY <2>1, LastingHere
<1>5. CASE (AnalysisStep \/ Awaken) /\ UNCHANGED analysisVars
  BY <1>1, <1>2, <1>4, <1>5 DEF analysisVars
<1>6. CASE ReadBlocks
  <2>1. UNCHANGED <<at, findings, missed>> /\ Open' = Open /\ call # "analyzed" /\ call' # "analyzed"
    BY <1>6 DEF ReadBlocks, Open
  <2>2. Passed(k)' = Passed(k)
    BY <2>1 DEF Passed, Finished, Earlier, Calls, CallNames
  <2> QED  BY <1>1, <1>4, <1>6, <2>1, <2>2 DEF AnalysisStep
<1>7. CASE StartAnalysis
  <2>1. k \in DOMAIN items /\ ids = <<>> /\ miss = {}
    BY <1>7 DEF StartAnalysis
  <2>2. call' = "record" /\ at' = 1
    BY <1>7, <2>1 DEF StartAnalysis
  <2>3. passed = {}
    <3>1. ~(k < 1) /\ "record" # "analyzed" /\ "record" # "asleep"
      BY <1>a, <2>1
    <3>2. Passed(k)' = IF k = 1 THEN Earlier("record") ELSE {}
      BY <2>2, <3>1 DEF Passed, Finished, Open, Earlier, Calls
    <3> QED  BY <3>2, CallsInOrder
  <2>4. Named(ids) = {}
    BY <2>1 DEF Named
  <2> QED  BY <2>1, <2>3, <2>4 DEF Told, Named
<1>8. ASSUME AnalysisStep \/ Awaken, Open \in CallNames, Answer,
             NEW n, n = at, Still(RelativePath(items[n])) => AnsweredExactly
      PROVE  Told(ids, passed, miss, item)'
  <2>1. /\ k \in DOMAIN findings /\ k \in 1..Len(items)
        /\ n \in 1..Len(items) /\ call # "analyzed" /\ Proceed(Open)
        /\ findings \in Seq(Seq(Registered)) /\ missed \in Seq(SUBSET CallNames)
        /\ DOMAIN missed = 1..Len(items) /\ UNCHANGED items
    BY <1>a, <1>4, <1>8, SettledTypes DEF AnalysisTypeOK
  <2>2. CASE k = n
    BY <1>8, <2>2, AnswerIsTold
  <2>3. CASE k # n
    <3>1. Passed(k)' = Passed(k)
      BY <1>a, <1>8, <2>1, <2>3, Proceeds
    <3>2. findings'[k] = findings[k] /\ missed'[k] = missed[k]
      BY <1>8, <2>1, <2>3 DEF Answer, Settled
    <3> QED  BY <1>1, <1>4, <1>8, <2>1, <3>1, <3>2
  <2> QED  BY <2>2, <2>3
<1>9. CASE /\ AnalysisStep \/ Awaken
           /\ ~StartAnalysis /\ ~ReadBlocks /\ ~UNCHANGED analysisVars
  <2>1. Open \in CallNames /\ Answer
    BY <1>9, <1>a, AnswerStep DEF AnalysisTypeOK
  <2>2. PICK n : n = at
    OBVIOUS
  <2>3. n \in DOMAIN items
    BY <1>a, <2>1, <2>2, SettledTypes
  <2>4. Still(RelativePath(items[n])) => AnsweredExactly
    BY <1>9, <2>2, <2>3, StandingAnswer
  <2> QED  BY <1>8, <1>9, <2>1, <2>2, <2>4
<1> QED
  BY <1>3, <1>5, <1>6, <1>7, <1>9

ToBeTold(item, miss) ==
  UNION {Shown(c, item) : c \in {c \in CallNames \ miss : Needed(c, item)}}

LEMMA AllTold ==
  ASSUME ToldInv, NEW k \in DOMAIN findings, Finished(k),
         Still(RelativePath(items[k]))
  PROVE  /\ Ids(k) \ Forgiven(items[k], missed[k])
              = ToBeTold(items[k], missed[k]) \ Forgiven(items[k], missed[k])
         /\ Kind[items[k].inode] # "symlink" => missed[k] \subseteq FailingCalls
<1>1. PICK ids, passed, miss, item :
        /\ ids = findings[k] /\ passed = Passed(k) /\ miss = missed[k] /\ item = items[k]
  OBVIOUS
<1>2. Told(ids, passed, miss, item) /\ passed = CallNames /\ Ids(k) = Named(ids)
  BY <1>1 DEF ToldInv, Passed, Ids, Named
<1>3. \A id : id \in ToBeTold(item, miss) <=>
               \E c \in CallNames \ miss : Needed(c, item) /\ id \in Shown(c, item)
  BY DEF ToBeTold
<1>4. \A id : id \notin Forgiven(item, miss) => (id \in Ids(k) <=> id \in ToBeTold(item, miss))
  BY <1>1, <1>2, <1>3 DEF Told
<1>5. Kind[item.inode] # "symlink" => miss \subseteq FailingCalls
  BY <1>1, <1>2 DEF Told
<1> QED
  BY <1>1, <1>4, <1>5

(* Whatever changes elsewhere in the tree while kls scans and asks, an     *)
(* item whose path nobody touched gets every finding that its own inode,   *)
(* or the text of its link, gives cause for in the questions that did not  *)
(* fail, and no other.  A link is broken or circular exactly if it is by   *)
(* the entries its text takes the kernel through, as long as nobody touches*)
(* these: what it leads to is looked up anew, and may be gone or replaced  *)
(* while the link stands.  The capabilities of what it leads to are open.  *)
THEOREM StandingItemsJudged == AnalysisSpec => []FindingsOfStandingItems
<1>1. ToldInv => FindingsOfStandingItems
  BY AllTold DEF FindingsOfStandingItems, ToBeTold
<1>2. AskedInv /\ ToldInv /\ [AnalysisNext]_kls => (AskedInv /\ ToldInv)'
  BY AnalysisSteps, AskedInvStep, ToldInvStep
<1>3. AnalysisInit => AskedInv /\ ToldInv
  BY AskedInvInit, ToldInvInit
<1> QED
  BY <1>1, <1>2, <1>3, PTL DEF AnalysisSpec
=============================================================================
