# TLA+ models of kls

`kls` walks a directory tree it does not control, records the metadata of what
it finds, runs a set of analyzers over the records and prints a coverage table,
a report and an exit status that other programs act on. It is one process with
one thread. What makes it hard is outside: every other process of the machine
may change the tree between any two of its system calls, every call may fail,
and descriptors run out; and its answer is trusted by someone who cannot see
what it missed.

This directory holds the models of that program, the TLC configurations that
check them on small instances, and the theorems that TLAPS proves of them for
instances of any size. Paths below are relative to the root of the repository's
source (`src/scanner/scanner.cpp`, `docs/kls.1`, ...). `PROJECT.json` maps every
definition to the lines it models.

## 1. Inventory

| Component | State | Operations | Interacts with |
|---|---|---|---|
| Parser, option table, validator (`src/cli/parser`, `src/cli/validator`, `include/kls/cli/spec`) | index into argv, `ParsedOptions`, `positional_set` | the loop of `parse` with its handlers, `validate` | returns options or an error to `main` |
| Scan options adapter (`src/cli/adapter/scan_options_adapter.cpp`) | none | `to_scan_options` | `ParsedOptions` to `ScanOptions`; `getcwd` |
| Scanner, discovery (`src/scanner/scanner.cpp`) | queue of directories, one descriptor for each, the stream and duplicate in use, candidates, issues, three counters | open root; then per directory dup, fdopendir, readdir...; per entry statx, openat, readlinkat | kernel; `UniqueFd` |
| Scanner, collection (`collect_metadata.cpp`, `orchestator.cpp`) | items | copy candidates to items, close every descriptor | output to the auditor |
| `UniqueFd` (`src/platform/unique_fd.cpp`) | `fd_` | construct, move, release, reset, destroy | scanner, health analyzer |
| Analyzers (`src/analyzers`) | none; they look paths up again | health, capability, symlink rules for each item | kernel, user database, finding registry |
| Finding registry, whitelist, ids (`include/kls/findings`) | constant tables | `get_finding`, `get_max_level_severity`, `is_known_path` | analyzers, output, renderer |
| Audit orchestrator and `main` (`src/audit/audit_orchestrator.cpp`, `src/kls-main.cpp`) | stage, exit status | scan, analyze, count, process, render, exit policy | everything |
| Coverage (`src/audit/coverage_aggregator.cpp`) | `CoverageReport` | one pass over the issues | scanner's issues and counters |
| Severity count (`src/cli/adapter/severity_count.cpp`) | one counter per level | count, `at_or_above` | findings, `--fail-on` |
| Output pipeline (`src/cli/adapter/output_processor.cpp`, `src/cli/spec/cli_spec_definition.cpp`) | the items, in place | five filters, three sorts, reversal | renderer |
| Renderer (`src/report`) | none | coverage table, report rows | identity resolver |
| Identity resolver (`src/platform/identity_resolver.cpp`) | two caches | `owners_name`, `groups_name` | user and group databases |
| Help, version, utilities | none | formatting, `Result` variant | |

What is hard, and what makes each part correct:

- **Scanner.** Entries come, go and move while their directory is read; a name
  means one object at `statx` and another at `openat`; each of eleven branches
  must settle the entry exactly once; every directory waiting in the queue
  costs a descriptor; no set of visited directories is kept. Correct when every
  entry found is one candidate or one issue, every directory is read or
  reported unread, no object that stood still is lost in silence, nothing is
  reported that never was there, links are not followed, descriptors all come
  back, and the walk ends.
- **Coverage and exit.** Twelve issue codes fall in seven rows. Correct when
  the rows add up to what was discovered, when a table without losses can be
  believed, and when the status depends on what was found and not on what the
  output options left to show.
- **Command line.** One index moves inside handlers and in the loop; one integer
  changes sign and width on its way. Correct when the command lines accepted
  are those of the grammar and what reaches the audit is consistent.
- **UniqueFd.** Numbers are reused: a stale one closes somebody else's file.
  Correct when every open descriptor has one owner.
- **Output.** Filters and stable sorts are composed, on items in an order the
  filesystem chose. Correct when no wanted finding is dropped, the order is the
  one asked for, and the order of discovery does not show through.
- **Analyzers.** They ask again by path, after the scan, about what may not be
  the recorded object any more; each of their calls may fail in the middle of a
  function that goes on; one of their opens can wait. Correct when an item
  nobody touched gets exactly the findings its own object gives cause for, when
  a failing call costs its own findings and no others, when an account that
  exists is not called missing, and when the analysis can wait only for what
  other processes put in its way.
- **Identities.** A cache outlives the account, a buffer grows until an answer
  fits, any other error is thrown. Correct when one account has one name in the
  whole report, and the names agree with the findings next to them.

## 2. Modules

| Module | What it is |
|---|---|
| `FileSystem` | external: the live tree and what other processes do to it |
| `Paths` | external: how the kernel finds what a path leads to; extends `FileSystem` |
| `Scanner` | `discover_entries`, `collect_metadata`, `orchestrator`; extends `Paths` |
| `Ledger` | abstract specification of discovery |
| `NameService` | external: the user and group databases |
| `Findings` | the finding registry: ids and levels |
| `Analyzers` | `analyze_entries`; extends `Scanner`, `NameService`, `Findings` |
| `Identity` | `IdentityResolver`; extends `NameService` |
| `Coverage` | `coverage_aggregator` and the table `render_coverage` prints of it, as operators |
| `Audit` | `main` from the scan to the exit status; extends `Analyzers`, `Identity`, `Coverage` |
| `UniqueFd` | the descriptor owner |
| `Cli` | parser, validator, special options, `to_scan_options` |
| `Output` | `process_output` and the rows of the report; extends `Findings` |
| `Induction` | lemmas: induction and recursion over the naturals |
| `ScannerProofs`, `WalkProofs`, `AnalyzersProofs`, `AuditProofs`, `OutputProofs`, `UniqueFdProofs`, `CliProofs` | theorems |
| `MC*` | small instances for TLC |

Each module contains, before the definition it varies, a few operators marked
*Mutant*: the same definition with a plausible error. No specification uses
them. They show of each property that it can fail: put in place of the
definition that follows, the property is violated under its own configuration.

### FileSystem, Paths and Scanner

An inode keeps its type; `dirent[d][n]` is what name `n` of directory `d` leads
to. Other processes create, remove, rename (atomically, replacing files and
empty directories) and change permissions, `MaxChanges` times at most. `past`
is a history variable: all values an entry has had since the audit began. The
model of the filesystem is only as rich as the code can tell: no data blocks,
no mount points. A directory has one name and the root none: `link` refuses
directories, so this is assumed of the trees an audit starts from
(`TreesAssumption`) and kept by every change. `Subtree` is what can be reached
from an inode, one name after the other (`Descent`).

A symbolic link keeps its text (`Text`) for life, and nothing else: what the
text leads to is found anew by every call that follows links. `Further` is one
lookup in the tree of the moment: a name of the directory arrived at, `.`, `..`,
or a link, whose text then takes the place of its name, from the directory it is
in or, if absolute, from `/` (`Slash`). `Resolution` goes on from lookup to
lookup, `LeadsTo` is the end: an inode, `NoInode` (`ENOENT`), `ENOTDIR`, or
`ELOOP` after `LinkLimit` links. `Lookups` bounds the number of components a
path can come to and is not a limit of the kernel. A link is thus broken,
repaired, redirected or made circular by changes of entries that are neither its
own nor on its own path.

Of the two ways to say that a path stands untouched, `Still` is about the path
itself, through directories only: every entry on it has led to the same inode
since the audit began. `WayStill` is about all that is looked up when links are
followed, the entries their texts pass through included.

`Scanner` has one action per system call. What the code does between two calls
cannot be observed by the rest of the machine and is part of the action of the
call before it; `World` may act between any two. `pc` is the next call:

| `pc` | code |
|---|---|
| `open` | scanner.cpp:79-112, root |
| `dup`, `fdopendir` | 127-162 |
| `readdir` | 164-185 |
| `statx` | 187-253 |
| `openat` | 255-300 |
| `readlinkat` | 302-326 |
| `discovered` | 371-373, then collect_metadata |
| `collected`, `failed` | what `orchestrator` returns |

Correspondence worth knowing:

- Sequences start at 1; `INVALID_REFERENCE` and 0-based indexes become
  positions. `directory_fds[k]` is the inode the k-th descriptor is open on.
- The code releases `DiscoveredOutput` after collection. The model empties
  `candidates` and the directory tables at `CollectMetadata`.
- An issue has one field more than in the code, `site`: `entry` when it settles
  a directory entry, `directory` when it is about reading a directory. It is
  used by properties only.
- `stream` is what POSIX says of `readdir`: entries that were there at
  `fdopendir` and stay are returned once (`must`); those that come or go
  meanwhile may be returned or not (`may`).
- In `openat` the kernel takes a descriptor number before it looks the name up,
  so that a process without descriptors gets `EMFILE` whatever the name is.
- `Faults` lists the failures the kernel may report whatever the tree holds,
  `partial_mask` (a statx without the fields asked for) and `long_target` (a
  truncated link text) among them.
- Metadata other than inode, type, link target and stability is abstracted: no
  branch of the scanner looks at it.

`Ledger` says what discovery promises about entries: one is found only when
the one before is settled, it is settled once, as reported or as rejected,
nothing is taken back, and the ledger closes settled. `KeepsLedger` is the
refinement: `found` is `discovered_count`, `reported` the candidates or items,
`rejected` the issues of site `entry`.

### NameService, Findings and Analyzers

`NameService` is the databases of accounts behind `getpwuid_r` and
`getgrgid_r`: which accounts exist (`known`), how much room the record of each
takes, which lookups may fail. Accounts come and go `MaxAccountChanges` times.
`ResizeBuffer` is `ERANGE` and the second attempt, with twice the buffer.
`lost` and `failed` are history variables.

`Findings` is the registry: the 47 ids and their levels. An id stands for the
finding, wording aside.

`Analyzers` runs over the items of a finished scan, one action per system call
or lookup; other processes may act before each. `at` is the item, `call` the
next question:

| `call` | code |
|---|---|
| `idle` | the scan is not over |
| `record` | the rules that look at the recorded metadata only |
| `getpwuid`, `getgrgid` | health_analyzer.cpp:71-109, orphaned owner and group |
| `flags` | 126-141, open with `O_NONBLOCK` and `FS_IOC_GETFLAGS` |
| `redundant` | 203-208, `getxattr` for a setuid file |
| `content` | 210-235, open without `O_NONBLOCK`, and the first bytes |
| `capability` | capability_analyzer.cpp, `getxattr` and the two masks |
| `stat` | symlink_analyzer.cpp, the target of a link |
| `asleep` | that second open or its read waits for a pipe or a terminal |
| `analyzed` | `analyze_entries` has returned |

- A question is left out exactly where the code leaves it out (`Needed`).
  `Proceed` goes to the next one needed, or the next item.
- `Where` is what the item's path leads to now, links followed; `Opens` whether
  `open` would succeed. Paths are resolved from the directory audited, in the
  tree of that moment.
- What the properties expect of an item is its own (`Shown`): of a link, what its
  own text shows and where that leads. `Forgiven` names what does not follow from
  that: orphans, which are a matter of the databases; the capabilities of a
  link, which are those of another file; whether a link is broken or circular
  when an entry its text passes through was touched; and what is raised by calls
  that failed.
- The tree changes, the metadata of an inode (`attr`) does not: what changes is
  what a path leads to. Modes, times, capabilities, contents and link texts are
  as rich as the rules can tell apart.
- The findings that need no call come first in an item's list. In the code some
  are raised between two calls; nothing but the order of a column depends on it.
- `missed[k]` is a history: the questions that failed for item k.

### Identity, Coverage and Audit

`Identity` has both caches. A name is asked for once and then cached, also when
the account is unknown. Which name it is is left out; whether there is one is
what the findings next to it speak of. `Throws` is the `system_error` for any
lookup error but `ERANGE`.

`Coverage!Counter` gives the row an issue is counted in, `CoverageAggregator`
the report, `RenderCoverage` what is printed of it.

`Audit` is a whole run: scan and analysis (`orchestrate`), or `FailFast`; then
the count of findings and of coverage before `ProcessOutput` drops items from
the same object (any subset, in `Audit`; what subsets and orders there are is
`Output`'s matter); then one `StartRow` and two lookups, in either order, per
row shown; then the exit policy. Nothing catches what `Throws` throws:
`RenderAborts` ends the run with the status of `SIGABRT`, in the middle of a
row. Accounts may come and go between rows.

### UniqueFd

Objects hold a number; the caller holds plain numbers as well, those `open`
returned and those `release` gave back. The kernel gives out the lowest free
number, so that a closed number soon is somebody else's. The caller passes to
`reset` and to the constructor only descriptors it holds, as every use in the
repository does.

### Cli

A word of the command line is its text up to the first `=` and, for a long
option, what follows. Texts are classes: what the parser asks of one (is it an
integer, does it fit, is it a date, a severity, empty) is membership in a set.
One action per turn of the loop; then `Validate`, `SpecialOption`,
`ToScanOptions`. `SizeMax` stands for the largest `size_t`: the cast of a
negative depth is taken modulo `SizeMax + 1`.

The properties compare with the grammar of the manual, which knows no index:
`Reading` gives each word its role from the role of the word before (a value if
an option that takes one comes before, unread after the word behind `--`,
and so on).

### Output

Names, extensions, sizes and times are numbers in their order, types have the
values of `FileType`. `EraseIf` and `StableSort` are both `Arranged(s, K, R)`:
the positions `K` of `s`, each in the place that the number of those before it
in the order `R` gives it. `Filter`, `Sort`, `ReverseItems` and `Render` are the phases of
`process_output` and `render_report`; each applies the options given in the
order of the code. A date that passed `is_valid_date` has nothing after the day
(`DateText`), which is what `ParseDate` trips over.

## 3. Runs

Runs that pass:

| Run | Instance | Question |
|---|---|---|
| `scan_quiet` | every tree of up to three levels over seven inodes and three names (one hidden), all options, depths 0, 1, 9 | is the result the tree? `NothingStandingIsMissed` compares with a reference definition (`Standing`); `BreadthFirst` |
| `scan_races` | nested directories, a file, a link and a second directory, two changes anywhere, a refused directory or none | do changes make the scanner lose, invent, follow or repeat anything, break the ledger, or run forever? |
| `scan_faults` | siblings with children, every failure of every call, 1 to 5 descriptors | is every entry, directory and descriptor accounted for on every error path? |
| `analysis` | four trees: a file below a directory; a file with a link to it; a link out of the tree by an absolute text, with a link to that link; a link to itself, with a link through `..`. The file of six sorts (plain; setuid; setuid and setgid that nobody may run, its owner gone; with capabilities and flags; setgid, sticky and with a capability of unknown revision; setgid and not executable). Outside the tree audited a pipe and a file unlike it. One change of any entry; lookups, reads and stats that fail | does an item nobody touched get its own findings and no others; is a link that stands broken or circular exactly when its text, followed in the tree, is; are orphans orphans, is anything said twice, can the analysis be made to wait by a tree left alone, does it end? |
| `audit` | whole runs: nested directories, faults, 1, 2 or 4 descriptors, a change of the tree, an account that goes or a lookup of it that fails, root errors, a name that is a pseudo filesystem, `--fail-on` or none, findings below and at it, any subset shown | do the rows add up; can a table without losses be believed; does status 5 depend on the findings only; do the names in the report agree with one another and with the findings? |
| `unique_fd` | 3 objects, 4 numbers | has every open descriptor one owner after any sequence of calls? |
| `cli` | every command line of up to 3 words | does the parser accept the grammar, word for word, and is what it lets through consistent? |
| `output` | sequences of up to 4 of 5 items with ties in every key; all ways to filter, all ways to sort | are the wanted findings shown; do three stable sorts compose into one lexicographic order, under every criterion the code sorts by; is the report independent of the order of discovery when names differ? |

Runs that find a disagreement between the code and what its documents say of it:

| Run | Finding |
|---|---|
| `analysis_mixed` | a link put in the place of another between statx and readlinkat: one item, marked stable (collect_metadata.cpp:30), with the identity of the one and the text of the other, where audit_entry.hpp:50 says "Identity verified consistent across all operations" |
| `analysis_causes` | a lookup that fails is taken for a missing user (health_analyzer.cpp:85), where THREAT-MODEL.md:256 asks to "Separate resolution failure from nonexistent identity." |
| `audit_incomplete` | a directory cannot be opened and what is in it is lost: the status is 0, where kls.1:88 says 3 (kls-main.cpp:138), and the table printed shows no loss, for it has no row for what was skipped (render_coverage.cpp:18), where CONTRIBUTING.md:31 says "Coverage failures must not be hidden." |
| `output_options` | `--modified-before` and `--modified-after` never filter anything (cli_spec_definition.cpp:41), and `--sort findings` sorts nothing (line 145), where kls.1:43 and kls.1:60 promise both |

Two of these properties have parts that the trace TLC prints does not show, and
that are violated as well when they are checked alone:

- `StableMeansOneObject`, for findings: the analyzers ask by path again and
  compare no identity (audit_entry.hpp:45-47 asks them to), so that a setuid file
  replaced meanwhile has its own mode findings and another file's flags, content
  or capabilities; and a link has the capabilities of what it leads to
  (capability_analyzer.cpp:32), where ARCHITECTURE.md:343-344 says "Inspect the
  link itself." and "Do not follow its target."
- `FindingsHaveTheirCause`: the group lookup likewise (health_analyzer.cpp:106);
  a file whose read fails is reported as one of no known format, SU16, at the
  highest level (line 232); SU03, "SUID bit set on non-executable file", is raised
  for a file without that bit (line 251).

More disagreements were met while modelling and have no run of their own. The
models do what the code does in each case.

- Scan and coverage. An entry whose statx fails for another reason than a
  refusal is in no row of the table (coverage_aggregator.cpp:17; `Uncounted`
  is the correction in `CoverageAddsUp` and `LosslessMeansComplete`), where
  ARCHITECTURE.md:145 wants every skipped object recorded.
- Pseudo filesystems. The prefixes end in a slash and the path of the directory
  does not (scanner.cpp:248): `kls -r /` enters `/proc`, `/dev`, `/run` and
  `/sys` themselves and excludes only what is below them, where the comment in
  lines 243-244 speaks of preventing traversal.
- Command line. A negative `--depth` is accepted and becomes a limit near 2^64
  (scan_options_adapter.cpp:33), that is, none, where kls.1:37 says "Limit
  recursion depth". Words after `-- target` are not looked at
  (cli_parser.cpp:266), where a second target is otherwise refused and kls.1:6
  has one.
- Output. `--dirs-first` replaces the order of `--sort` by that of the names
  (cli_spec_definition.cpp:161).
- Links. SY03, a target outside of what is audited, is raised for a target
  that is the directory audited, written without a slash at its end
  (symlink_analyzer.cpp:29), and is not for one that leaves it through `..`.
- Places. When the directory audited is given relative to the current one, no
  path starts with `/`: the tests of `/tmp`, `/home`, `/dev` never hold, and
  every setuid file is in an unknown place (SU04). `RootIsAbsolute` is the
  switch.
- Failures. Where the findings take a failed lookup for a missing user, the
  report's own lookup throws instead, and the status 5 of `--fail-on` is lost
  with the rest of the report.
- Registry. SU15, SU23 and SU24 are registered and never raised. SU08, SU11,
  SU22 and SG02 are raised for files without the bits their ids are named for.
  SU03 is raised twice for a file with both bits that nobody may run
  (`RepeatedFindings` has it as its one exception).

Some properties of passing runs leave room where one of these is at work:
`OrphanVerdicts` for failed lookups, `RepeatedFindings` for SU03, `Forgiven` for
the capabilities of links and what failed calls leave to be raised
(`analysis_causes` and `analysis_mixed` are about these), `SortsCompose` for the
criterion findings (`output_options`), `ParserMatchesGrammar` for unread words
and `CliTypeOK` for negative depths (the item above).

### Bounds, and why they are enough

- `MaxChanges = 2` in `scan_races`: the races of this code are between two
  calls on one name (`statx`/`openat`, `statx`/`readlinkat`,
  `readdir`/`statx`), which one change exposes; a rename away and back, or a
  removal and a link put in its place, takes two. A third would be needed only
  for two independent races in one entry, and the entry is settled on its own.
- `MaxChanges = 1` in `analysis` and `audit`. An analyzer's questions are
  independent of one another, each by path and from the root: what matters is
  that a path leads somewhere else from some question on. The directory `x`,
  outside of the tree audited, holds a pipe and a file that differs from the
  audited one in everything asked by path, so that one rename suffices to put
  either in its place.
- `LinkLimit = 2` in `analysis`, where the longest way that ends passes two
  links and the circle goes on to a third; texts have up to two components. The
  tree is audited as `/b`, so that `/a` and `../a` lead out of it, to names that
  others may take, move and remove like any.
- `MaxAccountChanges = 1` in `audit`, with two items that share their owner:
  the account goes between the analysis and a row, or between two rows.
  0 in `analysis`, where each account is asked for by each item: one that
  exists and has a long record, one whose lookup may fail, one that is gone.
- The record of one account is larger than the first buffer, so that `ERANGE`
  occurs, and that of the other is not.
- Trees have three levels, so that a directory is below one that is below the
  root, and at most two or three names: the queue holds two directories at
  once, a hidden name and a visible one stand side by side.
- Descriptors run from 1, which does not suffice for the root, to 5, which is
  just enough for the tree of `scan_faults`; every shortage falls in between.
  `audit` has none for the root, one too few, and enough.
- `MaxItems = 4` of 5 in `output`: ties among two items with others on either
  side, and both directories present.
- Three words in `cli`: an option, its value, and one word more, which is the
  longest context the parser looks at; `--` needs two.
- `SizeMax = 65535` keeps the modulus visible to TLC; the theorems are for any.
- `MaxFd = 3` with three objects lets a number be closed and given out again
  while all objects exist.

`CHECK_DEADLOCK` is left on everywhere: each specification has an explicit
action for the program being over.

### Fairness

Two specifications state fairness, both of the process itself, which keeps
being scheduled and whose system calls return: `FairSpec` is
`WF_vars(ScannerStep)`, `FairAnalysis` is `WF_kls(KlsStep)`. The other processes
(`World`, `Meanwhile`) get none, and neither has `Awaken`: nobody is obliged to
open the other end of a pipe. Hence `AnalysisEnds` allows a run to stay asleep,
and `SleepsOnlyIfDisturbed` says when it can come to that. `Terminates` and
`AnalysisEnds` hold with the bounded number of changes; with endless changes
the scan need not end, and the code has nothing that would make it (no limit on
entries, no set of visited directories).

## 4. Proofs

All theorems are for any constants that satisfy the assumptions next to their
declarations, hence for any tree, any number of changes, any limits. Every
invariant and every action property of a run that passes is a theorem, and so
is the refinement of `Ledger`.

**Induction.** The library's induction theorems take an operator as a
parameter, which the provers cannot instantiate. `SetInduction` has a set
instead, of the numbers with the property, and `RecursionOnNat` a function from
each number to a step: whatever the steps are, there is a function on `Nat`
that follows them (`IterationOnNat` if each step is the same). With it a definition
`f[k \in Nat] == ...` can be unfolded
(`ResolvedUnfolds`, `DescentUnfolds`, `RaisedUnfolds`, `ReadingUnfolds`,
`StandingLevels`) and what it computes be proved by induction.

**ScannerProofs.** `TypeCorrect`, `EntriesAccountedFor`,
`DirectoriesAccountedFor`, `DescriptorsSafe`, `DupSafe`, `ScannerKeepsLedger`.

- `TypeOK` is not inductive: closing a stream subtracts from `dup_fds`, and
  `openat` uses what statx found. `Shape` adds that one duplicate is held
  exactly while a directory is read (`OneStream`), and that the calls after
  statx have an inode in hand (`StatxDone`).
- `Books` is `Shape` with both accounting invariants, and with the directory
  tables empty before the root is opened. Each action moves one entry or one
  directory from a column to another; the lemmas on `IssuesAt` say that an
  issue added counts once, in its own column.
- `DescriptorInv` adds `Handles`: what the number of descriptors is at every
  `pc` in terms of the limit. That `dup` fails only for the root needs the
  observation that any later directory was opened while one descriptor more was
  in use.
- `ScannerKeepsLedger` maps every step to a step of `Ledger` or to a stutter,
  from `Books`.

**WalkProofs.** `NothingIsInvented`, `LinksStayClosed`, `LevelByLevel`,
`NothingLost`, `NoneReadTwice`.

- The first two come from `SourceInv`. What a candidate says of a directory is
  true of some time of the audit, and so the history of the tree has to be
  tied to it: `Remembered` (the history holds what is there now, and only
  grows), `Reading` (the record in hand names a directory that is held, with
  its path), `Seen` (the inode statx gave is in the history under the entry's
  name), `DirectoriesOpen` (every descriptor held is on a directory). That a link
  put in a directory's place after statx is not followed is the `O_NOFOLLOW` of
  `openat`: it opens what the name leads to then, which is in the history, or
  nothing.
- `LevelInv` orders the queue: it holds the level being read and then the next
  (`Levels`), a directory's display path is as long as its depth says
  (`AtItsLevel`), and a directory is opened below `maximum_depth` only.
- `NothingLost` needs to say, in the middle of the walk, where an entry that
  stands has got to. `Kept`: every such entry of a directory that was opened is
  still to come (its directory is `Waiting`, or the entry `Unreturned` by the
  stream) or is `DealtWith`, that is, reported, opened if it is to be, or covered
  by an issue on its path. `Closed` and `Reason` carry this over
  `CollectMetadata`, where the tables it speaks of are emptied. The reference
  definition `Standing` descends level by level, and so does the proof that each
  level is accounted for (`StandingAccounted`).
- `TracedInv` ties paths to inodes: the path of every directory and item leads
  to it as long as the path stands still (`Reaches`). The proofs about the
  analyzers start from it.
- `NoneReadTwice` rests on `OpenedByInv`. `OpenedBy(o)` gives each directory the
  position of its parent and the name it was opened by, under which the history
  has it. Two are opened by one entry only if that entry changed: a stream returns
  a name once unless it changed (`ReturnedOnce`), the queue holds a directory
  once (`QueueOfDifferent`), and what may still be opened (`MayOpen`) only shrinks
  (`FewerToOpen`). That an inode read twice has something moved at or above it
  (`TwiceMoved`) is by induction on the later of the two readings: if nothing
  moved, both are of the one name it has, in directories that are one inode read
  twice, earlier. That `Subtree` is closed takes counting inodes
  (`SubtreeClosed`): a descent that finds nothing new in one step finds nothing
  ever after, and it can find something new only as often as there are inodes.

**AnalyzersProofs.** `AnalysisTypeCorrect`, `NoFindingTwice`, `OrphansJudged`,
`SleepNeedsInterference`, `StandingItemsJudged`, of `AnalysisSpec`.

- Rules. `Raised` is unfolded once (`RaisedUnfolds`) and gives, for a list of
  rules, ids that are theirs, in their order, and all of those that apply
  (`RaisedFrom`). `Proper` says of a set of rules what the rest needs: ids of one
  set, none of which holds twice. Lemmas show it for each set of rules, and `Brings` what any
  answer can add to an item's findings.
- Questions. `Answer` is what all questions have in common: findings are added
  to the item in hand, or the question to its failures. `Proceeds` says which
  questions were passed over by going on, and that none was needed.
- `AnalysisInv` and `FindingsInv` give the first three theorems. `InOrder` says
  that the ids an item has are those of questions already asked, which is what
  keeps a second answer from repeating one; `Judged` ties the orphan ids to the
  history of the databases.
- Ways. `FurtherSteps` is what one more lookup can come to, `ResolutionUnfolds`
  that a way is one lookup after the other. `DirectWay`: a path through
  directories leads where its names do, and the links it passes are none. What
  the histories say of now they say of before (`UnmovedBefore`, which for `..` is
  why a directory has to have one name, `OneName`): a way that stands still was
  still before the last change, and led to the same (`WayBefore`).
- `AtItems` has the path of every item lead to its inode as long as it stands
  still, and `Asked` has the question in hand be one that is needed. Hence an
  open that can wait is of a setuid file by its record, and of another object by
  its path (`SleepNeedsInterference`).
- `StandingItemsJudged` is by `ToldInv`: an item that stands has, of each
  question passed (`Told`), exactly the findings its own object gives cause for,
  or the question among its failures, up to what is `Forgiven`. `StandingAnswer`
  proves it of each question from the calls it makes. That it lasts takes more
  than the item's own path: a change elsewhere may break a link that stands, and
  then its way no longer stands still, and what depends on it is forgiven from
  there on (`Lasting`, `LinkStays`).

**AuditProofs.** `CoverageTableAddsUp`, `NamesAgree`, `LosslessIsComplete`,
`FindingsMatchNames`, `AuditTypeCorrect`, `FailOnSeesAll`, of `AuditSpec`.

- `ScanOrAfter`: every step of a run is a step of the scanner, or a change of
  the tree after it, and leaves the metadata alone. The scanner's books
  (`Books`) hold through it, and after the scan nothing they speak of moves
  (`ScanFrozen`).
- `Balance` is the arithmetic: the six counters of the report, with what was
  excluded and what is in no row, are the issues of both sites. It is proved
  issue by issue: one more issue is one more in one column (`IssueCounted`).
- `Tabled` says that the report is the aggregator's, of what the scan ended
  with; that is what `ProcessOutput` could spoil by dropping items first.
- `LosslessIsComplete` joins that with `NothingLost`: when no row has a loss,
  the issue that would excuse a missing entry is not there (`NoLoss`).
- `Cached` says that every name in a row is the cache's, and `CacheGrows` that
  the cache never changes its mind; two rows of one owner therefore agree.
  `NamesInv` ties the cache to the history of the databases, and
  `FindingsMatchNames` meets there what `OrphansJudged` says of the findings.
- `Staged`: `main` goes on only when the analysis has ended, so that the
  findings counted are the findings there are. `MainInv` says that the counts are
  those of the findings before any was left out, which is what the exit status
  and `AuditTypeCorrect` rest on.

**OutputProofs.** `AskedForIsShown`, `OneOrder`, `ReportIsOfTheItems`, for any
items, patterns and levels.

- `Ranking` is the heart: ranks by a strict total order on a finite set of
  positions are 1 to their number, each once. `ArrangedPlaces` says of
  `Arranged` that it moves each element kept to one place, and in that order.
- A filter leaves the items it does not drop, in their order (`Erased`,
  `Pruned`); the five together leave `Chosen`. A stable sort by a key makes the
  order it finds finer by that key (`StablySorted`, `Finer`); the three together
  make one lexicographic order whose last key is the place of discovery
  (`SortPhaseAscends`, `OneOrder`).
- A set of items ascends in one way only (`OneAscending`). If names differ the
  last key decides nothing (`NamesDecide`), and so the report is the same for
  any order of discovery (`ReportIsOfTheItems`).

**UniqueFdProofs.** `DescriptorTypeCorrect` and `EveryDescriptorOwned`, which are
inductive together, and `OnlyOwnersClose`, the action property, from them. For
any number of objects and descriptors.

**CliProofs.** `CliTypeCorrect`, `AuditedConsistently`, `ParserIsGrammar`, for
any set of command lines of any length.

- `CliInv` adds to the types that values in hand were accepted by `set_value`
  (`Accepted`) and that what `validate` established still holds afterwards
  (`Validated`).
- `ParserIsGrammar` is by `ParseInv`: at every turn of the loop the index stands
  at a word where the grammar begins something new, the words before it are as the
  grammar wants them, and options and target are `Understood`: what the grammar
  makes of these words, the last use of an option winning. Each handler is then
  one or two words of the grammar (`FlagRead`, `ValueRead`, `TargetRead`,
  `RestUnread`), or a refusal at a word where the grammar has nothing (`Refusal`).

Only model-checked: `Terminates` and `AnalysisEnds`. Liveness under fairness and
`ENABLED` are out of the prover's reach. The properties of the runs that
find a disagreement are false of the code and have counterexamples instead.

## 5. Not modelled, and why

- Text: messages, widths, help and version, the table of findings, the
  percentage below the coverage table. No property is about it.
- `result.hpp` and `transparent-hash.hpp`: a variant of two structs and a
  functor; neither has state.
- `fnmatch`, `std::erase_if`, `std::ranges::stable_sort`, `readdir`, `statx`,
  the resolution of paths, the kernel's descriptor table and the name service
  are external and modelled by what the code relies on.
- The way from `/` down to the directory audited, which is taken to stand still:
  paths are resolved from `Root`, an absolute text that starts with `RootRoute`
  goes on from there, and any other from `Slash`, whose entries are as free to
  change as those of other directories. A directory without a name hangs under
  `Slash`: that is where its `..` leads.
- Search permission on the way of a path. A directory whose mode forbids search
  makes a lookup fail with `EACCES`; `stat` and `open` may fail for other reasons
  in the model (`FailingCalls`), and no finding tells these apart.
- Changes of an inode's metadata or contents during a run. The scan records
  metadata once and the rules judge the record; what a later call reads of
  another inode is modelled.
- Memory exhaustion, signals and threads: the code handles none of them.
- `SymlinkMode::traverse_target`, `entry_identity_changed`,
  `invalid_discovery_reference`, `ObjectIdentity::matches` and
  `type_from_dirent` are declared and never used; the models keep the names of
  the two issues because `main` and the coverage table test for them.

## 6. Reading order

`FileSystem`, `Paths`, `Scanner` down to `Next`, `Ledger`, the properties of `Scanner`,
`MCScanner`; then `NameService`, `Findings`, `Analyzers`; then `Identity`,
`Coverage`, `Audit`. `UniqueFd`, `Cli` and `Output` stand alone.

Of the proofs `UniqueFdProofs` is the shortest. `Induction` comes before the
long ones; then `ScannerProofs`, `WalkProofs`, `AnalyzersProofs`, `AuditProofs`,
each of which uses lemmas of those before it. `CliProofs` and `OutputProofs` need
`Induction` only.

## 7. Plan

What is left, in the order of what it would add:

1. `Cli` in front of `Audit`, and `Output` in place of its arbitrary subset,
   for the exit status of a whole run from its command line on.
2. An abstract specification of a whole run, of what one who reads the table,
   the report and the status may conclude, implemented by `Audit`. The theorems
   on coverage, findings and status are its parts.
3. A measure that every step of the scanner lowers while nobody changes the
   tree: the part of `Terminates` that is a safety property and could be proved.
