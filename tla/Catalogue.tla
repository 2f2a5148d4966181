----------------------------- MODULE Catalogue -----------------------------
(***************************************************************************)
(* The catalogue of mutants and what a run selects of it: the modules of a *)
(* tree (internal/discover/workspace.go), the rules (mutation/rule.go,     *)
(* operatorselect), the catalogue built from the discovered candidates     *)
(* (mutation/catalog.go), the lines git says changed (internal/gitdiff),   *)
(* the selection by mutant id and by changed lines (engine/selection.go),  *)
(* and the listing (internal/cli/list.go).                                 *)
(*                                                                         *)
(* A file is a sequence of lines and a line is a number, never used twice; *)
(* Sites says which lines hold a candidate.  A path is a directory and a   *)
(* name, and "." is no directory.  The user edits the tree while git is    *)
(* asked and before the snapshot is taken.  Discovery of the sites of a    *)
(* file is module Discover's, shards are module Pipeline's; SHA-256 is a   *)
(* number of IDLength bits, and identities do not collide as a whole.      *)
(***************************************************************************)
EXTENDS Integers, Sequences, FiniteSets, SequencesExt

CONSTANTS
  Locations,    \* the files under the root: <<directory, name>>
  Names,        \* every string that is compared, in its order
  PrintedAs,    \* name -> how a diff header spells it
  ModAt,        \* directory -> the module path its go.mod declares, or ""
  Asks,         \* the command lines: [command, changed, prefix]
  Registry,     \* the rules in their canonical order: [family, name, tier]
  Sites,        \* [line, over, from, to, rule, repl]
  HeaderLike,   \* lines that read as a diff header once a + is before them
  Decoy,        \* the path such a line names
  Unended,      \* lines that no newline ends
  Setups,       \* the repositories the command may meet:
                \*   base, tracked, tree: the commit, the index, the files
                \*   work: the go.work file, [there, uses, replaces]
                \*   cfg: the configuration, [tier, operators, excluded]
                \*   upstream: whether the branch has one
  Edits,        \* what the user may write: <<location, content>>
  MaxEdits,     \* bound: edits during the run
  IDLength, DisplayLength,   \* bits of an id and of its short form
  Hash(_)       \* identity -> the number SHA-256 makes of it

Absent == <<>>
NoPath == <<"", "">>
NoRef == "none"

VARIABLES
  asked,    \* the command line
  repo,     \* the repository and its configuration
  edits,    \* edits so far
  at,       \* where the command is
  modules,  \* DetectWorkspace's answer
  changed,  \* gitdiff.Changed: [ref, files], and the untracked files listed
  snap,     \* the snapshot
  moved,    \* whether the tree was edited after the diff and before the snapshot
  catalog,  \* [found, mutants, duplicates, rejected]
  chosen    \* the mutants selected, or the rows listed

catalogueVars ==
  <<asked, repo, edits, at, modules, changed, snap, moved, catalog, chosen>>

Rank(s) == CHOOSE i \in DOMAIN Names : Names[i] = s
PathRank(p) == <<Rank(p[1]), Rank(p[2])>>
Below(x, y) ==
  \E i \in DOMAIN x : x[i] < y[i] /\ \A j \in 1..(i - 1) : x[j] = y[j]

\* The members of a set that Lt orders, as slices.SortFunc leaves them.
InOrder(S, Lt(_, _)) ==
  [i \in 1..Cardinality(S) |-> CHOOSE x \in S : Cardinality({y \in S : Lt(y, x)}) = i - 1]

-----------------------------------------------------------------------------
(* The modules of the tree *)

Refusal == <<[dir |-> "refused", path |-> ""]>>

\* DetectWorkspace and workspaceModules: the module of each use line, in the
\* order of the directories, none of them twice, outside or without a go.mod;
\* checkReplacements.
DetectWorkspace(work) ==
  IF ~work.there THEN <<>>
  ELSE LET dirs == ToSet(work.uses)
           bad == \/ work.uses = <<>>
                  \/ \E d \in dirs : d \notin DOMAIN ModAt \/ ModAt[d] = ""
                  \/ Len(work.uses) # Cardinality(dirs)
                  \/ \E d, e \in dirs : d # e /\ ModAt[d] = ModAt[e]
                  \/ \E r \in work.replaces : r \notin DOMAIN ModAt
       IN IF bad THEN Refusal
          ELSE LET sorted == InOrder(dirs, LAMBDA a, b : Rank(a) < Rank(b))
               IN [i \in DOMAIN sorted |-> [dir |-> sorted[i], path |-> ModAt[sorted[i]]]]

\* The results discoverTree and discoverCatalog go through: one module at the
\* root, whose candidates name none, or the modules of the workspace.
Discovered == IF modules = <<>> THEN <<[dir |-> ".", path |-> ""]>> ELSE modules

\* The files of a module: those of its directory, and at the root those of
\* every directory that is no module of its own.
FilesOf(m) ==
  {l \in Locations : \/ l[1] = m.dir
                     \/ m.dir = "." /\ ModAt[l[1]] = ""}

\* A candidate's path is relative to its module.
RelTo(m, l) == IF m.dir = "." THEN l ELSE <<".", l[2]>>

-----------------------------------------------------------------------------
(* The rules *)

\* Registry.Position
Position(name) == CHOOSE i \in DOMAIN Registry : Registry[i].name = name

\* operatorselect.Resolve: a family, or a rule.
Resolve(name) ==
  LET family == {i \in DOMAIN Registry : Registry[i].family = name}
  IN IF family # {} THEN family ELSE {i \in DOMAIN Registry : Registry[i].name = name}

\* operatorselect.Select: the named operators decide, whatever the profile.
UnknownOperator(cfg) == \E i \in DOMAIN cfg.operators : Resolve(cfg.operators[i]) = {}

SelectRules(cfg) ==
  {Registry[i].name : i \in {j \in DOMAIN Registry :
     IF cfg.operators = <<>> THEN Registry[j].tier <= cfg.tier
     ELSE \E k \in DOMAIN cfg.operators : j \in Resolve(cfg.operators[k])}}

-----------------------------------------------------------------------------
(* The candidates and the catalogue *)

\* Discover, for one module of the snapshot: the sites of the selected rules
\* in the files the patterns leave, as Located candidates.  A pattern is
\* matched with the path from the workspace's root (discovery.selection).
Candidates(m) ==
  {[module |-> m.path, path |-> RelTo(m, l), rule |-> s.rule,
    span |-> <<10 * i + s.from, 10 * (i + s.over) + s.to>>,
    original |-> <<s.line, s.over, s.from, s.to>>, repl |-> s.repl,
    source |-> snap[l], line |-> i, at |-> l] :
     <<l, s, i>> \in UNION {UNION {{<<k, t, j>> : j \in {h \in DOMAIN snap[k] : snap[k][h] = t.line}} :
        t \in {u \in Sites : u.rule \in SelectRules(repo.cfg)}} :
        k \in FilesOf(m) \ repo.cfg.excluded}}

\* Identity.ID, without what locates the candidate.
Identity(c) == [module |-> c.module, path |-> c.path, rule |-> c.rule, span |-> c.span,
                source |-> c.source, original |-> c.original, repl |-> c.repl]
ID(c) == Hash(Identity(c))
Prefix(id, n) == id \div (2 ^ (IDLength - n))

\* compareEntries; sortedCandidates compares the same keys within a module.
EntryBelow(x, y) ==
  Below(<<Rank(x.module)>> \o PathRank(x.path) \o x.span \o <<Position(x.rule), Rank(x.repl)>>,
        <<Rank(y.module)>> \o PathRank(y.path) \o y.span \o <<Position(y.rule), Rank(y.repl)>>)

\* Builder.Add refuses a candidate that contradicts one it holds.
Contradicts(b, c) ==
  \/ (b.module = "") # (c.module = "")
  \/ b.module = c.module /\ b.path = c.path
     /\ \/ b.source # c.source
        \/ b.span = c.span /\ b.original # c.original

\* MUTANT: two modules' files of one path are one file.
EffectOfThePath(c) == <<c.path, c.span, c.repl>>
\* dedupKey
Effect(c) == <<c.module, c.path, c.span, c.repl>>

\* dedup: the first of an effect wins.
Dedup(sorted) ==
  LET Take(acc, c) ==
        LET same == {i \in DOMAIN acc.kept : Effect(acc.kept[i]) = Effect(c)}
        IN IF same = {} THEN [acc EXCEPT !.kept = Append(@, c)]
           ELSE LET w == acc.kept[CHOOSE i \in same : TRUE]
                IN [acc EXCEPT !.dropped = Append(@,
                      [dropped |-> c, winner |-> ID(w),
                       reason |-> IF w.rule = c.rule THEN "identical" ELSE "shadowed"])]
  IN FoldLeft(Take, [kept |-> <<>>, dropped |-> <<>>], sorted)

\* assignDisplayIDs
Collides(mutants) ==
  \E i, j \in DOMAIN mutants : i # j
    /\ Prefix(ID(mutants[i]), DisplayLength) = Prefix(ID(mutants[j]), DisplayLength)

\* Catalog.ResolvePrefix
Matches(mutants, prefix) ==
  {i \in DOMAIN mutants : Prefix(ID(mutants[i]), prefix.length) = prefix.value}

-----------------------------------------------------------------------------
(* git, as the code asks it; `git -C root ... -- .` names paths under the root *)

PosOf(s, x) == CHOOSE i \in DOMAIN s : s[i] = x

\* The diff of one file without context: what is between two kept lines is a
\* hunk, and an added line follows its header as text.
Hunks(old, new) ==
  LET kept == SelectSeq(new, LAMBDA x : x \in ToSet(old))
      From(k, s) == IF k = 0 THEN 0 ELSE PosOf(s, kept[k])
      To(k, s) == IF k = Len(kept) THEN Len(s) + 1 ELSE PosOf(s, kept[k + 1])
      Added(k) == To(k, new) - From(k, new) - 1
      Removed(k) == To(k, old) - From(k, old) - 1
      Text(k) == [i \in 1..Added(k) |->
                    IF new[From(k, new) + i] \in HeaderLike
                    THEN [kind |-> "target", path |-> Decoy] ELSE [kind |-> "text"]]
      Hunk(k) == IF Added(k) = 0 /\ Removed(k) = 0 THEN <<>>
                 ELSE <<[kind |-> "hunk", count |-> Added(k),
                         first |-> From(k, new) + IF Added(k) > 0 THEN 1 ELSE 0]>> \o Text(k)
  IN FlattenSeq([k \in 1..(Len(kept) + 1) |-> Hunk(k - 1)])

\* A name that needs it is spelled in a way of its own in the header.
Printed(l) == <<l[1], PrintedAs[l[2]]>>

GitDiffText(r) ==
  LET order == InOrder(Locations, LAMBDA a, b : Below(PathRank(a), PathRank(b)))
      New(l) == IF l \in r.tracked THEN r.tree[l] ELSE Absent
      Of(l) == IF r.base[l] = New(l) THEN <<>>
               ELSE <<[kind |-> "file"],
                      [kind |-> "target", path |-> IF New(l) = Absent THEN NoPath ELSE Printed(l)]>>
                    \o Hunks(r.base[l], New(l))
  IN FlattenSeq([i \in DOMAIN order |-> Of(order[i])])

-----------------------------------------------------------------------------
(* internal/gitdiff *)

\* Merge
Merge(ranges) ==
  LET Join(out, r) ==
        IF out # <<>> /\ r[1] - 1 <= Last(out)[2]
        THEN Front(out) \o <<<<Last(out)[1], IF r[2] > Last(out)[2] THEN r[2] ELSE Last(out)[2]>>>>
        ELSE Append(out, r)
  IN FoldLeft(Join, <<>>, SortSeq(ranges, Below))

Keys == {<<l[1], n>> : l \in Locations, n \in ToSet(Names)}

\* parseDiff: a target line counts until the file's first hunk.
ParseDiff(text) ==
  LET Read(acc, line) ==
        CASE line.kind = "file" -> [acc EXCEPT !.path = NoPath, !.inHunks = FALSE]
          [] line.kind = "target" /\ ~acc.inHunks -> [acc EXCEPT !.path = line.path]
          [] line.kind = "hunk" ->
               IF acc.path = NoPath \/ line.count = 0 THEN [acc EXCEPT !.inHunks = TRUE]
               ELSE [acc EXCEPT !.inHunks = TRUE,
                       !.files[acc.path] = Append(@, <<line.first, line.first + line.count - 1>>)]
          [] OTHER -> acc
      read == FoldLeft(Read, [path |-> NoPath, inHunks |-> FALSE, files |-> [k \in Keys |-> <<>>]], text)
  IN [k \in Keys |-> Merge(read.files[k])]

\* lineCount: the newlines, and one more when the last byte is none.
Newlines(s) == Cardinality({i \in DOMAIN s : s[i] \notin Unended})
LineCount(s) == IF s # <<>> /\ Last(s) \in Unended THEN Newlines(s) + 1 ELSE Newlines(s)

\* addUntracked, over the files listed.
AddUntracked(files, listed, tree) ==
  [k \in Keys |-> IF k \in listed /\ LineCount(tree[k]) > 0
                  THEN Merge(Append(files[k], <<1, LineCount(tree[k])>>)) ELSE files[k]]

\* Changed.Touches
Touches(files, path, first, last) ==
  \E i \in DOMAIN files[path] : files[path][i][1] <= last /\ first <= files[path][i][2]

-----------------------------------------------------------------------------
(* The command *)

Goto(s) == at' = s
Fail == Goto("refused")

CatalogueInit ==
  /\ asked \in Asks
  /\ repo \in Setups
  /\ edits = 0 /\ at = "detect" /\ modules = <<>>
  /\ changed = [files |-> [k \in Keys |-> <<>>], listed |-> {}]
  /\ snap = [l \in Locations |-> Absent] /\ moved = FALSE
  /\ catalog = [found |-> {}, mutants |-> <<>>, duplicates |-> <<>>, rejected |-> {}] /\ chosen = {}

\* pipeline and discoverCatalog begin alike: DetectWorkspace, and the rules.
Detect ==
  /\ at = "detect"
  /\ modules' = DetectWorkspace(repo.work)
  /\ CASE modules' = Refusal \/ UnknownOperator(repo.cfg) -> Fail
       [] asked.changed # NoRef -> Goto("ref")
       [] OTHER -> Goto("copy")
  /\ UNCHANGED <<asked, repo, edits, changed, snap, moved, catalog, chosen>>

\* resolveRef and mergeBase: the upstream is asked for, and may be missing; a
\* named ref may be unknown here or share no history.
ResolveRef ==
  /\ at = "ref"
  /\ \/ (asked.changed = "upstream" => repo.upstream) /\ Goto("diff")
     \/ (asked.changed = "upstream" => ~repo.upstream) /\ Fail
  /\ UNCHANGED <<asked, repo, edits, modules, changed, snap, moved, catalog, chosen>>

\* diff and parseDiff
Diff ==
  /\ at = "diff"
  /\ changed' = [changed EXCEPT !.files = ParseDiff(GitDiffText(repo))]
  /\ Goto("untracked")
  /\ UNCHANGED <<asked, repo, edits, modules, snap, moved, catalog, chosen>>

\* untracked: what ls-files lists.
Untracked ==
  /\ at = "untracked"
  /\ changed' = [changed EXCEPT !.listed =
                   {l \in Locations \ repo.tracked : repo.tree[l] # Absent}]
  /\ Goto("count")
  /\ UNCHANGED <<asked, repo, edits, modules, snap, moved, catalog, chosen>>

\* lineCount of each of them, as it is now.
CountUntracked ==
  /\ at = "count"
  /\ changed' = [changed EXCEPT !.files = AddUntracked(changed.files, changed.listed,
                   [k \in Keys |-> IF k \in Locations THEN repo.tree[k] ELSE Absent])]
  /\ Goto("copy")
  /\ UNCHANGED <<asked, repo, edits, modules, snap, moved, catalog, chosen>>

\* snapshot.Create
Copy ==
  /\ at = "copy"
  /\ snap' = repo.tree /\ Goto("build")
  /\ UNCHANGED <<asked, repo, edits, modules, changed, moved, catalog, chosen>>

\* sortedCandidates
SortedCandidates(found) == InOrder(found, EntryBelow)

\* Discovery of every module, BuildCatalogOf and Builder.Build.
Build ==
  /\ at = "build"
  /\ LET found == UNION {Candidates(Discovered[i]) : i \in DOMAIN Discovered}
         built == Dedup(SortedCandidates(found))
     IN IF (\E b, c \in found : Contradicts(b, c)) \/ Collides(built.kept)
        THEN Fail /\ UNCHANGED catalog
        ELSE /\ catalog' = [catalog EXCEPT !.found = found, !.mutants = built.kept,
                                             !.duplicates = built.dropped]
             /\ Goto(IF asked.command = "list" THEN "list" ELSE "select")
  /\ UNCHANGED <<asked, repo, edits, modules, changed, snap, moved, chosen>>

\* displayIndex and onChangedLines: the lines of the mutant, in the file its
\* path names.
OnChangedLines(m) ==
  asked.changed = NoRef
    \/ Touches(changed.files, m.path, m.line, m.line + m.original[2])

\* session.selection and narrowSelection, over the mutants validation accepts.
Select(rejected) ==
  /\ at = "select"
  /\ LET named == Matches(catalog.mutants, asked.prefix)
         ids == IF asked.prefix.length = 0 THEN DOMAIN catalog.mutants ELSE named
     IN IF asked.prefix.length > 0 /\ Cardinality(named) # 1 THEN Fail /\ UNCHANGED chosen
        ELSE /\ chosen' = {i \in ids \ rejected : OnChangedLines(catalog.mutants[i])}
             /\ Goto("selected")
  /\ catalog' = [catalog EXCEPT !.rejected = rejected]
  /\ UNCHANGED <<asked, repo, edits, modules, changed, snap, moved>>

\* discovered.document: each mutant at the place of a candidate of its rule and
\* span, those of the prefix only.
LocatedAs(m) == CHOOSE c \in catalog.found :
  c.module = m.module /\ c.path = m.path /\ c.span = m.span /\ c.rule = m.rule

List ==
  /\ at = "list"
  /\ chosen' = {<<i, LocatedAs(catalog.mutants[i]).line>> :
       i \in {j \in DOMAIN catalog.mutants :
                asked.prefix.length = 0 \/ j \in Matches(catalog.mutants, asked.prefix)}}
  /\ Goto("listed")
  /\ UNCHANGED <<asked, repo, edits, modules, changed, snap, moved, catalog>>

\* The user writes a file.
Edit(l, content) ==
  /\ edits < MaxEdits /\ at \in {"detect", "ref", "diff", "untracked", "count", "copy"}
  /\ repo.tree[l] # content
  /\ repo' = [repo EXCEPT !.tree[l] = content]
  /\ edits' = edits + 1
  /\ moved' = (moved \/ at \in {"untracked", "count", "copy"})
  /\ UNCHANGED <<asked, at, modules, changed, snap, catalog, chosen>>

CatalogueNext ==
  \/ Detect \/ ResolveRef \/ Diff \/ Untracked \/ CountUntracked \/ Copy \/ Build \/ List
  \/ \E i \in 0..Len(catalog.mutants) : Select({i} \ {0})
  \/ \E e \in Edits : Edit(e[1], e[2])

-----------------------------------------------------------------------------
(* Properties *)

\* The catalogue is the one the tree and the rules alone decide, and each
\* machine of a sharded run builds: one mutant for every distinct edit of a
\* selected rule, the most local of the rules that make it, in one order, and
\* every other candidate accounted for by the mutant that stands for it; the
\* listing gives each mutant the line it is on.
CatalogueIsCanonical ==
  at \in {"select", "selected", "listed"} =>
    LET kept == catalog.mutants
        Edited(c) == <<c.at, c.span, c.repl>>
    IN /\ {Edited(kept[i]) : i \in DOMAIN kept} =
            UNION {UNION {{<<l, <<10 * j + s.from, 10 * (j + s.over) + s.to>>, s.repl>> :
                     j \in {k \in DOMAIN snap[l] : snap[l][k] = s.line}} :
                     s \in {t \in Sites :
                        \/ repo.cfg.operators = <<>>
                           /\ Registry[Position(t.rule)].tier <= repo.cfg.tier
                        \/ ToSet(repo.cfg.operators)
                           \cap {t.rule, Registry[Position(t.rule)].family} # {}}} :
                   l \in {k \in Locations \ repo.cfg.excluded :
                            \E i \in DOMAIN Discovered : k \in FilesOf(Discovered[i])}}
       /\ \A i, j \in DOMAIN kept : i < j => EntryBelow(kept[i], kept[j])
       /\ \A i \in DOMAIN kept : \A c \in catalog.found :
            Edited(c) = Edited(kept[i]) => Position(kept[i].rule) <= Position(c.rule)
       /\ Len(kept) + Len(catalog.duplicates) = Cardinality(catalog.found)
       /\ \A d \in DOMAIN catalog.duplicates : \E i \in DOMAIN kept :
            /\ ID(kept[i]) = catalog.duplicates[d].winner
            /\ Edited(kept[i]) = Edited(catalog.duplicates[d].dropped)
       /\ at = "listed" => \A r \in chosen : snap[kept[r[1]].at][r[2]] = kept[r[1]].original[1]

\* The lines of a file that are new since the base: all of them, in a file git
\* does not track.
New(l) == {i \in DOMAIN snap[l] : l \notin repo.tracked \/ snap[l][i] \notin ToSet(repo.base[l])}
Changes(m) == \E i \in m.line..(m.line + m.original[2]) : i \in New(m.at)

\* `--changed` runs the mutants on the lines that are new, whatever the diff
\* looks like and whether or not git tracks the file, and only those.  The
\* mutants of a module that is not at the root, and of a file whose name git
\* spells otherwise, are left to the README.
ChangedAreSelected ==
  (at = "selected" /\ asked.changed # NoRef /\ ~moved /\ asked.prefix.length = 0) =>
    \A i \in DOMAIN catalog.mutants \ catalog.rejected :
      LET m == catalog.mutants[i]
      IN (m.path = m.at /\ Printed(m.at) = m.at) => (i \in chosen <=> Changes(m))

\* docs/architecture.md: --changed fails closed, "because a narrowing that
\* silently measured everything or nothing is worse than not running at all":
\* where mutants are on changed lines, some mutant runs.
ANarrowingMeasures ==
  (at = "selected" /\ asked.changed # NoRef /\ ~moved /\ asked.prefix.length = 0
     /\ \E i \in DOMAIN catalog.mutants \ catalog.rejected : Changes(catalog.mutants[i]))
    => chosen # {}
=============================================================================
