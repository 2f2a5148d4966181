----------------------------- MODULE Instrument ------------------------------
(***************************************************************************)
(* The rewrite of a snapshot (internal/instrument, internal/interval): the *)
(* mutants of a file are gathered into a forest of sites, every site is    *)
(* written as a guard around its original text with the sites inside it    *)
(* already rewritten, loops get their counters, and the file is replaced.  *)
(*                                                                         *)
(* A file is a sequence of words; "nl" is a line break and "sp" any other  *)
(* space.  A span <<s, e>> covers the words s+1..e.  Rewritten text is a   *)
(* sequence of                                                             *)
(*   <<"word", w, i>>           a word, and its place in the source or 0   *)
(*   <<"loop", n, "declare">>   a loop's counter, or the test of it        *)
(*   <<"guard", form, alts, t>> alternatives <<mutant, text>> and the rest *)
(*   <<"probe", form, alts, t>> the same, in a tree that compares          *)
(***************************************************************************)
EXTENDS Integers, Sequences, FiniteSets, SequencesExt

CONSTANTS
  Files,    \* a sequence of [source, loops, mutants]: loops is a sequence of
            \* <<where the counter is declared, where it is tested>>, mutants a
            \* function to [site, edit, by, form, undeclare, probe, operands]
  EndsLine  \* words after which the scanner turns a line break into ";"

VARIABLES
  treeMode,  \* "mutant" or "probe"
  selected,  \* the mutants of the catalogue, for each file
  file,      \* the file that is instrumented next
  texts,     \* each file of the snapshot
  loopBase,  \* the number of each file's first loop, from the runtime's side
  counted,   \* loops that have been numbered
  fault      \* "" or why Instrument returned an error

instrumentVars == <<treeMode, selected, file, texts, loopBase, counted, fault>>

Mutant(f, m) == Files[f].mutants[m]
Within(a, b) == b[1] <= a[1] /\ a[2] <= b[2]
Original(f, span) ==
  [k \in 1..(span[2] - span[1]) |-> <<"word", Files[f].source[span[1] + k], span[1] + k>>]
Whole(f) == Original(f, <<0, Len(Files[f].source)>>)
Said(words) == [k \in 1..Len(words) |-> <<"word", words[k], 0>>]

InstrumentStart(mode, chosen) ==
  /\ treeMode = mode /\ selected = chosen
  /\ file = 1 /\ texts = [f \in 1..Len(Files) |-> Whole(f)]
  /\ loopBase = [f \in 1..Len(Files) |-> 0] /\ counted = 0 /\ fault = ""

-----------------------------------------------------------------------------
(* splice.go: a splice is <<span, text>>, spans are of the file *)

\* validateSplices: two splices collide when they overlap or are of one span.
Collide(splices) ==
  \E a, b \in splices :
    a /= b /\ (a[1] = b[1] \/ ~(a[1][2] <= b[1][1] \/ b[1][2] <= a[1][1]))

Apply(f, span, splices) ==
  LET before(a, b) == a[1][1] < b[1][1] \/ (a[1][1] = b[1][1] /\ a[1][2] < b[1][2])
      put(done, s) == [text |-> done.text \o Original(f, <<done.at, s[1][1]>>) \o s[2], at |-> s[1][2]]
      last == FoldLeft(put, [text |-> <<>>, at |-> span[1]], SetToSortSeq(splices, before))
  IN last.text \o Original(f, <<last.at, span[2]>>)

RECURSIVE CountLines(_)
CountLines(text) ==
  LET lines(x) == CASE x[1] = "word" -> IF x[2] = "nl" THEN 1 ELSE 0
                    [] x[1] = "loop" -> 0
                    [] OTHER -> CountLines(x[4]) + FoldLeft(LAMBDA n, a : n + CountLines(a[2]), 0, x[3])
  IN FoldLeft(LAMBDA n, x : n + lines(x), 0, text)

-----------------------------------------------------------------------------
(* flatten.go: on one line, with the semicolons the line breaks stood for *)

\* What the scanner makes of a text; a guard and a probe end in a bracket.
Scan(text) ==
  LET ends(x) == IF x[1] = "word" THEN x[2] \in EndsLine ELSE x[1] /= "loop"
      put(done, x) ==
        CASE x[1] = "word" /\ x[2] = "sp" -> done
          [] x[1] = "word" /\ x[2] = "nl" ->
               IF done /= <<>> /\ ends(Last(done)) THEN Append(done, <<"word", ";", 0>>) ELSE done
          [] OTHER -> Append(done, x)
  IN FoldLeft(put, <<>>, text)

\* MUTANT: line breaks are taken out and nothing is put in their place.
FlattenJoined(text) == SelectSeq(text, LAMBDA x : ~(x[1] = "word" /\ x[2] \in {"nl", "sp"}))

Flatten(text) ==
  LET all == Scan(text)
  IN IF all /= <<>> /\ Last(all) = <<"word", ";", 0>> THEN Front(all) ELSE all

-----------------------------------------------------------------------------
(* loops.go *)

LoopSplices(f, base) ==
  UNION {{<<<<Files[f].loops[i][1], Files[f].loops[i][1]>>, <<<<"loop", base + i, "declare">>>>>>,
          <<<<Files[f].loops[i][2], Files[f].loops[i][2]>>, <<<<"loop", base + i, "test">>>>>>} :
         i \in 1..Len(Files[f].loops)}

StrictlyIn(at, span) == at > span[1] /\ at < span[2]

LoopsWithin(loops, span, children) ==
  {l \in loops : /\ l[1][1] >= span[1] /\ l[1][1] <= span[2]
                 /\ ~\E c \in children : StrictlyIn(l[1][1], c)}

LoopsOutside(loops, cut) ==
  {l \in loops : ~StrictlyIn(l[1][1], cut) /\ ~(cut[1] = cut[2] /\ l[1][1] = cut[1])}

LoopsOutsideSites(loops, sites) == {l \in loops : ~\E s \in sites : StrictlyIn(l[1][1], s)}

-----------------------------------------------------------------------------
(* internal/interval and sites.go *)

\* What one mutant's rewrite covers in this tree.
SiteOf(f, m) == IF treeMode = "mutant" THEN Mutant(f, m).site ELSE Mutant(f, m).probe.span

\* probeFor: a mutant that has no probe form is left out of the probe tree.
Items(f) == IF treeMode = "mutant" THEN selected[f]
            ELSE {m \in selected[f] : Mutant(f, m).probe.form /= "none"}

Sites(f) == {SiteOf(f, m) : m \in Items(f)}

\* Build: an empty site, or two that overlap and do not nest, is a conflict.
Misplaced(f) ==
  \/ \E s \in Sites(f) : s[1] = s[2]
  \/ \E a, b \in Sites(f) : a[1] < b[1] /\ b[1] < a[2] /\ a[2] < b[2]

\* agree, probesAgree: the mutants of one site describe it alike.
Disagree(f) ==
  \E m, n \in Items(f) :
     /\ SiteOf(f, m) = SiteOf(f, n)
     /\ IF treeMode = "mutant"
        THEN Mutant(f, m).form /= Mutant(f, n).form \/ Mutant(f, m).undeclare /= Mutant(f, n).undeclare
        ELSE Mutant(f, m).probe /= Mutant(f, n).probe

Inside(f, span) == {s \in Sites(f) : s /= span /\ Within(s, span)}
Children(f, span) == {s \in Inside(f, span) : ~\E t \in Inside(f, span) : t /= s /\ Within(s, t)}
Roots(f) == {s \in Sites(f) : ~\E t \in Sites(f) : t /= s /\ Within(s, t)}

\* The alternatives of a site, in the catalogue's order.
Alternatives(f, span) == SetToSortSeq({m \in Items(f) : SiteOf(f, m) = span}, <)

\* A site's own description, and the words of a declaration that are rewritten.
SiteAt(f, span) == Mutant(f, Alternatives(f, span)[1])
Undeclared(f, span) ==
  {<<<<u[1] - 1, u[1]>>, Said(u[2])>> : u \in SiteAt(f, span).undeclare}

-----------------------------------------------------------------------------
(* guards.go and probe.go *)

EditOf(f, m) == <<Mutant(f, m).edit, Said(Mutant(f, m).by)>>

MutatedSplices(f, m, loops) ==
  IF treeMode = "probe" THEN {EditOf(f, m)}
  ELSE {EditOf(f, m)} \cup Undeclared(f, SiteOf(f, m))
         \cup LoopsOutside(LoopsWithin(loops, SiteOf(f, m), {}), Mutant(f, m).edit)

Mutated(f, m, loops) == Flatten(Apply(f, SiteOf(f, m), MutatedSplices(f, m, loops)))

\* A return whose values are probed is rebuilt from its values.
Returned(f, span, splices) ==
  LET ops == SiteAt(f, span).operands
      one(i) == Flatten(Apply(f, ops[i], {s \in splices : Within(s[1], ops[i])}))
      joined(t, i) == t \o (IF i = 1 THEN Said(<<"return">>) ELSE Said(<<",">>)) \o one(i)
  IN FoldLeft(joined, <<>>, [i \in 1..Len(ops) |-> i])
       \o [k \in 1..CountLines(Original(f, span)) |-> <<"word", "nl", 0>>]

RECURSIVE Compose(_, _, _)
RECURSIVE SiteSplices(_, _, _)

\* What is spliced into a site's original text.
SiteSplices(f, span, loops) ==
  LET children == Children(f, span)
  IN {<<c, Compose(f, c, loops)>> : c \in children}
       \cup (IF treeMode = "mutant"
             THEN Undeclared(f, span) \cup LoopsWithin(loops, span, children) ELSE {})

\* One site, after those inside it.
Compose(f, span, loops) ==
  LET ms   == Alternatives(f, span)
      alts == [k \in 1..Len(ms) |-> <<ms[k], Mutated(f, ms[k], loops)>>]
      in   == SiteSplices(f, span, loops)
  IN IF treeMode = "mutant"
     THEN <<<<"guard", SiteAt(f, span).form, alts, Apply(f, span, in)>>>>
     ELSE <<<<"probe", SiteAt(f, span).probe.form, alts,
              IF SiteAt(f, span).probe.form = "return" THEN Returned(f, span, in)
              ELSE Apply(f, span, in)>>>>

\* A nested site that lies in none of the values a return is rebuilt from.
Unreturned(f) ==
  /\ treeMode = "probe"
  /\ \E s \in Sites(f) : /\ SiteAt(f, s).probe.form = "return"
                         /\ \E c \in Children(f, s) :
                              ~\E i \in 1..Len(SiteAt(f, s).operands) : Within(c, SiteAt(f, s).operands[i])

FileSplices(f, loops) ==
  LET roots == {<<r, Compose(f, r, loops)>> : r \in Roots(f)}
  IN roots \cup LoopsOutsideSites(loops, Roots(f))

\* Apply refuses some text of the file, or a line would move.
Unwritable(f, loops) ==
  \/ \E s \in Sites(f) : Collide(SiteSplices(f, s, loops))
  \/ \E m \in Items(f) : Collide(MutatedSplices(f, m, loops))
  \/ Collide(FileSplices(f, loops))

Drifts(f, loops) ==
  CountLines(Apply(f, <<0, Len(Files[f].source)>>, FileSplices(f, loops))) /= CountLines(Whole(f))

-----------------------------------------------------------------------------

\* instrumentFile: a file with nothing to rewrite stays as it is and counts no
\* loops, and an error leaves the files after it as they are.
InstrumentFile ==
  /\ fault = "" /\ file <= Len(Files)
  /\ LET loops == IF treeMode = "mutant" THEN LoopSplices(file, counted) ELSE {}
         why == CASE Disagree(file) \/ Misplaced(file) \/ Unreturned(file) -> "conflict"
                  [] Unwritable(file, loops) -> "overlap"
                  [] Drifts(file, loops) -> "drift"
                  [] OTHER -> ""
     IN IF Items(file) = {}
        THEN /\ loopBase' = [loopBase EXCEPT ![file] = counted]
             /\ UNCHANGED <<texts, counted, fault>>
        ELSE IF why /= "" THEN fault' = why /\ UNCHANGED <<texts, counted, loopBase>>
        ELSE /\ texts' = [texts EXCEPT ![file] = Apply(file, <<0, Len(Files[file].source)>>, FileSplices(file, loops))]
             /\ counted' = counted + (IF treeMode = "mutant" THEN Len(Files[file].loops) ELSE 0)
             /\ loopBase' = [loopBase EXCEPT ![file] = counted]
             /\ UNCHANGED fault
  /\ file' = file + 1
  /\ UNCHANGED <<treeMode, selected>>

InstrumentNext == InstrumentFile

-----------------------------------------------------------------------------
(* What the rewritten text is read as *)

\* The text a process runs in which one mutant, or none (0), is active.
RECURSIVE Read(_, _)
Read(text, active) ==
  LET one(x) == IF x[1] \in {"word", "loop"} THEN <<x>>
                ELSE IF x[1] = "guard" /\ \E k \in 1..Len(x[3]) : x[3][k][1] = active
                THEN x[3][CHOOSE k \in 1..Len(x[3]) : x[3][k][1] = active][2]
                ELSE Read(x[4], active)
  IN FoldLeft(LAMBDA t, x : t \o one(x), <<>>, text)

\* Where a mutant is named, along every path.
RECURSIVE Named(_, _)
Named(text, m) ==
  LET one(x) == IF x[1] \in {"word", "loop"} THEN 0
                ELSE Cardinality({k \in 1..Len(x[3]) : x[3][k][1] = m}) + Named(x[4], m)
  IN FoldLeft(LAMBDA n, x : n + one(x), 0, text)

\* A text up to its layout: single semicolons, none before the first word or
\* after a bracket, and a declaration spelled like an assignment.
Meaning(text) ==
  LET put(done, x) ==
        IF x[1] = "word" /\ x[2] = ";" /\ (done = <<>> \/ Last(done) = ";" \/ Last(done) = "{")
        THEN done ELSE Append(done, IF x[1] = "loop" THEN x[3] ELSE IF x[2] = ":=" THEN "=" ELSE x[2])
  IN FoldLeft(put, <<>>, Scan(text))

\* The source with the loops counted, and one mutant's edit made.
Intended(f, m, loops) ==
  LET all == <<0, Len(Files[f].source)>>
  IN IF m = 0 THEN Apply(f, all, loops)
     ELSE Apply(f, all, {EditOf(f, m)} \cup LoopsOutside(loops, Mutant(f, m).edit))

\* The words of a declaration that a branch of a guard keeps to itself.
RECURSIVE KeptIn(_, _)
KeptIn(f, text) ==
  LET own(t, words) == \E k \in 1..Len(t) : t[k][1] = "word" /\ t[k][3] \in words
      words(x) == {u[1] : u \in UNION {Mutant(f, x[3][k][1]).undeclare : k \in 1..Len(x[3])}}
      one(x) == /\ x[1] = "guard"
                /\ \/ own(x[4], words(x)) \/ \E k \in 1..Len(x[3]) : own(x[3][k][2], words(x))
                   \/ KeptIn(f, x[4])
  IN \E k \in 1..Len(text) : one(text[k])

\* A tree that was written is the program: with no mutant active it is read as
\* the source with its loops counted, with one active as the source with that
\* mutant's edit and nothing else, no line moves, every mutant is found in one
\* place, no branch keeps a declaration from what follows it, and every loop of
\* the module is known to the runtime by a number of its own.
ReadsAsTheProgram ==
  /\ fault \notin {"drift", "overlap"}
  /\ \A f \in 1..Len(Files) : f < file /\ (fault = "" \/ f < file - 1) /\ Items(f) /= {} =>
       LET loops == IF treeMode = "mutant" THEN LoopSplices(f, loopBase[f]) ELSE {}
       IN /\ CountLines(texts[f]) = CountLines(Whole(f))
          /\ Meaning(Read(texts[f], 0)) = Meaning(Intended(f, 0, loops))
          /\ \A m \in Items(f) : Named(texts[f], m) = 1
          /\ treeMode = "mutant" =>
               /\ ~KeptIn(f, texts[f])
               /\ \A m \in Items(f) : Meaning(Read(texts[f], m)) = Meaning(Intended(f, m, loops))
               /\ SelectSeq(Read(texts[f], 0), LAMBDA x : x[1] = "loop")
                    = SelectSeq(Intended(f, 0, loops), LAMBDA x : x[1] = "loop")
  /\ \A f, g \in 1..Len(Files) : f < g /\ g < file /\ fault = "" /\ treeMode = "mutant"
       /\ Items(f) /= {} /\ Items(g) /= {} => loopBase[f] + Len(Files[f].loops) <= loopBase[g]
=============================================================================
