------------------------------ MODULE FileText ------------------------------
(* What edit_file does to a text (internal/fileops): batches of edits, each *)
(* given for the original text; the diff that is shown for approval; line   *)
(* endings; and the windows in which a file is read.  A text is a sequence  *)
(* of characters, "n" and "r" are the two that end a line.                  *)
EXTENDS Integers, FiniteSets, Sequences
LOCAL INSTANCE SequencesExt
LOCAL INSTANCE FiniteSetsExt

CONSTANTS Texts,        \* texts to edit, without "r"
          EditChoices,  \* edits to apply to them
          LineLists,    \* lists of lines to compare
          ContextLines, \* lines of context in a diff
          RawTexts,     \* texts with their line endings
          MaxFileLines, \* bound on the lines of a file that is read
          ReadLimit     \* DefaultReadLineLimit

VARIABLES textJob,    \* what is done, with its input
          textResult  \* what came of it, NoText before
textVars == <<textJob, textResult>>

NoText == [ok |-> FALSE]
Refused == [ok |-> FALSE, refused |-> TRUE]

-----------------------------------------------------------------------------
(* Edits.  Positions are counted from 0, as in the code.                    *)

\* scanEditLines: where each line starts, ends, and ends with its terminator.
ScanEditLines(t) ==
    LET starts == IF t = <<>> THEN {} ELSE {0} \cup {i \in 1 .. Len(t) - 1 : t[i] = "n"}
        After(s) == {i \in s + 1 .. Len(t) : t[i] = "n"}
        LineAt(s) == IF After(s) = {} THEN [start |-> s, end |-> Len(t), fullEnd |-> Len(t)]
                     ELSE [start |-> s, end |-> Min(After(s)) - 1, fullEnd |-> Min(After(s))]
        order == SetToSortSeq(starts, <)
    IN [i \in DOMAIN order |-> LineAt(order[i])]

LineText(t, l) == SubSeq(t, l.start + 1, l.end)
Spliced(s, e, txt) == [start |-> s, end |-> e, text |-> txt]

\* resolveLineInsert: before a line, or after the last one, which may lack its terminator.
LineInsert(t, lines, k, block) ==
    CASE lines = <<>>                  -> Spliced(0, 0, block)
      [] k <= Len(lines)               -> Spliced(lines[k].start, lines[k].start, block \o <<"n">>)
      [] k > Len(lines) /\ Last(t) = "n" -> Spliced(Len(t), Len(t), block \o <<"n">>)
      [] OTHER                         -> Spliced(Len(t), Len(t), <<"n">> \o block)

\* Mutant: the terminator before an unterminated last line is left.
LineDeleteRangeLeft(lines, from, to) == [start |-> lines[from].start, end |-> lines[to].fullEnd]

\* lineDeleteRange: an unterminated last line takes the terminator before it along.
LineDeleteRange(lines, from, to) ==
    [start |-> IF to = Len(lines) /\ lines[to].fullEnd = lines[to].end /\ from > 1
               THEN lines[from - 1].end ELSE lines[from].start,
     end |-> lines[to].fullEnd]

\* findContentMatches: from left to right, not overlapping.
ContentMatches(t, old) ==
    LET Hit(s) == s + Len(old) <= Len(t) /\ SubSeq(t, s + 1, s + Len(old)) = old
        from[s \in 0 .. Len(t)] == IF s = Len(t) THEN <<>>
                                   ELSE IF Hit(s) THEN <<s>> \o from[s + Len(old)] ELSE from[s + 1]
    IN from[0]

\* findLineMatches: the lines with the prefix.
LineMatches(t, lines, anchor) ==
    SetToSortSeq({k \in DOMAIN lines : IsPrefix(anchor, LineText(t, lines[k]))}, <)

\* selectMatches: all of them, the first, or the only one.
SelectMatches(found, which) ==
    CASE which = "all"                         -> found
      [] which = "first" /\ found # <<>>       -> <<Head(found)>>
      [] which = "only" /\ Len(found) = 1      -> found
      [] OTHER                                 -> <<>>

\* validateEditFields: each operation has its fields and no others.
ValidEdit(e) ==
    CASE e.op = "replace_text"                     -> e.anchor # <<>> /\ e.line = 0
      [] e.op \in {"insert", "replace", "delete"}  -> e.line >= 1 /\ e.anchor = <<>> /\ e.which = "only"
      [] OTHER                                     -> e.anchor # <<>> /\ "n" \notin Range(e.anchor) /\ e.line = 0

\* resolveEdit: the ranges of the original text that an edit replaces; none is an error.
ResolveEdit(t, e) ==
    LET lines == ScanEditLines(t)
        n == Len(lines)
        InsertBefore(k) == Spliced(lines[k].start, lines[k].start, e.block \o <<"n">>)
        InsertAfter(k) == IF lines[k].fullEnd > lines[k].end THEN Spliced(lines[k].fullEnd, lines[k].fullEnd, e.block \o <<"n">>)
                          ELSE Spliced(lines[k].end, lines[k].end, <<"n">> \o e.block)
        Cut(k, txt) == LET r == LineDeleteRange(lines, k, k) IN Spliced(r.start, r.end, txt)
        Anchored(Op(_)) == LET ks == SelectMatches(LineMatches(t, lines, e.anchor), e.which) IN [i \in DOMAIN ks |-> Op(ks[i])]
    IN CASE ~ValidEdit(e)         -> <<>>
         [] e.op = "replace_text" -> LET hits == SelectMatches(ContentMatches(t, e.anchor), e.which)
                                     IN [i \in DOMAIN hits |-> Spliced(hits[i], hits[i] + Len(e.anchor), e.block)]
         [] e.op = "insert"        -> IF e.line <= n + 1 THEN <<LineInsert(t, lines, e.line, e.block)>> ELSE <<>>
         [] e.op = "replace"       -> IF e.line <= n THEN <<Cut(e.line, e.block)>> ELSE <<>>
         [] e.op = "delete"        -> IF e.line <= n THEN <<Cut(e.line, <<>>)>> ELSE <<>>
         [] e.op = "insert_before" -> Anchored(InsertBefore)
         [] e.op = "insert_after"  -> Anchored(InsertAfter)
         [] e.op = "replace_line"  -> Anchored(LAMBDA k : Spliced(lines[k].start, lines[k].end, e.block))
         [] e.op = "delete_line"   -> Anchored(LAMBDA k : Cut(k, <<>>))

IsInsert(r) == r.start = r.end

\* validateResolvedEdits
Compatible(rs) ==
    \A i, j \in DOMAIN rs : i # j =>
       /\ ~IsInsert(rs[i]) /\ ~IsInsert(rs[j]) => ~(rs[i].start < rs[j].end /\ rs[j].start < rs[i].end)
       /\ IsInsert(rs[i]) /\ ~IsInsert(rs[j]) => ~(rs[i].start > rs[j].start /\ rs[i].start < rs[j].end)

\* Mutant: edits at one place keep the order in which they were given.
AppliedBeforeStable(rs, i, j) == rs[i].start > rs[j].start \/ (rs[i].start = rs[j].start /\ i < j)

\* The order of the splices: from the end, at one place replacements first and later edits first.
AppliedBefore(rs, i, j) ==
    \/ rs[i].start > rs[j].start
    \/ /\ rs[i].start = rs[j].start
       /\ \/ ~IsInsert(rs[i]) /\ IsInsert(rs[j])
          \/ IsInsert(rs[i]) = IsInsert(rs[j]) /\ i > j

\* ApplyEdits: every edit is resolved in the original text, then they are spliced in.
ApplyEdits(t, edits) ==
    LET each == [i \in DOMAIN edits |-> ResolveEdit(t, edits[i])]
        rs == FlattenSeq(each)
        order == SetToSortSeq(DOMAIN rs, LAMBDA i, j : AppliedBefore(rs, i, j))
        Splice(out, r) == SubSeq(out, 1, r.start) \o r.text \o SubSeq(out, r.end + 1, Len(out))
        spliced[k \in 0 .. Len(order)] == IF k = 0 THEN t ELSE Splice(spliced[k - 1], rs[order[k]])
    IN IF (\E i \in DOMAIN each : each[i] = <<>>) \/ ~Compatible(rs) THEN Refused
       ELSE [ok |-> TRUE, text |-> spliced[Len(order)], ranges |-> rs]

-----------------------------------------------------------------------------
(* Diffs.                                                                   *)

\* Mutant: the longer rest is not preferred.
DeleteFirstAlways(dp, i, j) == TRUE

\* The choice between taking a line out and putting one in.
DeleteFirst(dp, i, j) == dp[<<i + 1, j>>] >= dp[<<i, j + 1>>]

\* diffLines: dp is the length of the longest common rest.
DiffLines(a, b) ==
    LET n == Len(a)
        m == Len(b)
        dp[p \in (1 .. n + 1) \X (1 .. m + 1)] ==
            IF p[1] > n \/ p[2] > m THEN 0
            ELSE IF a[p[1]] = b[p[2]] THEN dp[<<p[1] + 1, p[2] + 1>>] + 1
            ELSE Max({dp[<<p[1] + 1, p[2]>>], dp[<<p[1], p[2] + 1>>]})
        walk[p \in (1 .. n + 1) \X (1 .. m + 1)] ==
            LET i == p[1]
                j == p[2]
            IN IF i > n /\ j > m THEN <<>>
               ELSE IF i <= n /\ j <= m /\ a[i] = b[j] THEN <<[kind |-> "equal", text |-> a[i]]>> \o walk[<<i + 1, j + 1>>]
               ELSE IF j > m \/ (i <= n /\ DeleteFirst(dp, i, j)) THEN <<[kind |-> "delete", text |-> a[i]]>> \o walk[<<i + 1, j>>]
               ELSE <<[kind |-> "insert", text |-> b[j]]>> \o walk[<<i, j + 1>>]
    IN walk[<<1, 1>>]

OpsOf(ops, ks) == SelectSeq(ops, LAMBDA op : op.kind \in ks)

\* Mutant: a hunk ends one line early.
HunkEndEarly(ops, last, ctx) == Min({Len(ops), last + ctx - 1})

\* trimDiffContextRange: context after the last change of a hunk.
HunkEnd(ops, last, ctx) == Min({Len(ops), last + ctx})

\* buildDiffHunks: changes more than twice the context apart get hunks of their own.
DiffHunks(ops, ctx) ==
    LET changes == {i \in DOMAIN ops : ops[i].kind # "equal"}
        Before(i) == {c \in changes : c < i}
        firsts == SetToSortSeq({i \in changes : Before(i) = {} \/ i - Max(Before(i)) - 1 > 2 * ctx}, <)
        LastOf(k) == IF k = Len(firsts) THEN Max(changes) ELSE Max(Before(firsts[k + 1]))
        Hunk(k) == LET s == Max({1, firsts[k] - ctx}) IN
                   [ops |-> SubSeq(ops, s, HunkEnd(ops, LastOf(k), ctx)),
                    oldStart |-> 1 + Len(OpsOf(SubSeq(ops, 1, s - 1), {"equal", "delete"})),
                    newStart |-> 1 + Len(OpsOf(SubSeq(ops, 1, s - 1), {"equal", "insert"}))]
    IN [k \in DOMAIN firsts |-> Hunk(k)]

-----------------------------------------------------------------------------
(* Line endings and reading.                                                *)

\* NormalizeEditText
Normalize(t) ==
    LET kept == SetToSortSeq({i \in DOMAIN t : ~(t[i] = "n" /\ i > 1 /\ t[i - 1] = "r")}, <)
    IN [i \in DOMAIN kept |-> IF t[kept[i]] = "r" THEN "n" ELSE t[kept[i]]]

\* Mutant: every file ends its lines with "n".
DetectLineEndingUnix(t) == <<"n">>

\* DetectLineEnding
DetectLineEnding(t) ==
    IF \E i \in 1 .. Len(t) - 1 : t[i] = "r" /\ t[i + 1] = "n" THEN <<"r", "n">>
    ELSE IF \E i \in DOMAIN t : t[i] = "r" THEN <<"r">> ELSE <<"n">>

\* RestoreLineEndings
Restore(t, ending) == FlattenSeq([i \in DOMAIN t |-> IF t[i] = "n" THEN ending ELSE <<t[i]>>])

\* Mutant: the window is one line too long.
DefaultEndOff(start) == start + ReadLimit

\* The end of a window that was not asked for.
DefaultEnd(start) == start + ReadLimit - 1

\* What a caller may give as the end of a window: a line, nothing, or "end".
NoEnd == 0
ToTheEnd == -1

\* NormalizeReadRange
ReadRange(total, start, end) ==
    LET wanted == CASE end = ToTheEnd -> total
                    [] end = NoEnd    -> Min({total, DefaultEnd(start)})
                    [] OTHER          -> Min({total, end})
    IN IF start > total \/ wanted < start THEN Refused
       ELSE [ok |-> TRUE, start |-> start,
             end |-> IF end = ToTheEnd THEN wanted ELSE Min({wanted, DefaultEnd(start)}),
             truncated |-> \/ end = NoEnd /\ DefaultEnd(start) < total
                           \/ end # ToTheEnd /\ wanted - start + 1 > ReadLimit]

-----------------------------------------------------------------------------
TextInit ==
    /\ textResult = NoText
    /\ \/ textJob \in [kind : {"edit"}, text : Texts, edits : {<<e>> : e \in EditChoices} \cup {<<e, f>> : e, f \in EditChoices}]
       \/ textJob \in [kind : {"diff"}, old : LineLists, new : LineLists, ctx : ContextLines]
       \/ textJob \in [kind : {"endings"}, text : RawTexts]
       \/ textJob \in [kind : {"read"}, total : 1 .. MaxFileLines, seen : {0}]

EditText ==
    /\ textJob.kind = "edit" /\ textResult = NoText
    /\ textResult' = ApplyEdits(textJob.text, textJob.edits) /\ UNCHANGED textJob

DiffText ==
    /\ textJob.kind = "diff" /\ textResult = NoText
    /\ LET ops == DiffLines(textJob.old, textJob.new) IN
       textResult' = [ok |-> TRUE, ops |-> ops, hunks |-> DiffHunks(ops, textJob.ctx)]
    /\ UNCHANGED textJob

\* prepareFileResult, of an edit that leaves the text alone
KeepEndings ==
    /\ textJob.kind = "endings" /\ textResult = NoText
    /\ textResult' = [ok |-> TRUE, text |-> Restore(Normalize(textJob.text), DetectLineEnding(textJob.text))]
    /\ UNCHANGED textJob

\* A file is read window by window: the next one starts where the last one ended.
ReadWindow ==
    /\ textJob.kind = "read" /\ (textResult.ok => textResult.truncated)
    /\ \E end \in -1 .. MaxFileLines + 1 :
          /\ ReadRange(textJob.total, textJob.seen + 1, end).ok
          /\ textResult' = ReadRange(textJob.total, textJob.seen + 1, end)
          /\ textJob' = [textJob EXCEPT !.seen = textResult'.end]

TextNext == EditText \/ DiffText \/ KeepEndings \/ ReadWindow

TextSpec == TextInit /\ [][TextNext]_textVars

-----------------------------------------------------------------------------
\* What a batch means: the edits happen at once.  Between two characters of the original stand
\* the insertions made there, in their order; a replaced range is its replacement.
AtOnce(t, rs) ==
    LET Inserted(p) == LET at == SetToSortSeq({i \in DOMAIN rs : IsInsert(rs[i]) /\ rs[i].start = p}, <)
                       IN FlattenSeq([i \in DOMAIN at |-> rs[at[i]].text])
        Inside(p) == \E i \in DOMAIN rs : rs[i].start <= p /\ p < rs[i].end
        Replaced(p) == LET at == {i \in DOMAIN rs : ~IsInsert(rs[i]) /\ rs[i].start = p}
                       IN IF at = {} THEN <<>> ELSE rs[CHOOSE i \in at : TRUE].text
        Piece(p) == Inserted(p) \o Replaced(p) \o (IF p < Len(t) /\ ~Inside(p) THEN <<t[p + 1]>> ELSE <<>>)
    IN FlattenSeq([i \in 1 .. Len(t) + 1 |-> Piece(i - 1)])

\* SplitLines
SplitLines(t) == LET lines == ScanEditLines(t) IN [k \in DOMAIN lines |-> LineText(t, lines[k])]

\* What the line operations mean, on lines numbered as in the original.
OnLines(t, edits) ==
    LET lines == SplitLines(t)
        n == Len(lines)
        Hits(e) == IF e.op \in {"insert", "delete"} THEN {e.line}
                   ELSE Range(SelectMatches(LineMatches(t, ScanEditLines(t), e.anchor), e.which))
        Before(k) == FlattenSeq([i \in DOMAIN edits |->
                        IF \/ edits[i].op \in {"insert", "insert_before"} /\ k \in Hits(edits[i])
                           \/ edits[i].op = "insert_after" /\ k - 1 \in Hits(edits[i])
                        THEN <<edits[i].block>> ELSE <<>>])
        Own(k) == LET cut == {i \in DOMAIN edits : edits[i].op \in {"delete", "delete_line", "replace_line"} /\ k \in Hits(edits[i])} IN
                  IF k > n THEN <<>>
                  ELSE IF cut = {} THEN <<lines[k]>>
                  ELSE LET e == edits[CHOOSE i \in cut : TRUE] IN IF e.op = "replace_line" THEN <<e.block>> ELSE <<>>
    IN FlattenSeq([k \in 1 .. n + 1 |-> Before(k) \o Own(k)])

LineOps == {"insert", "delete", "insert_before", "insert_after", "replace_line", "delete_line"}

\* Edits are given for the original text, and the order of the splices does not show.
EditsAreSimultaneous ==
    textJob.kind = "edit" /\ textResult.ok => textResult.text = AtOnce(textJob.text, textResult.ranges)

\* Line operations do to the lines what their names say, at the end of a file with or without
\* a terminator, alone and in pairs.  Excepted are a blank last line, which has no text of its
\* own without a terminator, and pairs of edits of a file without a second line, which may
\* join two lines or leave a blank one (README, section 6).
LineEditsKeepLines ==
    textJob.kind = "edit" /\ textResult.ok /\ (\A i \in DOMAIN textJob.edits : textJob.edits[i].op \in LineOps) =>
       LET lines == OnLines(textJob.text, textJob.edits) IN
       (lines # <<>> => Last(lines) # <<>>) /\ (Len(textJob.edits) = 2 => Len(SplitLines(textJob.text)) > 1)
       => SplitLines(textResult.text) = lines

\* The diff shown for approval leads from the old lines to the new ones, and no shorter one does.
DiffIsOfTheEdit ==
    textJob.kind = "diff" /\ textResult.ok =>
       LET ops == textResult.ops
           Texts2(ks) == LET s == OpsOf(ops, ks) IN [i \in DOMAIN s |-> s[i].text]
           Sub(s) == {[i \in 1 .. Cardinality(D) |-> s[SetToSortSeq(D, <)[i]]] : D \in SUBSET DOMAIN s}
       IN /\ Texts2({"equal", "delete"}) = textJob.old /\ Texts2({"equal", "insert"}) = textJob.new
          /\ Len(OpsOf(ops, {"equal"})) = Max({Len(s) : s \in Sub(textJob.old) \cap Sub(textJob.new)})

\* Putting the hunks in the place of the old lines they name makes the new text: every change
\* is in a hunk, hunks do not overlap, and both line numbers are right.
HunksPatch ==
    textJob.kind = "diff" /\ textResult.ok =>
       LET hs == textResult.hunks
           Of(k, ks) == LET s == OpsOf(hs[k].ops, ks) IN [i \in DOMAIN s |-> s[i].text]
           OldEnd(k) == IF k = 0 THEN 0 ELSE hs[k].oldStart + Len(Of(k, {"equal", "delete"})) - 1
           patched[k \in 0 .. Len(hs)] ==
               IF k = 0 THEN <<>>
               ELSE patched[k - 1] \o SubSeq(textJob.old, OldEnd(k - 1) + 1, hs[k].oldStart - 1) \o Of(k, {"equal", "insert"})
       IN /\ \A k \in DOMAIN hs : /\ hs[k].oldStart > OldEnd(k - 1)
                                  /\ SubSeq(textJob.old, hs[k].oldStart, OldEnd(k)) = Of(k, {"equal", "delete"})
                                  /\ SubSeq(textJob.new, hs[k].newStart, hs[k].newStart + Len(Of(k, {"equal", "insert"})) - 1)
                                       = Of(k, {"equal", "insert"})
          /\ patched[Len(hs)] \o SubSeq(textJob.old, OldEnd(Len(hs)) + 1, Len(textJob.old)) = textJob.new

\* A file whose lines all end alike keeps its endings through an edit.
EndingsKept ==
    textJob.kind = "endings" /\ textResult.ok =>
       ((\E e \in {<<"n">>, <<"r">>, <<"r", "n">>} : textJob.text = Restore(Normalize(textJob.text), e))
        => textResult.text = textJob.text)

\* A window that is called truncated is full, and there are lines after it: whoever reads on
\* while it is gets every line.
WindowsCover ==
    textJob.kind = "read" /\ textResult.ok =>
       /\ textResult.end \in textResult.start .. textJob.total
       /\ textResult.truncated => textResult.end = textResult.start + ReadLimit - 1 /\ textResult.end < textJob.total
=============================================================================
