----------------------------- MODULE LayoutWindows -----------------------------
(* The lines of a window (layout_checkpoint_part*.inc, zenith_hot_scroll.cpp,    *)
(* zenith_layout_window.cpp, layout_window.cpp).  The engine finds them by a scan *)
(* of every record in view; the hot-scroll session begins at a sparse checkpoint *)
(* of the record and reads a few source windows, keeps both in LRU caches, and   *)
(* declines when a record in view has no checkpoint.  Either measures the        *)
(* records in view first and moves the scroll position so that the record under  *)
(* it stays there.                                                               *)
(*                                                                               *)
(* A text is a sequence of bytes of a few kinds.  A width is its columns in a    *)
(* line, a fragment its bytes, its place and whether a newline ended it.  The     *)
(* session is used by one thread, so a call is a step.  Nothing overflows or     *)
(* saturates; the checksums and identities of a checkpoint file are left out: a  *)
(* file that does not fit is a file that is missing.                             *)
EXTENDS Integers, Sequences, SequencesExt, FiniteSets, FiniteSetsExt

CONSTANTS Texts,        \* the bytes of each record
          Estimates,    \* the height each record has before it is measured
          Columns,      \* the widths, in columns
          LineHeight, Padding, Stride, IoWindow,
          ViewHeight, Overscan, MaxFragments,
          IndexBudget, WindowBudget,
          Scrolls,      \* the positions that are asked for
          Unreadable,   \* records of which nothing may be readable during a call; 0: none
          MaxCalls      \* bound: calls in a behaviour

WindowsAssumption ==
    /\ DOMAIN Estimates = DOMAIN Texts /\ \A r \in DOMAIN Texts : Estimates[r] > 0
    /\ {LineHeight, Stride, IoWindow, ViewHeight, MaxFragments} \subseteq Nat \ {0}
    /\ {Padding, Overscan, IndexBudget, WindowBudget, MaxCalls} \cup Scrolls \subseteq Nat

VARIABLES order,        \* the records in their logical order
          heights,      \* the height the arena has for each record
          files,        \* the checkpoints on disk
          indices,      \* the checkpoints in memory, most recently used first
          windows,      \* the source windows in memory, likewise
          answer,       \* what the last call returned
          calls

vars == <<order, heights, files, indices, windows, answer, calls>>

Records == DOMAIN Texts
LongestText == Max({Len(Texts[r]) : r \in Records})
Nothing == [is |-> "nothing"]
Failed == [is |-> "failed"]
Declined == [is |-> "declined"]

-----------------------------------------------------------------------------
(* The scan of a text.                                                        *)

Trail(byte) == CASE byte = "lead2" -> 1 [] byte = "lead3" -> 2 [] OTHER -> 0

(* Where the code point that begins after o bytes ends: a sequence that is cut  *)
(* short ends before the byte that does not continue it.                        *)
EndOf(text, o) ==
    Max({e \in (o + 1)..Min({o + 1 + Trail(text[o + 1]), Len(text)}) :
            \A i \in (o + 2)..e : text[i] = "tail"})

(* The scan knows that a sequence was cut short when it sees the next byte.      *)
SeenFor(text, o) ==
    Min({Len(text), IF EndOf(text, o) < o + 1 + Trail(text[o + 1])
                    THEN EndOf(text, o) + 1 ELSE EndOf(text, o)})

(* The line that begins after o bytes: a newline or the last column closes it. *)
LineFrom(text, columns, o) ==
    LET Line(e, hard, closed, seen) ==
            [from |-> o, end |-> e, hard |-> hard, closed |-> closed, seen |-> seen]
        walk[p \in o..Len(text), n \in 0..columns] ==
            IF p = Len(text) THEN Line(p, FALSE, FALSE, p)
            ELSE LET e == EndOf(text, p)
                     m == n + (IF text[p + 1] = "tab" THEN 4 ELSE 1)
                 IN CASE text[p + 1] = "newline" -> Line(e, TRUE, TRUE, e)
                      [] text[p + 1] # "newline" /\ m >= columns ->
                            Line(e, FALSE, TRUE, SeenFor(text, p))
                      [] OTHER -> walk[e, m]
    IN walk[o, 0]

LinesFrom(text, columns, o) ==
    LET lines[p \in o..Len(text)] ==
            IF p = Len(text) THEN <<>>
            ELSE LET l == LineFrom(text, columns, p) IN <<l>> \o lines[l.end]
    IN lines[o]

EmptyLine == [from |-> 0, end |-> 0, hard |-> FALSE, closed |-> FALSE, seen |-> 0]

(* The lines a scan of the whole record finds; an empty record has one.         *)
FullLines == [r \in Records, c \in Columns |->
    IF Texts[r] = <<>> THEN <<EmptyLine>> ELSE LinesFrom(Texts[r], c, 0)]

Measured == [r \in Records, c \in Columns |->
    Len(FullLines[r, c]) * LineHeight + Padding]

LineY(line) == Padding \div 2 + line * LineHeight

(* The checkpoints of a record: its beginning, and the first end of a line at or *)
(* after each multiple of the stride, unless the record ends there.              *)
Entries == [r \in Records, c \in Columns |->
    LET Emit(made, l) ==
            LET due == l.end >= made.next /\ l.end < Len(Texts[r])
            IN [line |-> made.line + 1,
                next |-> IF due THEN (l.end \div Stride + 1) * Stride ELSE made.next,
                list |-> IF due THEN Append(made.list, [offset |-> l.end, line |-> made.line + 1])
                         ELSE made.list]
    IN FoldLeft(Emit, [line |-> 0, next |-> Stride, list |-> <<[offset |-> 0, line |-> 0]>>],
                FullLines[r, c]).list]

(* A mutant: the checkpoint that begins below the window is taken.               *)
EntryBelow(entries, y) ==
    LET below == {i \in DOMAIN entries : LineY(entries[i].line) > y}
    IN entries[Min({Len(entries)} \cup below)]

EntryFor(entries, y) ==
    LET above == {i \in DOMAIN entries : LineY(entries[i].line) <= y}
    IN entries[Max({1} \cup above)]

-----------------------------------------------------------------------------
(* The lines of a record that meet [from, to), at most limit of them.           *)

Meets(y, from, to) == y + LineHeight > from /\ y < to

Fragment(r, l, line) == [record |-> r, from |-> l.from, end |-> l.end,
                         hard |-> l.hard, y |-> LineY(line)]

Begun(entry) == [line |-> entry.line, offset |-> entry.offset, seen |-> entry.offset,
                 fragments |-> <<>>, truncated |-> FALSE, stop |-> FALSE, closed |-> TRUE]

EmitLine(scan, r, l, from, to, limit) ==
    LET hit == Meets(LineY(scan.line), from, to)
        room == Len(scan.fragments) < limit
        found == IF hit /\ room THEN Append(scan.fragments, Fragment(r, l, scan.line))
                 ELSE scan.fragments
    IN [scan EXCEPT !.line = @ + 1, !.fragments = found,
                    !.truncated = @ \/ (hit /\ ~room),
                    !.stop = LineY(scan.line) >= to \/ Len(found) >= limit,
                    !.closed = l.closed, !.seen = l.seen]

(* A scan that found nothing adds a line at the end of the record.                *)
AtTheEnd(scan, r, from, to, limit) ==
    LET end == Len(Texts[r])
        last == [EmptyLine EXCEPT !.from = end, !.end = end]
    IN CASE scan.stop -> scan
         [] ~scan.stop /\ scan.closed /\ scan.fragments = <<>> ->
                [EmitLine(scan, r, last, from, to, limit) EXCEPT !.seen = end]
         [] OTHER -> [scan EXCEPT !.seen = end]

(* From a checkpoint until the window or the limit ends the scan.                *)
ScanFrom(entry, r, c, from, to, limit) ==
    LET Step(scan, l) == IF scan.stop THEN scan ELSE EmitLine(scan, r, l, from, to, limit)
    IN AtTheEnd(FoldLeft(Step, Begun(entry), LinesFrom(Texts[r], c, entry.offset)),
                r, from, to, limit)

CheckpointScan(r, c, from, to, limit) ==
    ScanFrom(EntryFor(Entries[r, c], from), r, c, from, to, limit)

(* The engine looks at every line.                                              *)
FullScan(r, c, from, to, limit) ==
    LET Step(scan, l) == EmitLine(scan, r, l, from, to, limit)
    IN FoldLeft(Step, Begun(Entries[r, c][1]), FullLines[r, c])

-----------------------------------------------------------------------------
(* The arena's view of the document, and the anchor.                             *)

Tops(h) == LET After(tops, r) == Append(tops, tops[Len(tops)] + h[r])
           IN FoldLeft(After, <<0>>, order)
Top(h, i) == Tops(h)[i]
Total(h) == Tops(h)[Len(order) + 1]

InView(tops, h, scroll) ==
    LET total == tops[Len(tops)]
        from == Min({total, IF scroll > Overscan THEN scroll - Overscan ELSE 0})
        to == Min({total, scroll + ViewHeight + Overscan})
        inside == SetToSortSeq({i \in DOMAIN order : tops[i + 1] > from /\ tops[i] < to}, <)
        Found(i) == [index |-> i, source |-> order[i], y |-> tops[i], height |-> h[order[i]]]
    IN [from |-> from, to |-> to, truncated |-> Len(inside) > MaxFragments,
        records |-> [k \in 1..Min({Len(inside), MaxFragments}) |-> Found(inside[k])]]

Materialize(h, scroll) == InView(Tops(h), h, scroll)

(* The record under the scroll position, or the nearest that was found.          *)
AnchorAt(view, scroll) ==
    LET under == {k \in DOMAIN view.records : LET v == view.records[k]
                                              IN scroll >= v.y /\ scroll < v.y + v.height}
        v == view.records[IF under # {} THEN Min(under)
                          ELSE IF scroll < view.records[1].y THEN 1 ELSE Len(view.records)]
        into == IF scroll > v.y THEN scroll - v.y ELSE 0
    IN [index |-> v.index, oldHeight |-> v.height, local |-> Min({into, v.height - 1}),
        y |-> v.y, height |-> v.height]

(* A mutant: records before the anchor do not move it.                           *)
ResizedOnly(anchor, v, new) ==
    IF v.index = anchor.index THEN [anchor EXCEPT !.height = new] ELSE anchor

(* A record that is measured moves the anchor behind it, or resizes it.          *)
Moved(anchor, v, new) ==
    CASE v.index < anchor.index ->
            [anchor EXCEPT !.y = Max({0, anchor.y + new - v.height})]
      [] v.index = anchor.index -> [anchor EXCEPT !.height = new]
      [] OTHER -> anchor

AnchoredScroll(anchor) ==
    anchor.y + Min({(anchor.local * anchor.height) \div anchor.oldHeight, anchor.height - 1})

Corrected(h, anchor) ==
    Min({AnchoredScroll(anchor),
         IF Total(h) > ViewHeight THEN Total(h) - ViewHeight ELSE 0})

-----------------------------------------------------------------------------
(* The LRU caches, and the checkpoint of a record.                               *)

IndexCharge == [key \in Records \X Columns |-> 1 + Len(Entries[key])]
WindowCharge == [key \in Records \X (0..LongestText) \X (1..IoWindow) |-> 1 + key[3]]

(* A key that is used goes to the front; a new one pushes out as many of the     *)
(* oldest as its charge needs, and one above the budget stays out.               *)
Used(cache, key, charge, budget) ==
    LET Sum(sum, k) == sum + charge[k]
        fits == {n \in 0..Len(cache) : FoldLeft(Sum, charge[key], SubSeq(cache, 1, n)) <= budget}
    IN CASE key \in Range(cache) -> <<key>> \o SelectSeq(cache, LAMBDA k : k # key)
         [] key \notin Range(cache) /\ charge[key] <= budget ->
                <<key>> \o SubSeq(cache, 1, Max(fits))
         [] OTHER -> cache

Available(cache, r, c) == <<r, c>> \in Range(cache) \cup files

(* The session measures the records in view, one after the other, until one has  *)
(* no checkpoint.                                                               *)
MeasureBegun(anchor) == [heights |-> heights, indices |-> indices, anchor |-> anchor, ok |-> TRUE]

MeasureByIndex(view, anchor, c) ==
    LET Step(m, v) ==
            IF ~m.ok \/ ~Available(m.indices, v.source, c) THEN [m EXCEPT !.ok = FALSE]
            ELSE [m EXCEPT !.heights[v.source] = Measured[v.source, c],
                           !.indices = Used(@, <<v.source, c>>, IndexCharge, IndexBudget),
                           !.anchor = Moved(@, v, Measured[v.source, c])]
    IN FoldLeft(Step, MeasureBegun(anchor), view.records)

(* The source windows a scan reads, as long as none fails.                       *)
ReadWindows(cache, r, scan, bad) ==
    LET keys == [k \in 1..((scan.seen - scan.offset + IoWindow - 1) \div IoWindow) |->
                    LET o == scan.offset + (k - 1) * IoWindow
                    IN <<r, o, Min({IoWindow, Len(Texts[r]) - o})>>]
        Step(reads, key) ==
            IF ~reads.ok \/ (r = bad /\ key \notin Range(reads.windows))
            THEN [reads EXCEPT !.ok = FALSE]
            ELSE [reads EXCEPT !.windows = Used(@, key, WindowCharge, WindowBudget)]
    IN FoldLeft(Step, [windows |-> cache, ok |-> TRUE], keys)

(* The lines of the records in view, until there are enough.                     *)
PlacedIn(v, fragments) == [k \in DOMAIN fragments |-> [fragments[k] EXCEPT !.y = @ + v.y]]
Below(v, y) == IF y > v.y THEN y - v.y ELSE 0

FindBegun(view, ixs) == [is |-> "found", fragments |-> <<>>, truncated |-> view.truncated,
                         indices |-> ixs, windows |-> windows]

WithLines(found, v, scan) ==
    [found EXCEPT !.fragments = @ \o PlacedIn(v, scan.fragments),
                  !.truncated = @ \/ scan.truncated]

FoundIn(found, v, scan, reads, c) ==
    [WithLines(found, v, scan) EXCEPT
        !.is = IF reads.ok THEN @ ELSE "failed", !.windows = reads.windows,
        !.indices = Used(@, <<v.source, c>>, IndexCharge, IndexBudget)]

FoundByScan(found, v, scan, c, bad) ==
    FoundIn(found, v, scan, ReadWindows(found.windows, v.source, scan, bad), c)

FindByIndex(view, ixs, c, bad) ==
    LET Step(found, v) ==
            LET room == MaxFragments - Len(found.fragments)
            IN CASE found.is # "found" -> found
                 [] found.is = "found" /\ room = 0 -> [found EXCEPT !.truncated = TRUE]
                 [] found.is = "found" /\ room > 0 /\ ~Available(found.indices, v.source, c) ->
                        [found EXCEPT !.is = "declined"]
                 [] OTHER ->
                        FoundByScan(found, v, CheckpointScan(v.source, c, Below(v, view.from),
                                                             Below(v, view.to), room), c, bad)
    IN FoldLeft(Step, FindBegun(view, ixs), view.records)

Answer(asked, scroll, c, view, truncated, found) ==
    [is |-> "lines", asked |-> asked, scroll |-> scroll, columns |-> c, from |-> view.from,
     to |-> view.to, records |-> view.records, fragments |-> found.fragments,
     truncated |-> truncated \/ found.truncated]

Returns(what, h, ixs, ws) == [answer |-> what, heights |-> h, indices |-> ixs, windows |-> ws]

(* One layout of the session, with a record of which nothing can be read: the    *)
(* records in view are measured, the view is corrected, its lines are found.     *)
SessionFinds(asked, scroll, c, view, truncated, m, found) ==
    Returns(CASE found.is = "found" -> Answer(asked, scroll, c, view, truncated, found)
              [] found.is = "failed" -> Failed
              [] OTHER -> Declined,
            m.heights, found.indices, found.windows)

SessionCorrected(asked, scroll, c, truncated, m, bad) ==
    LET view == Materialize(m.heights, scroll)
    IN SessionFinds(asked, scroll, c, view, truncated, m, FindByIndex(view, m.indices, c, bad))

SessionMeasured(asked, c, truncated, m, bad) ==
    IF ~m.ok THEN Returns(Declined, m.heights, m.indices, windows)
    ELSE SessionCorrected(asked, Corrected(m.heights, m.anchor), c, truncated, m, bad)

SessionLayout(asked, c, bad) ==
    LET first == Materialize(heights, asked)
    IN IF first.records = <<>> THEN Returns(Declined, heights, indices, windows)
       ELSE SessionMeasured(asked, c, first.truncated,
                            MeasureByIndex(first, AnchorAt(first, asked), c), bad)

(* What the engine answers to the same request.                                 *)
EngineMeasures(first, anchor, c) ==
    LET Measure(m, v) == [heights |-> [m.heights EXCEPT ![v.source] = Measured[v.source, c]],
                          anchor |-> Moved(m.anchor, v, Measured[v.source, c])]
    IN FoldLeft(Measure, [heights |-> heights, anchor |-> anchor], first.records)

EngineFinds(view, c) ==
    LET Find(found, v) ==
            LET room == MaxFragments - Len(found.fragments)
            IN IF room = 0 THEN [found EXCEPT !.truncated = TRUE]
               ELSE WithLines(found, v, FullScan(v.source, c, Below(v, view.from),
                                                 Below(v, view.to), room))
    IN FoldLeft(Find, [fragments |-> <<>>, truncated |-> view.truncated], view.records)

EngineCorrected(asked, scroll, c, truncated, m) ==
    LET view == Materialize(m.heights, scroll)
    IN Answer(asked, scroll, c, view, truncated, EngineFinds(view, c))

EngineMeasured(asked, c, truncated, m) ==
    EngineCorrected(asked, Corrected(m.heights, m.anchor), c, truncated, m)

EngineAnswer(asked, c) ==
    LET first == Materialize(heights, asked)
    IN EngineMeasured(asked, c, first.truncated,
                      EngineMeasures(first, AnchorAt(first, asked), c))

-----------------------------------------------------------------------------
Init ==
    /\ order = [r \in Records |-> r]
    /\ heights = Estimates
    /\ files \in {Records \X built : built \in SUBSET Columns}
    /\ indices = <<>>
    /\ windows = <<>>
    /\ answer = Nothing
    /\ calls = 0

Called == calls < MaxCalls /\ calls' = calls + 1

Layout ==
    /\ Called
    /\ \E asked \in Scrolls, c \in Columns, bad \in Unreadable :
        \E done \in {SessionLayout(asked, c, bad)} :
            /\ heights' = done.heights
            /\ indices' = done.indices
            /\ windows' = done.windows
            /\ answer' = done.answer
    /\ UNCHANGED <<order, files>>

(* A checkpoint is built, or its file is lost or no longer fits.                  *)
BuildCheckpoint ==
    /\ Called
    /\ \E r \in Records, c \in Columns : files' = files \cup {<<r, c>>}
    /\ answer' = Nothing
    /\ UNCHANGED <<order, heights, indices, windows>>

LoseCheckpoint ==
    /\ Called
    /\ \E key \in files : files' = files \ {key}
    /\ answer' = Nothing
    /\ UNCHANGED <<order, heights, indices, windows>>

(* A window that was read ahead.                                                 *)
AdmitPrefetched ==
    /\ Called
    /\ \E r \in Records, size \in 1..IoWindow, o \in 0..LongestText :
        /\ o + size <= Len(Texts[r])
        /\ windows' = Used(windows, <<r, o, size>>, WindowCharge, WindowBudget)
    /\ answer' = Nothing
    /\ UNCHANGED <<order, heights, files, indices>>

TrimMemory ==
    /\ Called
    /\ windows' = <<>>
    /\ indices' \in {indices, <<>>}
    /\ answer' = Nothing
    /\ UNCHANGED <<order, heights, files>>

MoveRecord ==
    /\ Called
    /\ \E i, j \in DOMAIN order : i # j /\ order' = InsertAt(RemoveAt(order, i), j, order[i])
    /\ answer' = Nothing
    /\ UNCHANGED <<heights, files, indices, windows>>

Next == Layout \/ BuildCheckpoint \/ LoseCheckpoint \/ AdmitPrefetched \/ TrimMemory \/ MoveRecord

Spec == Init /\ [][Next]_vars

-----------------------------------------------------------------------------
(* A checkpoint is in memory once and within the budget, as is a window, and a   *)
(* height is the estimate or a measurement.                                     *)
WithinBudget(cache, charge, budget) ==
    /\ IsInjective(cache)
    /\ LET Sum(sum, k) == sum + charge[k] IN FoldLeft(Sum, 0, cache) <= budget

WindowsTypeOK ==
    /\ Range(order) = Records
    /\ \A r \in Records : heights[r] \in {Estimates[r]} \cup {Measured[r, c] : c \in Columns}
    /\ WithinBudget(indices, IndexCharge, IndexBudget)
    /\ WithinBudget(windows, WindowCharge, WindowBudget)

(* The line a scan from a checkpoint adds at the end of a record when the window *)
(* begins below its last line.                                                  *)
Added(f) == f.from = f.end /\ f.end = Len(Texts[f.record]) /\ f.end > 0

(* The session answers what the engine would: the same lines at the same places, *)
(* all of them unless it has as many fragments as it may have.  Only lines added *)
(* at the end of a record come on top.                                          *)
SameAsFullScan ==
    [][answer'.is = "lines" /\ calls' # calls =>
        LET mine == answer'
            full == EngineAnswer(mine.asked, mine.columns)
            lines == SelectSeq(mine.fragments, LAMBDA f : ~Added(f))
        IN /\ mine.scroll = full.scroll /\ mine.records = full.records
           /\ IsPrefix(lines, full.fragments)
           /\ lines = full.fragments \/ Len(mine.fragments) = MaxFragments]_vars

(* The record under the scroll position stays under it, at the same share of its *)
(* height, unless the document ends too early or the window held more records    *)
(* than were looked at.                                                         *)
UnderScroll(h, scroll) == CHOOSE i \in DOMAIN order : Top(h, i) <= scroll /\ scroll < Top(h, i + 1)

AnchorKept ==
    [][answer'.is = "lines" /\ calls' # calls =>
        LET mine == answer'
            i == UnderScroll(heights, mine.asked)
            j == UnderScroll(heights', mine.scroll)
            share == ((mine.asked - Top(heights, i)) * heights'[order[i]]) \div heights[order[i]]
        IN \/ mine.asked >= Total(heights) \/ Materialize(heights, mine.asked).truncated
           \/ mine.scroll = Total(heights') - ViewHeight \/ Total(heights') <= ViewHeight
           \/ i = j /\ mine.scroll - Top(heights', j) = share]_vars

(* A window whose records are all measured is laid out again where it says it    *)
(* is, with the same lines, and no line lies over another.                       *)
Settled ==
    answer.is = "lines" /\ (\A k \in DOMAIN answer.records :
            answer.records[k].height = Measured[answer.records[k].source, answer.columns]) =>
        /\ LET again == SessionLayout(answer.scroll, answer.columns, 0).answer
           IN again.is = "lines" =>
                again.scroll = answer.scroll /\ again.fragments = answer.fragments
        /\ \A k \in 2..Len(answer.fragments) :
                answer.fragments[k].y >= answer.fragments[k - 1].y + LineHeight
================================================================================
