------------------------------ MODULE ImageText ------------------------------
(***************************************************************************)
(* Firmware images as text.  The composer writes three regions as Intel    *)
(* HEX or S-records, a compiler writes S-records with a count; lines get   *)
(* lost, repeated or swapped on the way.  Two readers: image_parser of the *)
(* release tools and load_srec_image of the flash tools.  A byte's value   *)
(* is the address it belongs to, so that a misplaced one shows.            *)
(***************************************************************************)
EXTENDS Naturals, FiniteSets, SequencesExt

CONSTANTS
    Top,        \* addresses are below this
    Chunk,      \* bytes in a line
    Page        \* bytes that a line's own address can tell apart

ASSUME TextAssumption == Top \in Nat /\ Chunk \in Nat \ {0} /\ Page \in Nat \ {0}

VARIABLES
    regions,    \* what is to be written, in the order of the addresses
    text,       \* the lines of the file
    form,       \* "none", "hex", "s19" or "compiled"
    lost        \* history: "nothing", a "data" line, "any" other harm

textVars == <<regions, text, form, lost>>

Segment(at, data) == [at |-> at, data |-> data]
End(s) == s.at + Len(s.data)
Region(at, n) == Segment(at, [i \in 1..n |-> at + i - 1])
Memory(segments) ==
    UNION {{<<s.at + i - 1, s.data[i]>> : i \in DOMAIN s.data} : s \in Range(segments)}

TextInit ==
    /\ \E b, v, a \in 0..(Top - 1), m, n, k \in 1..Top :
         /\ b + m <= v /\ v + n <= a /\ a + k <= Top
         /\ regions = <<Region(b, m), Region(v, n), Region(a, k)>>
    /\ text = <<>> /\ form = "none" /\ lost = "nothing"

-------------------------------------------------------------------------------
(* The writers.                                                            *)

Line(kind, at, data) == [kind |-> kind, at |-> at, data |-> data]

Chunks(s) ==
    [k \in 1..((Len(s.data) + Chunk - 1) \div Chunk) |->
        LET from == (k - 1) * Chunk
            to == IF from + Chunk < Len(s.data) THEN from + Chunk ELSE Len(s.data)
        IN Segment(s.at + from, SubSeq(s.data, from + 1, to))]
AllChunks == FlattenSeq([i \in DOMAIN regions |-> Chunks(regions[i])])

\* A line for the page when it changes; a mutant writes the first one only.
PageLineFirst(i) == i = 1
PageLine(i) == i = 1 \/ AllChunks[i].at \div Page # AllChunks[i - 1].at \div Page

HexText ==
    FlattenSeq([i \in DOMAIN AllChunks |->
        LET c == AllChunks[i] IN
          (IF PageLine(i) THEN <<Line("page", c.at \div Page, <<>>)>> ELSE <<>>)
            \o <<Line("data", c.at % Page, c.data)>>])
      \o <<Line("end", 0, <<>>)>>

DataLines == [i \in DOMAIN AllChunks |-> Line("data", AllChunks[i].at, AllChunks[i].data)]

\* The composer gives 0 as the entry address, whatever the image holds.
S19Text == Append(DataLines, Line("end", 0, <<>>))

CompiledText ==
    DataLines \o <<Line("count", Len(DataLines), <<>>), Line("end", regions[1].at, <<>>)>>

\* A file that is there is replaced.
Write(f) ==
    /\ form' = f /\ lost' = "nothing"
    /\ text' = CASE f = "hex" -> HexText [] f = "s19" -> S19Text [] f = "compiled" -> CompiledText
    /\ UNCHANGED regions

LoseLine(i) ==
    /\ lost = "nothing" /\ text' = RemoveAt(text, i)
    /\ lost' = IF text[i].kind = "data" THEN "data" ELSE "any"
    /\ UNCHANGED <<regions, form>>

RepeatLine(i) ==
    /\ lost = "nothing" /\ text' = InsertAt(text, i, text[i]) /\ lost' = "any"
    /\ UNCHANGED <<regions, form>>

SwapLines(i) ==
    /\ lost = "nothing" /\ i < Len(text) /\ lost' = "any"
    /\ text' = [text EXCEPT ![i] = text[i + 1], ![i + 1] = text[i]]
    /\ UNCHANGED <<regions, form>>

TextNext ==
    \/ \E f \in {"hex", "s19", "compiled"} : Write(f)
    \/ \E i \in DOMAIN text : LoseLine(i) \/ RepeatLine(i) \/ SwapLines(i)

-------------------------------------------------------------------------------
(* image_parser.  What it returns: ok, and the segments.                   *)

\* Python's sort is stable: a segment goes behind those that begin where it does.
Insert(segments, s) ==
    LET before == {i \in DOMAIN segments : segments[i].at <= s.at}
    IN InsertAt(segments, Max({0} \cup before) + 1, s)
Sorted(segments) == FoldLeft(Insert, <<>>, segments)

Merge(m, s) ==
    LET last == m.segments[Len(m.segments)] IN
      IF m.segments = <<>> THEN [m EXCEPT !.segments = <<s>>]
      ELSE CASE s.at < End(last) -> [m EXCEPT !.ok = FALSE]
             [] s.at = End(last) -> [m EXCEPT !.segments[Len(m.segments)].data = @ \o s.data]
             [] s.at > End(last) -> [m EXCEPT !.segments = Append(@, s)]

Finish(segments) ==
    FoldLeft(Merge, [ok |-> segments # <<>>, segments |-> <<>>], Sorted(segments))

Start == [ok |-> TRUE, ended |-> FALSE, base |-> 0, entry |-> 0, counts |-> <<>>, segments |-> <<>>]

\* A line after the last one is refused in both formats.
HexLine(p, l) ==
    IF p.ended THEN [p EXCEPT !.ok = FALSE]
    ELSE CASE l.kind = "page" -> [p EXCEPT !.base = l.at * Page]
           [] l.kind = "end"  -> [p EXCEPT !.ended = TRUE]
           [] OTHER -> [p EXCEPT !.segments = Append(@, Segment(p.base + l.at, l.data))]

SrecLine(p, l) ==
    IF p.ended THEN [p EXCEPT !.ok = FALSE]
    ELSE CASE l.kind = "count" -> [p EXCEPT !.counts = Append(@, l.at), !.ok = @ /\ p.counts = <<>>]
           [] l.kind = "end"   -> [p EXCEPT !.ended = TRUE, !.entry = l.at]
           [] OTHER -> [p EXCEPT !.segments = Append(@, Segment(l.at, l.data))]

ReadLine(p, l) == IF form = "hex" THEN HexLine(p, l) ELSE SrecLine(p, l)

Accepted(p) == p.ok /\ p.ended /\ (p.counts = <<>> \/ p.counts[1] = Len(p.segments))
Covered(address, segments) == \E s \in Range(segments) : s.at <= address /\ address < End(s)

Parsed ==
    LET p == FoldLeft(ReadLine, Start, text)
        f == Finish(p.segments)
    IN [ok |-> Accepted(p) /\ f.ok /\ (form = "hex" \/ Covered(p.entry, f.segments)),
        segments |-> f.segments]

-------------------------------------------------------------------------------
(* load_srec_image of a window of addresses: only data lines are looked at.*)

Outside(s, from, to) == End(s) <= from \/ s.at >= to
Sliced(s, from) ==
    IF s.at >= from THEN Segment(s.at, s.data)
    ELSE Segment(from, SubSeq(s.data, from - s.at + 1, Len(s.data)))

InWindow(from, to) ==
    FoldLeft(LAMBDA found, l :
                 IF l.data = <<>> \/ Outside(Segment(l.at, l.data), from, to) THEN found
                 ELSE Append(found, Segment(l.at, l.data)),
             <<>>, text)

Join(m, s) == [ok |-> m.ok /\ s.at = m.next, next |-> End(s), data |-> m.data \o s.data]

Loaded(from, to) ==
    LET found == InWindow(from, to)
        slices == [i \in DOMAIN found |-> Sliced(found[i], from)]
        joined == FoldLeft(Join, [ok |-> found # <<>>, next |-> from, data |-> <<>>],
                           Sorted(slices))
    IN [ok |-> joined.ok /\ \A s \in Range(found) : End(s) <= to, data |-> joined.data]

-------------------------------------------------------------------------------

Touching == \E i \in 1..2 : End(regions[i]) = regions[i + 1].at

\* The composer's own reading finds the image it wrote, unless regions touch
\* (they come back as one, and the composer refuses its file) or, for
\* S-records, nothing lies at the entry address 0.
ComposedIsReadBack ==
    lost = "nothing" /\ form \in {"hex", "s19"} =>
        /\ Parsed.ok <=> form = "hex" \/ Covered(0, regions)
        /\ Memory(Parsed.segments) = Memory(regions)
        /\ (Parsed.segments = regions) <=> ~Touching

\* What image_parser accepts, the flash tools' loader turns into the same
\* bytes for any window it accepts, and it accepts a window that is filled
\* from its start and whose end no line crosses.
LoadersAgree ==
    form \in {"s19", "compiled"} /\ Parsed.ok =>
        \A from \in 0..(Top - 1) : \A to \in (from + 1)..Top :
          LET window == {b \in Memory(Parsed.segments) : from <= b[1] /\ b[1] < to}
              load == Loaded(from, to)
              filled == {b[1] : b \in window} = from..(from + Cardinality(window) - 1)
          IN /\ load.ok => Memory(<<Segment(from, load.data)>>) = window
             /\ window # {} /\ filled
                  /\ (\A s \in Range(InWindow(from, to)) : End(s) <= to) => load.ok

\* With a count record, a lost data line does not go unnoticed.
CountTellsLoss == form = "compiled" /\ lost = "data" => ~Parsed.ok

TextKeepsImage == ComposedIsReadBack /\ LoadersAgree /\ CountTellsLoss
===============================================================================
