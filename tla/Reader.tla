------------------------------- MODULE Reader -------------------------------
(***************************************************************************)
(* The sheet reader (src/omr/detect.py): what is made of one photograph of *)
(* a printed page.  The image work is abstracted to its verdicts: which of *)
(* the gates a photograph fails, and how much ink is found in each box.    *)
(* What is kept is the order of things: nothing is measured unless the     *)
(* page was squared up the right way round, from the template this server  *)
(* prints, and carries the code of the sheet it was filed under.           *)
(***************************************************************************)
EXTENDS Naturals, Sequences

CONSTANTS
    Sheets,      \* printed pages, and the codes in their headers
    Members,
    Manifest,    \* [Sheets -> Seq(Members)]: the names on each page, row by row
    Versions,    \* template versions
    VersionOf,   \* [Sheets -> Versions]: the template a page was printed from
    Version,     \* TEMPLATE_VERSION of the running server
    Shots,       \* photographs
    Shot,        \* what each of them shows, see Photograph
    Null         \* nothing: SQL NULL, a missing row, no request under way

\* What _assert_usable, _register, _outermost_quad and _decode ask to be taken again.
Fault == {"no image", "dark", "glare", "flat", "blurred", "corners", "obscured", "curled"}

Rotations == 0 .. 3

\* The ink in a box: none, too little to be sure of under some limits, a tick.
Ink == 0 .. 2

\* sheet: the page on the photograph, whatever it was filed under.
\* ink: what stands in the box beside each name on that page.
Photograph == [sheet : Sheets, faults : SUBSET Fault, turned : Rotations,
               ink : [Members -> Ink]]

ASSUME ReaderAssumption ==
    /\ Manifest \in [Sheets -> Seq(Members) \ {<<>>}]   \* no page is printed empty
    /\ VersionOf \in [Sheets -> Versions]
    /\ Version \in Versions
    /\ Shot \in [Shots -> Photograph]
    /\ Null \notin Sheets \cup Members \cup Shots

\* Up to where a box counts as blank and from where on as marked; nothing keeps
\* the two in order.
Limit == [low : Ink, high : Ink]

CellState == {"marked", "blank", "uncertain"}

-----------------------------------------------------------------------------
\* Light and sharpness, before anything is looked for.
Usable(p) == Shot[p].faults \cap {"no image", "dark", "glare", "flat", "blurred"} = {}

\* The four marks are found and can be told apart.
HasCorners(p) == "corners" \notin Shot[p].faults

\* The pointer code is decoded, and lies in the header, only when the page is
\* turned back the way it was photographed.
PointerReads(p, rotation) ==
    "obscured" \notin Shot[p].faults /\ rotation = Shot[p].turned

\* The corner marks and the outlines of the boxes are where the template has them.
LinedUp(p, rotation) == "curled" \notin Shot[p].faults /\ rotation = Shot[p].turned

\* The first rotation with a readable pointer decides; it must line up.
Registered(p) ==
    /\ HasCorners(p)
    /\ \E rotation \in Rotations : PointerReads(p, rotation) /\ LinedUp(p, rotation)

\* What the pointer says.
CodeOn(p) == Shot[p].sheet
PrintedFrom(p) == VersionOf[Shot[p].sheet]

\* Mutant: the ink of the row below.
InkBelow(p, i) ==
    LET names == Manifest[Shot[p].sheet]
    IN IF i < Len(names) THEN Shot[p].ink[names[i + 1]] ELSE 0

\* The ink in the box of row i of the page.
InkAt(p, i) ==
    LET names == Manifest[Shot[p].sheet]
    IN IF i <= Len(names) THEN Shot[p].ink[names[i]] ELSE 0

Cell(ink, limits) ==
    CASE ink >= limits.high -> "marked"
      [] ink < limits.high /\ ink <= limits.low -> "blank"
      [] OTHER              -> "uncertain"

Measured(p, count, limits) == [i \in 1 .. count |-> Cell(InkAt(p, i), limits)]

Rejected == [status |-> "rejected", code |-> Null, rows |-> <<>>]

\* The whole of detect(): a photograph, the sheet it is filed under, the limits.
Detect(p, sheet, limits) ==
    IF Usable(p) /\ Registered(p) /\ PrintedFrom(p) = Version /\ CodeOn(p) = sheet
    THEN [status |-> "detected", code |-> CodeOn(p),
          rows |-> Measured(p, Len(Manifest[sheet]), limits)]
    ELSE Rejected
=============================================================================
