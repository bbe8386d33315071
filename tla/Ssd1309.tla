------------------------------ MODULE Ssd1309 ------------------------------
(***************************************************************************)
(* What the drawing functions of ohs_ssd1309.h do to the panel, which has  *)
(* no buffer: eight pages of 128 columns that keep what nothing overwrites.*)
(* The columns 126 and 127 of a page, its edge, are beside the text.  A    *)
(* part of a page is the set of the screens whose pixels it shows; an edge *)
(* that is dark is nobody's.                                               *)
(***************************************************************************)
EXTENDS Naturals

Pages == 0 .. 7
Dark == [p \in Pages |-> [text |-> {}, edge |-> {}]]

(* ssd1309Print, padded to the full width, on each of some pages. *)
PrintFull(panel, screen, pages) ==
  [p \in Pages |-> IF p \in pages THEN [text |-> {screen}, edge |-> {}] ELSE panel[p]]
PrintBig(panel, screen, page) == PrintFull(panel, screen, page .. page + 1)

(* ssd1309PrintInverted: lit to both edges.  So are the lines, in part. *)
PrintInverted(panel, screen, pages) ==
  [p \in Pages |-> IF p \in pages THEN [text |-> {screen}, edge |-> {screen}] ELSE panel[p]]
Hline(panel, screen, page) == PrintInverted(panel, screen, {page})

(* The functions with a column, inverted or not: they touch their own      *)
(* footprint on some pages, and no edge.                                   *)
Over(panel, screen, pages) ==
  [p \in Pages |-> IF p \in pages THEN [panel[p] EXCEPT !.text = @ \cup {screen}]
                                  ELSE panel[p]]
PrintAt(panel, screen, page) == Over(panel, screen, {page})
PrintBigAt(panel, screen, page) == Over(panel, screen, page .. page + 1)
DrawBitmap(panel, screen, page, span) == Over(panel, screen, page .. page + span - 1)

(* ssd1309Bar: 126 columns. *)
Bar(panel, screen, page) == [panel EXCEPT ![page].text = {screen}]

(* ssd1309Clear *)
Clear == Dark
=============================================================================
