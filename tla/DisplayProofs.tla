--------------------------- MODULE DisplayProofs ---------------------------
(***************************************************************************)
(* Theorems about Display, for every set of commanded modes, delays and    *)
(* transient screens: the panel shows nothing of an earlier screen but     *)
(* under an arming whose own was skipped, and a home arm draws no screen.  *)
(***************************************************************************)
EXTENDS Display, TLAPS

Screens == [mode : ShownModes \cup {NoMode}, err : BOOLEAN]
Panels == [Pages -> [text : SUBSET Screens, edge : SUBSET Screens]]

(* The panel shows nothing but the screen s on the pages P; the edge of the*)
(* last page is dark, which no screen clears and ssd1309Bar does not cover.*)
Shows(p, s, P) ==
  /\ p \in Panels /\ p[7].edge = {}
  /\ \A q \in P : p[q].text \cup p[q].edge \subseteq {s}

USE DEF Pages

-----------------------------------------------------------------------------
(* The drawing functions, as what they add to the pages the panel shows s on.*)

(* A padded text covers its pages.                                         *)
LEMMA PrintFullShows ==
  ASSUME NEW s \in Screens, NEW p, NEW P \in SUBSET Pages, Shows(p, s, P),
         NEW pages \in SUBSET Pages
  PROVE  Shows(PrintFull(p, s, pages), s, P \cup pages)
<1>1. PrintFull(p, s, pages) \in Panels
  BY DEF PrintFull, Shows, Panels
<1>2. \A q \in Pages : PrintFull(p, s, pages)[q] =
          IF q \in pages THEN [text |-> {s}, edge |-> {}] ELSE p[q]
  BY DEF PrintFull
<1> QED BY <1>1, <1>2 DEF Shows

(* So do an inverted text and a line, to both edges; the last page has none.*)
LEMMA PrintInvertedShows ==
  ASSUME NEW s \in Screens, NEW p, NEW P \in SUBSET Pages, Shows(p, s, P),
         NEW pages \in SUBSET (Pages \ {7})
  PROVE  Shows(PrintInverted(p, s, pages), s, P \cup pages)
<1>1. PrintInverted(p, s, pages) \in Panels
  BY DEF PrintInverted, Shows, Panels
<1>2. \A q \in Pages : PrintInverted(p, s, pages)[q] =
          IF q \in pages THEN [text |-> {s}, edge |-> {s}] ELSE p[q]
  BY DEF PrintInverted
<1> QED BY <1>1, <1>2 DEF Shows

(* A text or a bitmap at a column adds to its pages what is on them already.*)
LEMMA OverShows ==
  ASSUME NEW s \in Screens, NEW p, NEW P \in SUBSET Pages, Shows(p, s, P),
         NEW pages \in SUBSET Pages
  PROVE  Shows(Over(p, s, pages), s, P)
<1>1. \A q \in Pages : p[q] \in [text : SUBSET Screens, edge : SUBSET Screens]
  BY DEF Shows, Panels
<1>2. \A q \in Pages :
        /\ Over(p, s, pages)[q].text =
             IF q \in pages THEN p[q].text \cup {s} ELSE p[q].text
        /\ Over(p, s, pages)[q].edge = p[q].edge
        /\ Over(p, s, pages)[q] \in [text : SUBSET Screens, edge : SUBSET Screens]
  BY <1>1 DEF Over
<1>3. Over(p, s, pages) \in Panels
  BY <1>2 DEF Over, Panels
<1> QED BY <1>2, <1>3 DEF Shows

(* The bar of the countdown covers the last page but for its edge.         *)
LEMMA BarShows ==
  ASSUME NEW s \in Screens, NEW p, NEW P \in SUBSET Pages, Shows(p, s, P)
  PROVE  Shows(Bar(p, s, 7), s, P \cup {7})
<1>1. \A q \in Pages : p[q] \in [text : SUBSET Screens, edge : SUBSET Screens]
  BY DEF Shows, Panels
<1>2. Bar(p, s, 7) = [p EXCEPT ![7] = [p[7] EXCEPT !.text = {s}]]
  BY DEF Bar, Shows, Panels
<1>3. Bar(p, s, 7) \in Panels
  BY <1>1, <1>2 DEF Shows, Panels
<1>4. \A q \in Pages \ {7} : Bar(p, s, 7)[q] = p[q]
  BY <1>2 DEF Shows, Panels
<1>5. Bar(p, s, 7)[7].text = {s} /\ Bar(p, s, 7)[7].edge = {}
  BY <1>1, <1>2 DEF Shows, Panels
<1> QED BY <1>3, <1>4, <1>5 DEF Shows

(* The functions of a page, and of two: a big text, a bitmap of some height.*)
LEMMA PrintBigShows ==
  ASSUME NEW s \in Screens, NEW p, NEW P \in SUBSET Pages, Shows(p, s, P),
         NEW n \in 0 .. 6
  PROVE  Shows(PrintBig(p, s, n), s, P \cup (n .. n + 1))
BY PrintFullShows, n .. n + 1 \in SUBSET Pages DEF PrintBig

(* A line covers its page.                                                 *)
LEMMA HlineShows ==
  ASSUME NEW s \in Screens, NEW p, NEW P \in SUBSET Pages, Shows(p, s, P),
         NEW n \in 0 .. 6
  PROVE  Shows(Hline(p, s, n), s, P \cup {n})
BY PrintInvertedShows, {n} \in SUBSET (Pages \ {7}) DEF Hline

(* A text at a column is of one page.                                      *)
LEMMA PrintAtShows ==
  ASSUME NEW s \in Screens, NEW p, NEW P \in SUBSET Pages, Shows(p, s, P),
         NEW n \in Pages
  PROVE  Shows(PrintAt(p, s, n), s, P)
BY OverShows, {n} \in SUBSET Pages DEF PrintAt

LEMMA PrintBigAtShows ==
  ASSUME NEW s \in Screens, NEW p, NEW P \in SUBSET Pages, Shows(p, s, P),
         NEW n \in 0 .. 6
  PROVE  Shows(PrintBigAt(p, s, n), s, P)
BY OverShows, n .. n + 1 \in SUBSET Pages DEF PrintBigAt

LEMMA BitmapShows ==
  ASSUME NEW s \in Screens, NEW p, NEW P \in SUBSET Pages, Shows(p, s, P),
         NEW n \in Pages, NEW h \in 1 .. 8 - n
  PROVE  Shows(DrawBitmap(p, s, n, h), s, P)
BY OverShows, n .. n + h - 1 \in SUBSET Pages DEF DrawBitmap

-----------------------------------------------------------------------------
(* The screens.                                                            *)

(* The footers take the last two pages, or the last.                       *)
LEMMA FooterShows ==
  ASSUME NEW s \in Screens, NEW p, NEW P \in SUBSET Pages, Shows(p, s, P)
  PROVE  Shows(Footer(p, s), s, P \cup {6} \cup {7})
<1> DEFINE line == Hline(p, s, 6)
           blank == PrintFull(line, s, {7})
<1>1. Shows(line, s, P \cup {6})
  BY HlineShows, 6 \in 0 .. 6
<1> HIDE DEF line
<1>2. Shows(blank, s, P \cup {6} \cup {7})
  BY <1>1, PrintFullShows, P \cup {6} \in SUBSET Pages, {7} \in SUBSET Pages
<1> HIDE DEF blank
<1>3. Shows(DrawBitmap(blank, s, 7, 1), s, P \cup {6} \cup {7})
  BY <1>2, BitmapShows, P \cup {6} \cup {7} \in SUBSET Pages
<1> QED BY <1>3 DEF Footer, blank, line

LEMMA RetryFooterShows ==
  ASSUME NEW s \in Screens, NEW p, NEW P \in SUBSET Pages, Shows(p, s, P)
  PROVE  Shows(RetryFooter(p, s), s, P \cup {7})
BY PrintFullShows, {7} \in SUBSET Pages DEF RetryFooter

(* Every screen begins with the first three pages.                         *)
LEMMA PreambleShows ==
  ASSUME NEW s \in Screens, NEW p, Shows(p, s, {})
  PROVE  Shows(Preamble(p, s), s, 0 .. 2)
<1> DEFINE header == PrintFull(p, s, {0})
           line == Hline(header, s, 1)
<1>1. Shows(header, s, {} \cup {0})
  BY PrintFullShows, {} \in SUBSET Pages, {0} \in SUBSET Pages
<1> HIDE DEF header
<1>2. Shows(line, s, {} \cup {0} \cup {1})
  BY <1>1, HlineShows, {} \cup {0} \in SUBSET Pages, 1 \in 0 .. 6
<1> HIDE DEF line
<1>3. Shows(PrintFull(line, s, {2}), s, {} \cup {0} \cup {1} \cup {2})
  BY <1>2, PrintFullShows, {} \cup {0} \cup {1} \in SUBSET Pages, {2} \in SUBSET Pages
<1>4. {} \cup {0} \cup {1} \cup {2} = 0 .. 2
  OBVIOUS
<1> QED BY <1>3, <1>4 DEF Preamble, header, line

(* A message takes pages 3 and 4 and those of its lines.                   *)
LEMMA MessageShows ==
  ASSUME NEW s \in Screens, NEW p, Shows(p, s, 0 .. 2), NEW pages \in SUBSET Pages
  PROVE  Shows(Message(p, s, pages), s, (0 .. 4) \cup pages)
<1>1. Shows(PrintBig(p, s, 3), s, (0 .. 2) \cup (3 .. 3 + 1))
  BY PrintBigShows, 0 .. 2 \in SUBSET Pages, 3 \in 0 .. 6
<1>2. (0 .. 2) \cup (3 .. 3 + 1) = 0 .. 4 /\ 0 .. 4 \in SUBSET Pages
  OBVIOUS
<1> QED BY <1>1, <1>2, PrintFullShows DEF Message


(* The screens of dispRender, one by one: each covers the panel.           *)
LEMMA DisarmedShows ==
  ASSUME NEW s \in Screens, NEW p, Shows(p, s, 0 .. 2)
  PROVE  Shows(Disarmed(p, s), s, Pages)
<1> DEFINE warning == Message(p, s, {5})
           blank == PrintFull(p, s, 3 .. 5)
           lock == DrawBitmap(blank, s, 2, 3)
           title == PrintAt(lock, s, 2)
<1>1. 0 .. 2 \in SUBSET Pages /\ 3 .. 5 \in SUBSET Pages /\ 0 .. 5 \in SUBSET Pages
      /\ {5} \in SUBSET Pages
      /\ (0 .. 2) \cup (3 .. 5) = 0 .. 5 /\ (0 .. 4) \cup {5} = 0 .. 5
      /\ (0 .. 5) \cup {6} \cup {7} = Pages
  OBVIOUS
<1>2. Shows(warning, s, 0 .. 5)
  BY <1>1, MessageShows
<1>3. Shows(blank, s, 0 .. 5)
  BY <1>1, PrintFullShows
<1> HIDE DEF warning, blank
<1>4. Shows(lock, s, 0 .. 5)
  BY <1>1, <1>3, BitmapShows, 2 \in Pages, 3 \in 1 .. 8 - 2
<1> HIDE DEF lock
<1>5. Shows(title, s, 0 .. 5)
  BY <1>1, <1>4, PrintAtShows, 2 \in Pages
<1> HIDE DEF title
<1>6. Shows(Footer(warning, s), s, Pages) /\ Shows(Footer(title, s), s, Pages)
  BY <1>1, <1>2, <1>5, FooterShows
<1> QED BY <1>6 DEF Disarmed, warning, title, lock, blank

(* The screen of a home arm that is done.                                  *)
LEMMA ArmedHomeShows ==
  ASSUME NEW s \in Screens, NEW p, Shows(p, s, 0 .. 2)
  PROVE  Shows(ArmedHome(p, s), s, Pages)
<1> DEFINE header == PrintInverted(p, s, {0})
           blank == PrintFull(header, s, {1, 3, 4, 5})
           house == DrawBitmap(blank, s, 2, 3)
           block == PrintBigAt(house, s, 3)
           first == PrintAt(block, s, 2)
           second == PrintAt(first, s, 5)
<1>1. 0 .. 2 \in SUBSET Pages /\ 0 .. 5 \in SUBSET Pages
      /\ {0} \in SUBSET (Pages \ {7}) /\ {1, 3, 4, 5} \in SUBSET Pages
      /\ (0 .. 2) \cup {0} = 0 .. 2 /\ (0 .. 2) \cup {1, 3, 4, 5} = 0 .. 5
      /\ (0 .. 5) \cup {6} \cup {7} = Pages
  OBVIOUS
<1>2. Shows(header, s, 0 .. 2)
  BY <1>1, PrintInvertedShows
<1> HIDE DEF header
<1>3. Shows(blank, s, 0 .. 5)
  BY <1>1, <1>2, PrintFullShows
<1> HIDE DEF blank
<1>4. Shows(house, s, 0 .. 5)
  BY <1>1, <1>3, BitmapShows, 2 \in Pages, 3 \in 1 .. 8 - 2
<1> HIDE DEF house
<1>5. Shows(block, s, 0 .. 5)
  BY <1>1, <1>4, PrintBigAtShows, 3 \in 0 .. 6
<1> HIDE DEF block
<1>6. Shows(first, s, 0 .. 5)
  BY <1>1, <1>5, PrintAtShows, 2 \in Pages
<1> HIDE DEF first
<1>7. Shows(second, s, 0 .. 5)
  BY <1>1, <1>6, PrintAtShows, 5 \in Pages
<1> HIDE DEF second
<1>8. Shows(Footer(second, s), s, Pages)
  BY <1>1, <1>7, FooterShows
<1> QED BY <1>8 DEF ArmedHome, second, first, block, house, blank, header

(* The screen of an away arm.                                              *)
LEMMA ArmedAwayShows ==
  ASSUME NEW s \in Screens, NEW p, Shows(p, s, 0 .. 2)
  PROVE  Shows(ArmedAway(p, s), s, Pages)
<1> DEFINE header == PrintInverted(p, s, {0})
           blank == PrintFull(header, s, 1 .. 5)
<1>1. 0 .. 2 \in SUBSET Pages /\ 0 .. 5 \in SUBSET Pages /\ 1 .. 5 \in SUBSET Pages
      /\ {0} \in SUBSET (Pages \ {7})
      /\ (0 .. 2) \cup {0} = 0 .. 2 /\ (0 .. 2) \cup (1 .. 5) = 0 .. 5
      /\ (0 .. 5) \cup {6} \cup {7} = Pages
  OBVIOUS
<1>2. Shows(header, s, 0 .. 2)
  BY <1>1, PrintInvertedShows
<1> HIDE DEF header
<1>3. Shows(blank, s, 0 .. 5)
  BY <1>1, <1>2, PrintFullShows
<1> HIDE DEF blank
<1>4. Shows(Footer(blank, s), s, Pages)
  BY <1>1, <1>3, FooterShows
<1> QED BY <1>4 DEF ArmedAway, blank, header

(* The screens of the exit and entry delays.                               *)
LEMMA CountdownShows ==
  ASSUME NEW s \in Screens, NEW p, Shows(p, s, 0 .. 2)
  PROVE  Shows(Countdown(p, s), s, Pages)
<1> DEFINE block == Message(p, s, 5 .. 6)
<1>1. 5 .. 6 \in SUBSET Pages /\ (0 .. 4) \cup (5 .. 6) = 0 .. 6
      /\ 0 .. 6 \in SUBSET Pages /\ (0 .. 6) \cup {7} = Pages
  OBVIOUS
<1>2. Shows(block, s, 0 .. 6)
  BY <1>1, MessageShows
<1> HIDE DEF block
<1>3. Shows(Bar(block, s, 7), s, Pages)
  BY <1>1, <1>2, BarShows
<1> QED BY <1>3 DEF Countdown, block

(* The screen of an alarm, lit but for the last page.                      *)
LEMMA AlarmShows ==
  ASSUME NEW s \in Screens, NEW p, Shows(p, s, 0 .. 2)
  PROVE  Shows(Alarm(p, s), s, Pages)
<1> DEFINE lit == PrintInverted(p, s, 0 .. 6)
           bell == DrawBitmap(lit, s, 2, 3)
           block == PrintBigAt(bell, s, 2)
<1>1. 0 .. 2 \in SUBSET Pages /\ 0 .. 6 \in SUBSET Pages /\ {7} \in SUBSET Pages
      /\ 0 .. 6 \in SUBSET (Pages \ {7})
      /\ (0 .. 2) \cup (0 .. 6) = 0 .. 6 /\ (0 .. 6) \cup {7} = Pages
  OBVIOUS
<1>2. Shows(lit, s, 0 .. 6)
  BY <1>1, PrintInvertedShows
<1> HIDE DEF lit
<1>3. Shows(bell, s, 0 .. 6)
  BY <1>1, <1>2, BitmapShows, 2 \in Pages, 3 \in 1 .. 8 - 2
<1> HIDE DEF bell
<1>4. Shows(block, s, 0 .. 6)
  BY <1>1, <1>3, PrintBigAtShows, 2 \in 0 .. 6
<1> HIDE DEF block
<1>5. Shows(PrintFull(block, s, {7}), s, Pages)
  BY <1>1, <1>4, PrintFullShows
<1> QED BY <1>5 DEF Alarm, block, bell, lit

(* The screen without contact.                                             *)
LEMMA OfflineShows ==
  ASSUME NEW s \in Screens, NEW p, Shows(p, s, 0 .. 2)
  PROVE  Shows(Offline(p, s), s, Pages)
<1> DEFINE blank == PrintFull(p, s, {0, 1, 3, 4, 5})
           link == DrawBitmap(blank, s, 2, 3)
           title == PrintBigAt(link, s, 2)
           block == PrintAt(title, s, 4)
           line == Hline(block, s, 6)
<1>1. 0 .. 2 \in SUBSET Pages /\ 0 .. 5 \in SUBSET Pages /\ 0 .. 6 \in SUBSET Pages
      /\ {0, 1, 3, 4, 5} \in SUBSET Pages
      /\ (0 .. 2) \cup {0, 1, 3, 4, 5} = 0 .. 5
      /\ (0 .. 5) \cup {6} = 0 .. 6 /\ (0 .. 6) \cup {7} = Pages
  OBVIOUS
<1>2. Shows(blank, s, 0 .. 5)
  BY <1>1, PrintFullShows
<1> HIDE DEF blank
<1>3. Shows(link, s, 0 .. 5)
  BY <1>1, <1>2, BitmapShows, 2 \in Pages, 3 \in 1 .. 8 - 2
<1> HIDE DEF link
<1>4. Shows(title, s, 0 .. 5)
  BY <1>1, <1>3, PrintBigAtShows, 2 \in 0 .. 6
<1> HIDE DEF title
<1>5. Shows(block, s, 0 .. 5)
  BY <1>1, <1>4, PrintAtShows, 4 \in Pages
<1> HIDE DEF block
<1>6. Shows(line, s, 0 .. 6)
  BY <1>1, <1>5, HlineShows, 6 \in 0 .. 6
<1> HIDE DEF line
<1>7. Shows(RetryFooter(line, s), s, Pages)
  BY <1>1, <1>6, RetryFooterShows
<1> QED BY <1>7 DEF Offline, line, block, title, link, blank

(* The startup screen leaves page 3 as it is, unless the sensor is missing.*)
LEMMA StartupShows ==
  ASSUME NEW s \in Screens, NEW p, Shows(p, s, 0 .. 2)
  PROVE  Shows(Startup(p, s), s, Pages \ {3})
<1> DEFINE warning == Message(p, s, 5 .. 7)
           blank == PrintFull(p, s, {0, 1})
           title == PrintBigAt(blank, s, 2)
           lines == PrintFull(title, s, {4, 5})
           icon == DrawBitmap(lines, s, 4, 1)
           block == PrintAt(icon, s, 4)
           line == Hline(block, s, 6)
<1>1. 0 .. 2 \in SUBSET Pages /\ 5 .. 7 \in SUBSET Pages
      /\ {0, 1} \in SUBSET Pages /\ {4, 5} \in SUBSET Pages
      /\ (0 .. 4) \cup (5 .. 7) = Pages
      /\ (0 .. 2) \cup {0, 1} = 0 .. 2
      /\ (0 .. 2) \cup {4, 5} \in SUBSET Pages
      /\ (0 .. 2) \cup {4, 5} \cup {6} \in SUBSET Pages
      /\ (0 .. 2) \cup {4, 5} \cup {6} \cup {7} = Pages \ {3}
  OBVIOUS
<1>2. Shows(warning, s, Pages \ {3})
  BY <1>1, MessageShows DEF Shows
<1> HIDE DEF warning
<1>3. Shows(blank, s, 0 .. 2)
  BY <1>1, PrintFullShows
<1> HIDE DEF blank
<1>4. Shows(title, s, 0 .. 2)
  BY <1>1, <1>3, PrintBigAtShows, 2 \in 0 .. 6
<1> HIDE DEF title
<1>5. Shows(lines, s, (0 .. 2) \cup {4, 5})
  BY <1>1, <1>4, PrintFullShows
<1> HIDE DEF lines
<1>6. Shows(icon, s, (0 .. 2) \cup {4, 5})
  BY <1>1, <1>5, BitmapShows, 4 \in Pages, 1 \in 1 .. 8 - 4
<1> HIDE DEF icon
<1>7. Shows(block, s, (0 .. 2) \cup {4, 5})
  BY <1>1, <1>6, PrintAtShows, 4 \in Pages
<1> HIDE DEF block
<1>8. Shows(line, s, (0 .. 2) \cup {4, 5} \cup {6})
  BY <1>1, <1>7, HlineShows, 6 \in 0 .. 6
<1> HIDE DEF line
<1>9. Shows(RetryFooter(line, s), s, Pages \ {3})
  BY <1>1, <1>8, RetryFooterShows
<1> QED
  BY <1>2, <1>9 DEF Startup, warning, line, block, icon, lines, title, blank

(* A screen drawn in full is all the panel shows, but for the startup screen,*)
(* whatever was there before.                                              *)
LEMMA DrawnShows ==
  ASSUME NEW s \in Screens, s.mode \in ShownModes, NEW p, Shows(p, s, {})
  PROVE  /\ Shows(Drawn(p, s), s, {})
         /\ s.mode # MODE_UNINITIALIZED => Shows(Drawn(p, s), s, Pages)
<1> USE DisplayAssumption
    DEF MODE_UNINITIALIZED, MODE_ENROLLMENT, MODE_ARMING, MODE_ALARM, MODE_AUTH_1,
        MODE_AUTH_2, MODE_AUTH_3, MODE_ARMED_AWAY, MODE_DISARMED, MODE_ARMED_HOME,
        NODE_ARM_REJECTED, MODE_OFFLINE_DISP
<1> DEFINE pre == Preamble(p, s)
<1>1. Shows(pre, s, 0 .. 2)
  BY PreambleShows
<1>2. ASSUME NEW q, Shows(q, s, Pages) \/ Shows(q, s, Pages \ {3})
      PROVE  Shows(q, s, {})
  BY <1>2 DEF Shows
<1> HIDE DEF pre
<1>3. 5 .. 7 \in SUBSET Pages /\ (0 .. 4) \cup (5 .. 7) = Pages
  OBVIOUS
<1>4. CASE s.mode = MODE_DISARMED
  <2>1. Drawn(p, s) = Disarmed(pre, s)
    BY <1>4 DEF Drawn, pre, Auth
  <2>2. Shows(Disarmed(pre, s), s, Pages)
    BY <1>1, DisarmedShows
  <2> QED BY <1>2, <1>4, <2>1, <2>2
<1>5. CASE s.mode = MODE_ARMED_HOME
  <2>1. Drawn(p, s) = ArmedHome(pre, s)
    BY <1>5 DEF Drawn, pre, Auth
  <2>2. Shows(ArmedHome(pre, s), s, Pages)
    BY <1>1, ArmedHomeShows
  <2> QED BY <1>2, <1>5, <2>1, <2>2
<1>6. CASE s.mode = MODE_ARMED_AWAY
  <2>1. Drawn(p, s) = ArmedAway(pre, s)
    BY <1>6 DEF Drawn, pre, Auth
  <2>2. Shows(ArmedAway(pre, s), s, Pages)
    BY <1>1, ArmedAwayShows
  <2> QED BY <1>2, <1>6, <2>1, <2>2
<1>7. CASE s.mode \in {MODE_ARMING} \cup Auth
  <2>1. Drawn(p, s) = Countdown(pre, s)
    BY <1>7 DEF Drawn, pre, Auth
  <2>2. Shows(Countdown(pre, s), s, Pages)
    BY <1>1, CountdownShows
  <2> QED BY <1>2, <1>7, <2>1, <2>2
<1>8. CASE s.mode = MODE_ALARM
  <2>1. Drawn(p, s) = Alarm(pre, s)
    BY <1>8 DEF Drawn, pre, Auth
  <2>2. Shows(Alarm(pre, s), s, Pages)
    BY <1>1, AlarmShows
  <2> QED BY <1>2, <1>8, <2>1, <2>2
<1>9. CASE s.mode \in {MODE_ENROLLMENT, NODE_ARM_REJECTED}
  <2>1. Drawn(p, s) = Message(pre, s, 5 .. 7)
    BY <1>9 DEF Drawn, pre, Auth
  <2>2. Shows(Message(pre, s, 5 .. 7), s, Pages)
    BY <1>1, <1>3, MessageShows
  <2> QED BY <1>2, <1>9, <2>1, <2>2
<1>10. CASE s.mode = MODE_OFFLINE_DISP
  <2>1. Drawn(p, s) = Offline(pre, s)
    BY <1>10 DEF Drawn, pre, Auth
  <2>2. Shows(Offline(pre, s), s, Pages)
    BY <1>1, OfflineShows
  <2> QED BY <1>2, <1>10, <2>1, <2>2
<1>11. CASE s.mode = MODE_UNINITIALIZED
  <2>1. Drawn(p, s) = Startup(pre, s)
    BY <1>11 DEF Drawn, pre, Auth
  <2>2. Shows(Startup(pre, s), s, Pages \ {3})
    BY <1>1, StartupShows
  <2> QED BY <1>2, <1>11, <2>1, <2>2
<1>12. s.mode \in 10 .. 17 \cup {MODE_UNINITIALIZED, MODE_ENROLLMENT, NODE_ARM_REJECTED,
                               MODE_OFFLINE_DISP, MODE_DISARMED}
  BY DEF ShownModes, CommandedModes
<1> QED
  BY <1>4, <1>5, <1>6, <1>7, <1>8, <1>9, <1>10, <1>11, <1>12 DEF Auth

(* What is drawn again of a screen between two passes takes nothing from it.*)
LEMMA HeaderShows ==
  ASSUME NEW s \in Screens, NEW p, NEW P \in SUBSET Pages, Shows(p, s, P), NEW m
  PROVE  Shows(Header(p, s, m), s, P)
<1>1. {0} \in SUBSET Pages /\ {0} \in SUBSET (Pages \ {7})
  OBVIOUS
<1>2. Shows(PrintFull(p, s, {0}), s, P \cup {0})
  BY <1>1, PrintFullShows
<1>3. Shows(PrintInverted(p, s, {0}), s, P \cup {0})
  BY <1>1, PrintInvertedShows
<1>4. Header(p, s, m) \in {p, PrintFull(p, s, {0}), PrintInverted(p, s, {0})}
  BY DEF Header, MODE_UNINITIALIZED, MODE_OFFLINE_DISP, MODE_ARMED_HOME,
         MODE_ARMED_AWAY, MODE_ALARM
<1> QED BY <1>2, <1>3, <1>4 DEF Shows

(* So for the parts a tick draws.                                          *)
LEMMA TickedShows ==
  ASSUME NEW m, Part(m) \in Screens, NEW P \in SUBSET Pages, Shows(panel, Part(m), P)
  PROVE  Shows(Ticked(m), Part(m), P)
<1>1. PICK n \in {5, 6} : n = IF m = MODE_ARMING THEN 5 ELSE 6
  OBVIOUS
<1>2. {0, n} \in SUBSET Pages /\ P \cup {0, n} \in SUBSET Pages
  BY <1>1
<1> DEFINE text == PrintFull(panel, Part(m), {0, n})
<1>3. Shows(text, Part(m), P \cup {0, n})
  BY <1>2, PrintFullShows
<1> HIDE DEF text
<1>4. Shows(Bar(text, Part(m), 7), Part(m), P \cup {0, n} \cup {7})
  BY <1>2, <1>3, BarShows
<1>5. Shows(RetryFooter(panel, Part(m)), Part(m), P \cup {7})
  BY RetryFooterShows
<1>6. Ticked(m) \in {Bar(text, Part(m), 7), RetryFooter(panel, Part(m))}
  BY <1>1 DEF Ticked, text
<1> QED BY <1>4, <1>5, <1>6 DEF Shows

-----------------------------------------------------------------------------
(* Type correctness.  A transient screen is one of those the gateway can   *)
(* cause, what is about to be drawn has a screen, and the panel is typed.  *)
TypeInv ==
  /\ mode \in {MODE_UNINITIALIZED, MODE_ENROLLMENT, MODE_DISARMED} \cup Commanded
  /\ connected \in BOOLEAN /\ err \in BOOLEAN
  /\ skipped \in BOOLEAN /\ delayed \in BOOLEAN
  /\ hold \in [mode : Holds \cup {NoMode}, ticks : 0 .. HoldTicks]
  /\ hold.ticks > 0 => hold.mode \in Holds
  /\ secs \in 0 .. 255 /\ max \in 0 .. 255
  /\ pc \in {"probe", "exit", "sleep", "render", "finish"}
  /\ attempt \in 0 .. Probes
  /\ pc = "probe" => attempt < Probes
  /\ sample \in ShownModes \cup {NoMode}
  /\ pc \in {"render", "finish"} => sample \in ShownModes
  /\ last \in [mode : ShownModes \cup {NoMode}, secs : 0 .. 255, err : BOOLEAN]
  /\ base \in Screens
  /\ Shows(panel, base, {})

(* What is drawn for is a mode with a screen.                              *)
LEMMA WantedIsShown ==
  ASSUME TypeInv
  PROVE  Wanted \in ShownModes
BY DisplayAssumption DEF TypeInv, Wanted, ShownModes

(* A screen is that of a mode, with or without the error.                  *)
LEMMA ScreenOfIsScreen ==
  ASSUME err \in BOOLEAN, NEW m \in ShownModes
  PROVE  ScreenOf(m) \in Screens
<1>1. (m \in {MODE_DISARMED, MODE_UNINITIALIZED} /\ err) \in BOOLEAN
  OBVIOUS
<1> QED BY <1>1 DEF ScreenOf, Screens

(* A dark panel shows nothing of any screen.                               *)
LEMMA DarkShows ==
  ASSUME NEW s \in Screens, NEW P \in SUBSET Pages
  PROVE  Shows(Dark, s, P)
BY DEF Shows, Dark, Panels

(* A pass without a new screen draws on the panel for one screen at most,  *)
(* and takes nothing from what it shows of it.                             *)
LEMMA PassShows ==
  ASSUME TypeInv, Wake
  PROVE  /\ Part(Wanted) \in Screens
         /\ Shows(panel', Part(Wanted), {})
         /\ \A P \in SUBSET Pages :
              Shows(panel, Part(Wanted), P) => Shows(panel', Part(Wanted), P)
<1> DEFINE s == Part(Wanted)
<1>1. s \in Screens
  BY WantedIsShown, ScreenOfIsScreen DEF TypeInv, Part
<1>2. panel' \in {panel, Ticked(Wanted), Header(panel, s, Wanted)}
  BY DEF Wake, panelVars
<1>3. ASSUME NEW P \in SUBSET Pages, Shows(panel, s, P)
      PROVE  Shows(panel', s, P)
  BY <1>1, <1>2, <1>3, TickedShows, HeaderShows
<1>4. Shows(panel, s, {})
  BY DEF TypeInv, Shows
<1> QED BY <1>1, <1>3, <1>4

(* A new screen is all the panel shows, if it is not the startup screen.   *)
LEMMA RenderShows ==
  ASSUME TypeInv, Render, ~(sample = MODE_ARMING /\ max = 0)
  PROVE  /\ base' = ScreenOf(sample) /\ base'.mode = sample /\ base' \in Screens
         /\ skipped' = FALSE
         /\ Shows(panel', base', {})
         /\ sample # MODE_UNINITIALIZED => Shows(panel', base', Pages)
<1> DEFINE s == ScreenOf(sample)
<1>1. sample \in ShownModes
  BY DEF TypeInv, Render
<1>2. s \in Screens /\ s.mode = sample
  BY <1>1, ScreenOfIsScreen DEF TypeInv, ScreenOf
<1>3. panel' = Drawn(panel, s) /\ base' = s /\ skipped' = FALSE
  BY DEF Render
<1>4. Shows(panel, s, {})
  BY DEF TypeInv, Shows
<1> QED BY <1>1, <1>2, <1>3, <1>4, DrawnShows

(* The types hold at the start ...                                         *)
LEMMA TypeInitial == Init => TypeInv
<1> SUFFICES ASSUME Init PROVE TypeInv
  OBVIOUS
<1>1. NoScreen \in Screens
  BY DEF NoScreen, Screens
<1>2. Shows(panel, base, {})
  BY <1>1, DarkShows, {} \in SUBSET Pages DEF Init
<1>3. /\ hold \in [mode : Holds \cup {NoMode}, ticks : 0 .. HoldTicks]
      /\ ~(hold.ticks > 0)
  BY DisplayAssumption DEF Init, NoHold
<1>4. last \in [mode : ShownModes \cup {NoMode}, secs : 0 .. 255, err : BOOLEAN]
  BY DEF Init
<1>5. attempt \in 0 .. Probes /\ attempt < Probes
  BY DisplayAssumption DEF Init
<1>6. base \in Screens /\ sample \in ShownModes \cup {NoMode}
  BY <1>1 DEF Init
<1> QED
  BY <1>2, <1>3, <1>4, <1>5, <1>6 DEF Init, TypeInv

(* The steps of the other threads leave the panel alone.                   *)
LEMMA GatewayType == TypeInv /\ Gateway => TypeInv'
<1> SUFFICES ASSUME TypeInv, Gateway PROVE TypeInv'
  OBVIOUS
<1> USE DisplayAssumption
    DEF TypeInv, nodeVars, countdownVars, threadVars, panelVars
<1>1. ASSUME NEW m \in Commanded, Command(m) PROVE TypeInv'
  <2>1. (delayed /\ m \notin IdleModes) \in BOOLEAN
    OBVIOUS
  <2> QED BY <1>1, <2>1 DEF Command, MaxAfter
<1>2. ASSUME NEW m \in Holds, Hold(m) PROVE TypeInv'
  BY <1>2 DEF Hold
<1>3. ASSUME NEW n \in Delays, ExitDelay(n) PROVE TypeInv'
  BY <1>3 DEF ExitDelay
<1>4. ASSUME NEW n \in Delays, EntryDelay(n) PROVE TypeInv'
  BY <1>4 DEF EntryDelay
<1>5. CASE Enrolls
  BY <1>5 DEF Enrolls
<1>6. CASE EnrollEnds
  BY <1>6 DEF EnrollEnds
<1> QED BY <1>1, <1>2, <1>3, <1>4, <1>5, <1>6 DEF Gateway

(* Those of main() and of the service thread do too.                       *)
LEMMA OthersType == TypeInv /\ Others => TypeInv'
<1> SUFFICES ASSUME TypeInv, Others PROVE TypeInv'
  OBVIOUS
<1> USE DisplayAssumption
    DEF TypeInv, nodeVars, countdownVars, threadVars, panelVars
<1>1. CASE ContactChanges
  BY <1>1 DEF ContactChanges
<1>2. CASE SensorChanges
  BY <1>2 DEF SensorChanges
<1>3. CASE Retry
  BY <1>3 DEF Retry
<1>4. CASE BootDone
  BY <1>4 DEF BootDone
<1> QED BY <1>1, <1>2, <1>3, <1>4 DEF Others

(* The steps of the display thread keep the types.                         *)
LEMMA ThreadType == TypeInv /\ DisplayThread => TypeInv'
<1> SUFFICES ASSUME TypeInv, DisplayThread PROVE TypeInv'
  OBVIOUS
<1> USE DisplayAssumption
<1>1. CASE Probe
  <2>1. Shows(panel', base', {})
    BY <1>1, DarkShows, {} \in SUBSET Pages DEF Probe, Clear, TypeInv
  <2> QED
    BY <1>1, <2>1 DEF Probe, TypeInv, nodeVars, countdownVars
<1>2. CASE Wake
  <2>1. /\ hold' \in [mode : Holds \cup {NoMode}, ticks : 0 .. HoldTicks]
        /\ hold'.ticks > 0 => hold'.mode \in Holds
    <3>1. CASE TicksLeft = 0
      BY <1>2, <3>1 DEF Wake, NoHold
    <3>2. CASE TicksLeft # 0
      <4>1. TicksLeft = hold.ticks - 1 /\ hold.ticks > 0
        BY <3>2 DEF TicksLeft
      <4> QED BY <1>2, <3>2, <4>1 DEF Wake, TypeInv
    <3> QED BY <3>1, <3>2
  <2>2. secs' \in 0 .. 255
    BY <1>2 DEF Wake, TypeInv
  <2>3. last' \in [mode : ShownModes \cup {NoMode}, secs : 0 .. 255, err : BOOLEAN]
    BY <1>2, <2>2 DEF Wake, TypeInv
  <2>4. Shows(panel', Part(Wanted), {})
    BY <1>2, PassShows
  <2>5. base' \in Screens /\ Shows(panel', base', {})
    BY <1>2, <2>4 DEF Wake, TypeInv, panelVars, Shows
  <2>6. skipped' \in BOOLEAN
    BY <1>2 DEF Wake, TypeInv, panelVars
  <2>7. sample' \in ShownModes \cup {NoMode} /\ (pc' \in {"render", "finish"} => sample' \in ShownModes)
    BY <1>2, WantedIsShown DEF Wake, TypeInv
  <2>8. pc' \in {"sleep", "render"}
    BY <1>2 DEF Wake
  <2> QED
    BY <1>2, <2>1, <2>2, <2>3, <2>5, <2>6, <2>7, <2>8 DEF Wake, TypeInv, nodeVars
<1>3. CASE Render
  <2>1. base' \in Screens /\ Shows(panel', base', {})
    BY <1>3, RenderShows DEF Render, TypeInv
  <2>2. skipped' \in BOOLEAN
    BY <1>3, Zenon DEF Render
  <2> QED
    BY <1>3, <2>1, <2>2 DEF Render, TypeInv, nodeVars, countdownVars
<1>4. CASE Finish
  <2>1. last' \in [mode : ShownModes \cup {NoMode}, secs : 0 .. 255, err : BOOLEAN]
    BY <1>4 DEF Finish, Finished, TypeInv
  <2> QED
    BY <1>4, <2>1 DEF Finish, TypeInv, nodeVars, countdownVars, panelVars
<1> QED BY <1>1, <1>2, <1>3, <1>4 DEF DisplayThread

(* Every step keeps the types.                                             *)
LEMMA TypeStep == TypeInv /\ [Next]_vars => TypeInv'
<1>1. TypeInv /\ UNCHANGED vars => TypeInv'
  BY DEF TypeInv, vars, nodeVars, countdownVars, threadVars, panelVars
<1> QED BY <1>1, GatewayType, OthersType, ThreadType DEF Next

LEMMA TypeInvImpliesTypeOK == TypeInv => TypeOK
<1> SUFFICES ASSUME TypeInv PROVE TypeOK
  OBVIOUS
<1>1. mode \in ShownModes
  BY DEF TypeInv, ShownModes
<1>2. connected \in BOOLEAN /\ err \in BOOLEAN
      /\ skipped \in BOOLEAN /\ delayed \in BOOLEAN
  BY DEF TypeInv
<1>3. {connected, err, skipped, delayed} \subseteq BOOLEAN
  BY <1>2, Zenon
<1> QED BY <1>1, <1>3 DEF TypeInv, TypeOK

(* Display!TypeOK: the display thread looks for the panel no more often than*)
(* it means to, the counters of the countdown keep their width, and it never*)
(* draws for a mode that has no screen.                                    *)
THEOREM TypeCorrect == Spec => []TypeOK
<1>1. Spec => Init /\ [][Next]_vars
  BY PTL DEF Spec
<1> QED BY <1>1, TypeInitial, TypeStep, TypeInvImpliesTypeOK, PTL

-----------------------------------------------------------------------------
(* No residue.  The inductive invariant follows one pass: what the loop    *)
(* takes for drawn, or is about to, is the screen drawn last, or an arming *)
(* whose pass was skipped; and that screen is all the panel shows, if it is*)
(* not the startup screen, but for what is drawn over it after such a pass.*)
LastInv ==
  /\ pc = "probe" => base = NoScreen /\ ~skipped /\ last.mode = NoMode
  /\ pc = "sleep" => IF skipped THEN last.mode = MODE_ARMING ELSE last.mode = base.mode
  /\ pc = "finish" => IF skipped THEN sample = MODE_ARMING ELSE sample = base.mode

CleanInv ==
  pc \in {"sleep", "render", "finish"} /\ base.mode # MODE_UNINITIALIZED =>
    \A p \in Pages : panel[p].text \cup panel[p].edge \subseteq Allowed(p)

ResidueInv == LastInv /\ CleanInv

LEMMA ResidueInitial == Init => ResidueInv
BY DEF Init, ResidueInv, LastInv, CleanInv

(* The other threads touch nothing of it.                                  *)
LEMMA UntouchedResidue ==
  ResidueInv /\ UNCHANGED <<threadVars, panelVars>> => ResidueInv'
BY DEF ResidueInv, LastInv, CleanInv, Allowed, ScreenOf, threadVars, panelVars, MODE_ARMING,
       MODE_DISARMED, MODE_UNINITIALIZED

(* None of the steps of the other threads is one of the panel.             *)
LEMMA OtherThreads ==
  Gateway \/ Others \/ UNCHANGED vars => UNCHANGED <<threadVars, panelVars>>
BY DEF Gateway, Others, vars, Command, Hold, ExitDelay, EntryDelay, Enrolls, EnrollEnds,
       ContactChanges, SensorChanges, Retry, BootDone

(* The screen of an arming is the same with a sensor and without.          *)
LEMMA ArmingScreen == ScreenOf(MODE_ARMING) = [mode |-> MODE_ARMING, err |-> FALSE]
<1>1. MODE_ARMING \notin {MODE_DISARMED, MODE_UNINITIALIZED}
  BY DEF MODE_ARMING, MODE_DISARMED, MODE_UNINITIALIZED
<1>2. (MODE_ARMING \in {MODE_DISARMED, MODE_UNINITIALIZED} /\ err) = FALSE
  BY <1>1, Zenon
<1> QED BY <1>2 DEF ScreenOf

(* The same of the next state.                                             *)
LEMMA ArmingScreenNext == ScreenOf(MODE_ARMING)' = [mode |-> MODE_ARMING, err |-> FALSE]
<1>1. MODE_ARMING \notin {MODE_DISARMED, MODE_UNINITIALIZED}
  BY DEF MODE_ARMING, MODE_DISARMED, MODE_UNINITIALIZED
<1>2. (MODE_ARMING \in {MODE_DISARMED, MODE_UNINITIALIZED} /\ err') = FALSE
  BY <1>1, Zenon
<1> QED BY <1>2 DEF ScreenOf

(* A tick or the header adds its own screen to a page, or leaves it alone; *)
(* in an arming it leaves alone all pages but three.                       *)
LEMMA PassAdds ==
  ASSUME TypeInv, Wake, pc' = "sleep", NEW p \in Pages
  PROVE  /\ panel'[p].text \cup panel'[p].edge
              \subseteq panel[p].text \cup panel[p].edge \cup {Part(Wanted)}
         /\ Wanted = MODE_ARMING /\ p \notin {0, 5, 7} => panel'[p] = panel[p]
<1> DEFINE s == Part(Wanted)
           n == IF Wanted = MODE_ARMING THEN 5 ELSE 6
<1>1. panel \in Panels
  BY DEF TypeInv, Shows
<1>2. panel[p] \in [text : SUBSET Screens, edge : SUBSET Screens]
  BY <1>1 DEF Panels
<1>3. panel' \in {panel, Ticked(Wanted), Header(panel, s, Wanted)}
  BY DEF Wake, panelVars
<1> HIDE DEF s
<1>4. ASSUME NEW pages \in SUBSET Pages
      PROVE  /\ PrintFull(panel, s, pages)[p] =
                  IF p \in pages THEN [text |-> {s}, edge |-> {}] ELSE panel[p]
             /\ PrintInverted(panel, s, pages)[p] =
                  IF p \in pages THEN [text |-> {s}, edge |-> {s}] ELSE panel[p]
  BY DEF PrintFull, PrintInverted
<1>5. ASSUME Wanted \in {MODE_UNINITIALIZED, MODE_OFFLINE_DISP} PROVE Wanted # MODE_ARMING
  BY <1>5 DEF MODE_UNINITIALIZED, MODE_OFFLINE_DISP, MODE_ARMING
<1>6. Header(panel, s, Wanted) \in
        {panel, PrintFull(panel, s, {0}), PrintInverted(panel, s, {0})}
  BY DEF Header, MODE_UNINITIALIZED, MODE_OFFLINE_DISP, MODE_ARMED_HOME,
         MODE_ARMED_AWAY, MODE_ALARM
<1>7. CASE panel' = panel
  BY <1>7
<1>8. CASE panel' = PrintFull(panel, s, {0}) \/ panel' = PrintInverted(panel, s, {0})
  BY <1>4, <1>8 DEF s
<1>9. CASE panel' = Ticked(Wanted)
  <2>1. CASE Wanted \in {MODE_UNINITIALIZED, MODE_OFFLINE_DISP}
    <3>1. panel' = PrintFull(panel, s, {7})
      BY <1>9, <2>1 DEF Ticked, RetryFooter, s
    <3> QED BY <1>4, <1>5, <2>1, <3>1 DEF s
  <2>2. CASE Wanted \notin {MODE_UNINITIALIZED, MODE_OFFLINE_DISP}
    <3> DEFINE text == PrintFull(panel, s, {0, n})
    <3>1. panel' = Bar(text, s, 7)
      BY <1>9, <2>2 DEF Ticked, s
    <3>2. n \in {5, 6} /\ (Wanted = MODE_ARMING => n = 5) /\ {0, n} \in SUBSET Pages
      OBVIOUS
    <3> HIDE DEF n
    <3>3. text[p] = IF p \in {0, n} THEN [text |-> {s}, edge |-> {}] ELSE panel[p]
      BY <1>4, <3>2
    <3>4. text = [q \in Pages |-> text[q]]
      BY DEF PrintFull
    <3> HIDE DEF text
    <3>5. p # 7 => panel'[p] = text[p]
      BY <3>1, <3>4 DEF Bar
    <3>6. p = 7 => panel'[p] = [text[p] EXCEPT !.text = {s}]
      BY <3>1, <3>4 DEF Bar
    <3>7. CASE p # 7
      BY <3>2, <3>3, <3>5, <3>7 DEF s
    <3>8. CASE p = 7
      <4>1. text[p] = panel[p]
        BY <3>2, <3>3, <3>8
      <4> QED BY <1>2, <3>6, <3>8, <4>1 DEF s
    <3> QED BY <3>7, <3>8
  <2> QED BY <2>1, <2>2
<1> QED BY <1>3, <1>6, <1>7, <1>8, <1>9

(* The display thread leaves nothing behind.                               *)
LEMMA ThreadResidue == TypeInv /\ ResidueInv /\ DisplayThread => ResidueInv'
<1> SUFFICES ASSUME TypeInv, ResidueInv, DisplayThread PROVE ResidueInv'
  OBVIOUS
<1> USE DEF ResidueInv, LastInv
<1>0. \A p \in Pages :
         Allowed(p) = {base} \cup {s \in {[mode |-> MODE_ARMING, err |-> FALSE]} :
                                     skipped /\ p \in {0, 5, 7}}
  BY ArmingScreen DEF Allowed
<1>00. \A p \in Pages :
         Allowed(p)' = {base'} \cup {s \in {[mode |-> MODE_ARMING, err |-> FALSE]} :
                                     skipped' /\ p \in {0, 5, 7}}
  BY ArmingScreenNext DEF Allowed
<1>1. CASE Probe
  <2>1. CASE pc' = "sleep"
    <3>1. \A p \in Pages : panel'[p].text = {} /\ panel'[p].edge = {}
      BY <1>1, <2>1, DisplayAssumption DEF Probe, Clear, Dark
    <3> QED BY <1>1, <2>1, <3>1 DEF Probe, CleanInv, NoScreen
  <2>2. CASE pc' # "sleep"
    BY <1>1, <2>2 DEF Probe, CleanInv
  <2> QED BY <2>1, <2>2
<1>2. CASE Wake
  <2>1. CASE pc' = "render"
    BY <1>0, <1>00, <1>2, <2>1 DEF Wake, CleanInv, panelVars
  <2>2. CASE pc' = "sleep"
    <3>1. /\ Wanted = last.mode /\ last'.mode = last.mode
          /\ base' = base /\ skipped' = skipped /\ pc = "sleep"
      BY <1>2, <2>2 DEF Wake, TypeInv
    <3>2. LastInv'
      BY <2>2, <3>1
    <3>3. ASSUME base.mode # MODE_UNINITIALIZED, NEW p \in Pages
          PROVE  panel'[p].text \cup panel'[p].edge \subseteq Allowed(p)'
      <4>1. panel[p].text \cup panel[p].edge \subseteq Allowed(p)
        BY <3>1, <3>3 DEF CleanInv
      <4>2. Allowed(p)' = Allowed(p) /\ base \in Allowed(p)
        BY <1>0, <1>00, <3>1
      <4>3. CASE base.mode = Wanted
        <5>1. Part(Wanted) = base
          BY <4>3 DEF Part
        <5> QED BY <1>2, <2>2, <4>1, <4>2, <5>1, PassAdds
      <4>4. CASE base.mode # Wanted
        <5>1. skipped /\ Wanted = MODE_ARMING
          BY <3>1, <4>4
        <5>2. Part(Wanted) = ScreenOf(MODE_ARMING)
          BY <4>4, <5>1 DEF Part
        <5>3. CASE p \in {0, 5, 7}
          <6>1. Part(Wanted) \in Allowed(p)
            BY <5>1, <5>2, <5>3 DEF Allowed
          <6> QED BY <1>2, <2>2, <4>1, <4>2, <6>1, PassAdds
        <5>4. CASE p \notin {0, 5, 7}
          BY <1>2, <2>2, <4>1, <4>2, <5>1, <5>4, PassAdds
        <5> QED BY <5>3, <5>4
      <4> QED BY <4>3, <4>4
    <3> QED BY <3>1, <3>2, <3>3 DEF CleanInv
  <2> QED BY <1>2, <2>1, <2>2 DEF Wake
<1>3. CASE Render
  <2>1. CASE sample = MODE_ARMING /\ max = 0
    <3>1. panel' = panel /\ base' = base /\ skipped' /\ pc = "render" /\ pc' = "finish"
          /\ sample' = sample
      BY <1>3, <2>1 DEF Render
    <3>2. \A p \in Pages : Allowed(p) \subseteq Allowed(p)'
      BY <1>0, <1>00, <3>1
    <3> QED BY <2>1, <3>1, <3>2 DEF CleanInv
  <2>2. CASE ~(sample = MODE_ARMING /\ max = 0)
    <3>1. /\ base'.mode = sample /\ skipped' = FALSE
          /\ sample # MODE_UNINITIALIZED => Shows(panel', base', Pages)
      BY <1>3, <2>2, RenderShows
    <3>2. \A p \in Pages : Allowed(p)' = {base'}
      BY <1>00, <3>1
    <3> QED BY <1>3, <3>1, <3>2 DEF Render, CleanInv, Shows
  <2> QED BY <2>1, <2>2
<1>4. CASE Finish
  BY <1>0, <1>00, <1>4 DEF Finish, Finished, CleanInv, panelVars
<1> QED BY <1>1, <1>2, <1>3, <1>4 DEF DisplayThread

(* Nor does any other thread.                                              *)
LEMMA ResidueStep == TypeInv /\ ResidueInv /\ [Next]_vars => ResidueInv'
BY OtherThreads, UntouchedResidue, ThreadResidue DEF Next

LEMMA ResidueInvImpliesNoResidue == ResidueInv => NoResidue
BY DEF ResidueInv, LastInv, CleanInv, NoResidue

(* Display!NoResidue: whatever screens follow each other, whatever of them *)
(* was drawn in part and whenever the other threads changed the mode, the  *)
(* eight pages show the screen the loop takes for drawn and nothing else   *)
(* (ohs_th_display.h:156-347, 390-468), with two exceptions: page 3 of the *)
(* startup screen, and the header, the line and the bar of an arming whose *)
(* own screen was skipped (154), over the screen before it.                *)
THEOREM ResidueOnlyOfSkippedArming == Spec => []NoResidue
<1>1. Spec => Init /\ [][Next]_vars
  BY PTL DEF Spec
<1> QED
  BY <1>1, TypeInitial, TypeStep, ResidueInitial, ResidueStep,
     ResidueInvImpliesNoResidue, PTL

-----------------------------------------------------------------------------
(* A home arm.  A maximum that is left of a countdown was left by a delay or*)
(* by a retry of the link.                                                 *)
DelayInv == max # 0 => delayed

LEMMA DelayInitial == Init => DelayInv
BY DEF Init, DelayInv

(* Every step that sets the maximum notes the delay, or clears it.         *)
LEMMA DelayStep == TypeInv /\ DelayInv /\ [Next]_vars => DelayInv'
<1> SUFFICES ASSUME TypeInv, DelayInv, [Next]_vars PROVE DelayInv'
  OBVIOUS
<1> USE DEF DelayInv
<1>1. ASSUME NEW m \in Commanded, Command(m) PROVE DelayInv'
  BY <1>1 DEF Command, MaxAfter
<1>2. ASSUME NEW n \in Delays, ExitDelay(n) \/ EntryDelay(n) PROVE DelayInv'
  BY <1>2 DEF ExitDelay, EntryDelay
<1>3. CASE Retry
  BY <1>3 DEF Retry
<1>4. CASE DisplayThread
  BY <1>4 DEF DisplayThread, Probe, Wake, Render, Finish, countdownVars
<1>5. ASSUME NEW m \in Holds, Hold(m) PROVE DelayInv'
  BY <1>5 DEF Hold, countdownVars
<1>6. CASE Enrolls \/ EnrollEnds \/ ContactChanges \/ SensorChanges \/ BootDone
  BY <1>6 DEF Enrolls, EnrollEnds, ContactChanges, SensorChanges, BootDone, countdownVars
<1>7. CASE UNCHANGED vars
  BY <1>7 DEF vars, countdownVars
<1> QED
  BY <1>1, <1>2, <1>3, <1>4, <1>5, <1>6, <1>7 DEF Next, Gateway, Others

(* What is drawn for a home arm is drawn for the maximum of a delay.       *)
LEMMA DelayImpliesSilence ==
  DelayInv /\ [Next]_vars =>
    [pc = "render" /\ sample = MODE_ARMING /\ panel' # panel => delayed]_vars
<1> SUFFICES ASSUME DelayInv, [Next]_vars, pc = "render", sample = MODE_ARMING,
                    panel' # panel
             PROVE  delayed
  OBVIOUS
<1>1. Render
  BY OtherThreads DEF Next, DisplayThread, Probe, Wake, Finish, panelVars
<1>2. max # 0
  BY <1>1 DEF Render, panelVars
<1> QED BY <1>2 DEF DelayInv

(* Display!HomeArmDrawsNothing: a pass for a home arm draws no screen (154),*)
(* and a maximum it could take for that of an exit delay is gone with the  *)
(* idle mode before it (428-430), unless a delay or a retry came since.    *)
THEOREM HomeArmIsSilent == Spec => HomeArmDrawsNothing
<1>1. Spec => Init /\ [][Next]_vars
  BY PTL DEF Spec
<1> QED
  BY <1>1, TypeInitial, TypeStep, DelayInitial, DelayStep, DelayImpliesSilence, PTL
     DEF HomeArmDrawsNothing
==================================================
