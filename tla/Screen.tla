-------------------------------- MODULE Screen --------------------------------
(***************************************************************************)
(* The frame TuiApp draws: two columns of panels, each as high as the data *)
(* makes it, the pages of the temperatures, and below them the panels of   *)
(* the connections, the log and the system, which share what rows are      *)
(* left.  Rows are counted, their text is left out but for the width of a  *)
(* process' name.  The thread that draws and its end are in Program.       *)
(***************************************************************************)
EXTENDS Integers, Sequences

CONSTANTS TuiBuilds,   \* the builds, of "mac" and "other"
          Rows,        \* the heights of the terminal
          Lengths,     \* the lengths of the lists
          Sensors,     \* the numbers of temperatures
          Names,       \* the names of processes: the widths of their characters
          NameW        \* the columns for the name (9 at 80 columns)

VARIABLES tuiBuild,     \* the build
          termRows,     \* the height of the terminal
          tuiData,      \* the lists' lengths, and whether there is what is optional
          currentPage,  \* the page of the temperatures, kept from frame to frame
          frame         \* the rows of the last frame, drawn from tuiData

tvars == <<tuiBuild, termRows, tuiData, currentPage, frame>>

NoFrame == [drawn |-> FALSE]

\* What there may be to show: the lists, motion sensors, a battery, and "more": swap,
\* RAM speed, VRAM, frequencies, all of an adapter, Bluetooth, TPM, power.
TuiData == [disks |-> 0, phys |-> 0, adapters |-> 0, displays |-> 0, processes |-> 0,
            motion |-> FALSE, temps |-> 0, battery |-> FALSE, more |-> FALSE, name |-> <<>>]

ScreenInit ==
  /\ tuiBuild \in TuiBuilds /\ termRows \in Rows
  /\ tuiData = TuiData
  /\ currentPage = 0 /\ frame = NoFrame

MinOf(a, b) == IF a < b THEN a ELSE b
MaxOf(a, b) == IF a > b THEN a ELSE b
Opt(b, n) == IF b THEN n ELSE 0

(***************************************************************************)
(* The rows a panel takes from row y on.                                   *)
(***************************************************************************)
CpuPanel(d) == 4
MemoryPanel(d) == 3 + Opt(d.more, 3)
GpuPanel(d) == (IF tuiBuild = "mac" THEN 2 ELSE 3 + Opt(d.more, 1)) + Opt(d.more, 1)
ProcessPanel(d) == Opt(d.processes > 0, 2 + d.processes)
DiskPanel(d) == 1 + d.disks
\* Two rows of an adapter, three more of one that says all, two of its traffic.
NetworkPanel(d) == 1 + d.adapters * (4 + Opt(d.more, 3))
WifiBluetoothPanel(d) == 1 + Opt(d.more, 2)
DisplayPanel(d) == Opt(d.displays > 0, 1 + d.displays)
TpmPanel(d) == Opt(d.more, 2)
\* The only list that stops at the bottom.
PhysicalDiskPanel(d, y) == MinOf(d.phys, MaxOf(termRows - 5 - y, 0))
AccelPanel(d) == Opt(d.motion, 7)
\* Thermal state, CPU, GPU, ANE, total; a blank row, cycles, health, power, charger.
PowerPanel(d) == Opt(d.more \/ d.battery, 1 + Opt(d.more, 3) + 2 + Opt(d.battery, 5))

PerPage == 6
Pages(d) == MaxOf(1, (d.temps + PerPage - 1) \div PerPage)
TempPanel(d) == IF Pages(d) > 1 THEN 5 ELSE 1 + (d.temps + 1) \div 2

\* Every three seconds the next page.
Flipped(d, flip) ==
  IF Pages(d) = 1 THEN 0 ELSE IF flip THEN (currentPage + 1) % Pages(d) ELSE currentPage

(***************************************************************************)
(* The columns.  A panel is drawn if it begins above the last content row. *)
(***************************************************************************)
\* The height of panel k of a column, blank rows below it included.
LeftPanel(d, k, y) ==
  CASE k = 1 -> CpuPanel(d) + 1
    [] k = 2 -> GpuPanel(d) + 1
    [] k = 3 -> MemoryPanel(d)
    [] k = 4 -> 2
    [] k = 5 -> ProcessPanel(d)

RightPanel(d, k, y) ==
  CASE k = 1 -> DiskPanel(d)
    [] k = 2 -> PhysicalDiskPanel(d, y)
    [] k = 3 -> NetworkPanel(d)
    [] k = 4 -> WifiBluetoothPanel(d)
    [] k = 5 -> DisplayPanel(d)
    [] k = 6 -> AccelPanel(d)
    [] k = 7 -> TpmPanel(d)
    [] k = 8 -> TempPanel(d)
    [] k = 9 -> PowerPanel(d)

MaxY == termRows - 5
Column(side, n, d) ==
  LET Panel(k, y) == IF side = "left" THEN LeftPanel(d, k, y) ELSE RightPanel(d, k, y)
      Y[k \in 0..n] == IF k = 0 THEN 2
                       ELSE LET y == Y[k - 1] IN IF y < MaxY THEN y + Panel(k, y) ELSE y
  IN  Y[n]

\* A name of a process is cut to its columns, or filled up to them.  A character
\* that takes two may leave one empty.
Widths(s) == LET W[i \in 0..Len(s)] == IF i = 0 THEN 0 ELSE W[i - 1] + s[i] IN W

CutName(s, w) ==
  IF Widths(s)[Len(s)] <= w THEN w
  ELSE LET fits == {i \in 0..Len(s) : Widths(s)[i] <= w - 1}
           last == CHOOSE i \in fits : \A j \in fits : j <= i
       IN  Widths(s)[last] + 1

(***************************************************************************)
(* The panels at the bottom.                                               *)
(***************************************************************************)
SysTop == termRows - 3
ConnTop == SysTop - 2

LogPanelGreedy(end) ==
  LET conn == ConnTop > end + 1
      logEnd == IF conn THEN ConnTop - 1 ELSE SysTop
  IN  [conn |-> conn, logEnd |-> logEnd, logTop |-> end + 1,
       log |-> logEnd - end > 1,
       lines |-> MaxOf(0, logEnd - end - 1)]

\* The connections need a row above them; the log takes what is left, if that is
\* more than a row.
LogPanel(end) ==
  LET conn == ConnTop > end + 1
      logEnd == IF conn THEN ConnTop - 1 ELSE SysTop
  IN  [conn |-> conn, logEnd |-> logEnd, logTop |-> end + 1,
       log |-> logEnd - end - 2 > 1,
       lines |-> MaxOf(0, logEnd - end - 2)]

ContentEnd(y) == IF y >= ConnTop THEN ConnTop - 1 ELSE y

\* A frame, if the terminal is large enough for one.
Draw(flip) ==
  LET d == tuiData
      ly == Column("left", 5, d)
      ry == Column("right", 9, d)
      end == ContentEnd(MaxOf(MinOf(ly, MaxY), MinOf(ry, MaxY)))
  IN  /\ ~frame.drawn
      /\ IF termRows < 24
         THEN frame' = NoFrame /\ UNCHANGED currentPage
         ELSE /\ currentPage' = IF Column("right", 7, d) < MaxY
                                  THEN Flipped(d, flip) ELSE currentPage
              /\ frame' = [drawn |-> TRUE, content |-> MaxOf(ly, ry) - 1, end |-> end,
                           bottom |-> LogPanel(end), name |-> CutName(d.name, NameW)]
      /\ UNCHANGED <<tuiBuild, termRows, tuiData>>

\* The main loop hands over new data; the terminal changes its height.
UpdateScreen(item, value) ==
  /\ tuiData' = [tuiData EXCEPT ![item] = value]
  /\ frame' = NoFrame
  /\ UNCHANGED <<tuiBuild, termRows, currentPage>>

Resize(rows) ==
  /\ termRows' = rows /\ frame' = NoFrame
  /\ UNCHANGED <<tuiBuild, tuiData, currentPage>>

ScreenNext ==
  \/ \E flip \in BOOLEAN : Draw(flip)
  \/ \E i \in {"disks", "phys", "adapters", "displays", "processes"}, n \in Lengths :
       UpdateScreen(i, n)
  \/ \E i \in {"motion", "battery", "more"}, b \in BOOLEAN : UpdateScreen(i, b)
  \/ \E n \in Sensors : UpdateScreen("temps", n)
  \/ \E s \in Names : UpdateScreen("name", s)
  \/ \E rows \in Rows : Resize(rows)

ScreenSpec == ScreenInit /\ [][ScreenNext]_tvars

(***************************************************************************)
(* Properties.                                                             *)
(***************************************************************************)
\* Whatever the columns take, the log begins below where the content is clipped and
\* its last, newest line stays above the line that is drawn later for the panel
\* below it; the names of processes fill their column, but for one if a wide
\* character is cut.
LogFitsBetween ==
  frame.drawn =>
    /\ frame.end < ConnTop
    /\ LET b == frame.bottom IN
       /\ b.conn => frame.end < ConnTop - 1
       /\ b.log => /\ b.lines > 0
                   /\ frame.end < b.logTop
                   /\ b.logTop + b.lines < (IF b.conn THEN ConnTop ELSE SysTop) - 1
    /\ frame.name \in {NameW - 1, NameW}
==============================================================================
