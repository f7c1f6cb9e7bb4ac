------------------------------- MODULE Display -------------------------------
(***************************************************************************)
(* The display of the daemon: src/07_miniproj/daemon/screen.c, ssd1306.c   *)
(* and the REFRESH_SCREEN event of main.c.                                 *)
(*                                                                         *)
(* The controller keeps 8 rows of 16 characters and a cursor that every    *)
(* character moves on, around the end of the row.  Nothing is erased after *)
(* the start: a refresh writes over what is there.  A write to the I2C bus *)
(* that fails is printed and forgotten: its command or character is lost,  *)
(* and what comes next lands where the cursor is.  The settings are sent   *)
(* and the display is turned on in the start only.                         *)
(***************************************************************************)
EXTENDS Integers, Sequences, TLC

CONSTANTS
  Frequencies, Temperatures,  \* what the attributes read, -1 if the read fails
  MaxChanges,                 \* bound: changes of them and of the mode
  MaxLosses,                  \* bound: writes to the bus that fail
  Lossy                       \* bound: the characters of a line that can be lost

VARIABLES
  manual, frequency, temp_mc,
  changes, losses,
  expired,    \* whether the timer has expired since it was last read
  daemon,     \* "init", "ready" before the first refresh, "temp", "draw", "idle"
  shown,      \* what the last refresh has read
  drawn,      \* the lines of the screen that have been drawn
  bus,        \* whether /dev/i2c-0 could be opened
  settings,   \* the commands of the start: "none" yet, "sent", or one is "lost"
  lit,        \* whether the display is on
  row, col,   \* the cursor
  ram,        \* the characters of the display
  flaws       \* history: the phases in which a write to the bus has failed

values == <<manual, frequency, temp_mc, changes>>
oled   == <<row, col, ram, losses, flaws>>
panel  == <<settings, lit>>
vars   == <<values, expired, daemon, shown, drawn, bus, panel, oled>>

Rows    == 0 .. 7
Columns == 0 .. 15

-----------------------------------------------------------------------------
(* Texts.  A character is the text that it belongs to and its place there. *)

Blank == <<"blank">>

Text(name, value, marks, blanks) ==
  [k \in 1 .. marks |-> <<name, value, k>>] \o [k \in 1 .. blanks |-> Blank]

Digits(n) == Len(ToString(n))

ModeText(m) == IF m THEN Text("mode", m, 12, 1) ELSE Text("mode", m, 10, 3)

(* What is printed of a temperature; it is -- if the read fails.           *)
Degrees(c) == IF c >= 0 THEN c \div 1000 ELSE -1

(* Mutant: nothing is written over what a longer number has left.          *)
TempTextTight(c) == Text("temp", Degrees(c), 8 + Digits(Degrees(c)), 0)

TempText(c) == Text("temp", Degrees(c), 8 + Digits(Degrees(c)), 2)

FreqText(f) == Text("freq", f, 8 + Digits(f), 0)

BlankLine == Text("none", 0, 0, 16)

Line(r, text) == [row |-> r, text |-> text]

Headers ==
  <<Line(0, Text("title", 0, 14, 0)), Line(1, Text("demo", 0, 11, 0)), Line(2, Text("rule", 0, 14, 0)),
    Line(4, Text("rule", 0, 14, 0))>>

InitLines ==
  <<Headers[1], Headers[2], Headers[3], Line(3, Text("no_mode", 0, 13, 0)), Headers[4],
    Line(5, Text("no_temp", 0, 10, 0)), Line(6, Text("no_freq", 0, 10, 0))>>

(* ssd1306_clear_display, which leaves the cursor at the start.            *)
ClearLines == [k \in 1 .. 9 |-> IF k <= 8 THEN Line(k - 1, BlankLine) ELSE Line(0, <<>>)]

(* screen_init clears twice: ssd1306_init has done so already.             *)
StartLines ==
  [k \in 1 .. 25 |-> IF k <= 18 THEN ClearLines[((k - 1) % 9) + 1] ELSE InitLines[k - 18]]

(* Mutant: the temperature goes to the row before.                         *)
RefreshLinesAbove(v) ==
  <<Line(3, ModeText(v.manual)), Line(4, TempText(v.temp_mc)), Line(6, FreqText(v.frequency))>>

RefreshLines(v) ==
  <<Line(3, ModeText(v.manual)), Line(5, TempText(v.temp_mc)), Line(6, FreqText(v.frequency))>>

(* Mutant: the display is not turned on again.                             *)
TurnsOnNot == {}

(* The lines of the start before which the display is turned off and on.   *)
TurnsOff == {0, 9}
TurnsOn  == {8, 17}

-----------------------------------------------------------------------------
Lines    == IF daemon = "init" THEN StartLines ELSE RefreshLines(shown)
Count    == Len(Lines)
NextLine == Lines[drawn + 1]

Init ==
  /\ manual \in BOOLEAN /\ frequency \in Frequencies /\ temp_mc \in Temperatures
  /\ changes = 0 /\ losses = 0 /\ flaws = {}
  /\ expired = FALSE
  /\ daemon = "init"
  /\ shown = [manual |-> FALSE, frequency |-> 0, temp_mc |-> 0]
  /\ drawn = 0
  /\ bus \in BOOLEAN /\ settings = "none" /\ lit = FALSE
  /\ row = 0 /\ col = 0
  /\ ram = [r \in Rows |-> [n \in Columns |-> <<"noise">>]]

(* The driver, and the surroundings, at any time that matters: nobody reads*)
(* the values before the first refresh.                                    *)
Change ==
  /\ changes < MaxChanges /\ daemon # "init"
  /\ changes' = changes + 1
  /\ \/ frequency' \in Frequencies \ {frequency} /\ UNCHANGED temp_mc
     \/ temp_mc' \in Temperatures \ {temp_mc} /\ UNCHANGED frequency
  /\ UNCHANGED <<manual, expired, daemon, shown, drawn, bus, panel, oled>>

Resting == daemon \in {"ready", "idle"}

(* The mode button: another event of the same thread.                      *)
ToggleMode ==
  /\ Resting /\ changes < MaxChanges
  /\ changes' = changes + 1
  /\ manual' = ~manual
  /\ UNCHANGED <<frequency, temp_mc, expired, daemon, shown, drawn, bus, panel, oled>>

(* Mutant: the timer has no interval.                                      *)
ExpireOnce ==
  /\ daemon = "ready" /\ ~expired
  /\ expired' = TRUE
  /\ UNCHANGED <<values, daemon, shown, drawn, bus, panel, oled>>

(* The timer is started after the screen.                                  *)
Expire ==
  /\ daemon # "init" /\ ~expired
  /\ expired' = TRUE
  /\ UNCHANGED <<values, daemon, shown, drawn, bus, panel, oled>>

-----------------------------------------------------------------------------
(* REFRESH_SCREEN.                                                         *)

ReadFrequency ==
  /\ Resting /\ expired
  /\ expired' = FALSE
  /\ shown' = [shown EXCEPT !.frequency = frequency]
  /\ daemon' = "temp"
  /\ UNCHANGED <<values, drawn, bus, panel, oled>>

ReadTemperature ==
  /\ daemon = "temp"
  /\ shown' = [shown EXCEPT !.temp_mc = temp_mc, !.manual = manual]
  /\ drawn' = 0
  /\ daemon' = "draw"
  /\ UNCHANGED <<values, expired, bus, panel, oled>>

(* What is in a line after a text was written from column c on.            *)
Over(line, c, text) ==
  LET width == Len(text)
  IN  [n \in Columns |-> IF (n - c) % 16 < width THEN text[((n - c) % 16) + 1] ELSE line[n]]

(* ssd1306_puts, of the characters that get through.                       *)
Puts(r, c, text) ==
  /\ row' = r /\ col' = (c + Len(text)) % 16
  /\ ram' = [ram EXCEPT ![r] = Over(@, c, text)]

Without(text, k) == [i \in 1 .. Len(text) - 1 |-> IF i < k THEN text[i] ELSE text[i + 1]]

Lose ==
  /\ losses < MaxLosses
  /\ losses' = losses + 1
  /\ flaws' = flaws \cup {IF daemon = "init" THEN daemon ELSE "refresh"}

DrawNext ==
  /\ drawn' = drawn + 1
  /\ daemon' = IF drawn + 1 < Count THEN daemon ELSE IF daemon = "init" THEN "ready" ELSE "idle"

(* ssd1306_init: the commands that set the controller up.  The first turns *)
(* the display off and the last one on, and a command that is taken for the*)
(* argument of a lost one is lost as well.  They do not move the cursor for*)
(* good: every line sets it.                                               *)
SetUp ==
  /\ daemon = "init" /\ bus /\ settings = "none"
  /\ \/ settings' = "sent" /\ lit' = TRUE /\ UNCHANGED <<losses, flaws>>
     \/ Lose /\ settings' \in {"sent", "lost"} /\ lit' \in BOOLEAN
  /\ UNCHANGED <<values, expired, daemon, shown, drawn, bus, row, col, ram>>

(* ssd1306_clear_display turns the display off while it writes the blanks. *)
Turn ==
  lit' = IF daemon = "init" /\ drawn \in TurnsOff THEN FALSE
         ELSE IF daemon = "init" /\ drawn \in TurnsOn THEN TRUE ELSE lit

(* ssd1306_set_position and ssd1306_puts of the next line.  The column is  *)
(* set in two halves; a lost command leaves its part of the cursor.        *)
Draw(line) ==
  \/ UNCHANGED <<losses, flaws>> /\ Puts(line.row, 0, line.text)
  \/ Lose /\ Puts(row, 0, line.text)
  \/ Lose /\ Puts(line.row, col % 2, line.text)
  \/ Lose /\ Puts(line.row, col - (col % 2), line.text)
  \/ Lose /\ \E k \in Lossy \cap 1 .. Len(line.text) : Puts(line.row, 0, Without(line.text, k))

(* The next line with what precedes it; of it all at most one is lost.     *)
(* Bound: the eight bytes of a character get through together or not.      *)
DrawLine ==
  /\ daemon \in {"init", "draw"} /\ bus /\ settings # "none"
  /\ DrawNext
  /\ \E line \in {NextLine} :
     \/ Draw(line) /\ Turn
     \/ /\ daemon = "init" /\ drawn \in TurnsOff \cup TurnsOn
        /\ Lose /\ UNCHANGED lit /\ Puts(line.row, 0, line.text)
  /\ UNCHANGED <<values, expired, shown, bus, settings>>

(* Without the bus every write fails.                                      *)
DrawNothing ==
  /\ daemon \in {"init", "draw"} /\ ~bus
  /\ DrawNext
  /\ UNCHANGED <<values, expired, shown, bus, panel, oled>>

-----------------------------------------------------------------------------
DaemonStep == SetUp \/ ReadFrequency \/ ReadTemperature \/ DrawLine \/ DrawNothing

Next == DaemonStep \/ Change \/ ToggleMode \/ Expire

Spec == Init /\ [][Next]_vars

FairSpec == Spec /\ WF_vars(DaemonStep) /\ WF_vars(Expire)

-----------------------------------------------------------------------------
TypeOK ==
  /\ daemon \in {"init", "ready", "temp", "draw", "idle"}
  /\ drawn \in 0 .. IF daemon \in {"init", "draw"} THEN Count - 1 ELSE 25
  /\ settings \in {"none", "sent", "lost"} /\ lit \in BOOLEAN
  /\ row \in Rows /\ col \in Columns
  /\ DOMAIN ram = Rows /\ \A r \in Rows : DOMAIN ram[r] = Columns

Reads(r, text) == \A k \in 1 .. Len(text) : ram[r][k - 1] = text[k]
Shows(r, text) == ram[r] = Over([n \in Columns |-> Blank], 0, text)

(* Whether what the controller keeps is there to be seen.                  *)
Lit == settings = "sent" /\ lit

(* After a refresh the display is on, the mode and the temperature are on  *)
(* it and nothing is left of longer ones before; the frequency is there,   *)
(* but may be followed by the end of a longer one.                         *)
ShownExactly ==
  daemon = "idle" /\ bus /\ flaws = {} =>
    /\ Lit
    /\ Shows(3, ModeText(shown.manual)) /\ Shows(5, TempText(shown.temp_mc))
    /\ Reads(6, FreqText(shown.frequency))

(* Whatever is lost while refreshing, what is lost goes wrong in the rows  *)
(* that are refreshed: the cursor never leaves them after the start, and   *)
(* the display stays on.                                                   *)
HeadersStay ==
  daemon # "init" /\ bus /\ "init" \notin flaws =>
    /\ Lit
    /\ \A h \in 1 .. 4 : Shows(Headers[h].row, Headers[h].text)
    /\ Shows(7, <<>>)

(* When the values and the bus come to rest, so does what the controller   *)
(* keeps, with the values of then: the next refresh repairs every loss in  *)
(* their rows.  No refresh repairs a setting or the turning on that was    *)
(* lost in the start: only without a loss there is the display on, too.    *)
DisplaySettles ==
  <>[](bus => /\ Reads(3, ModeText(manual)) /\ Reads(5, TempText(temp_mc))
              /\ Reads(6, FreqText(frequency))
              /\ "init" \in flaws \/ Lit)
=============================================================================
