------------------------------- MODULE LinesBox -------------------------------
(***************************************************************************)
(* The lines of a section of the console, the box that shows them and its  *)
(* scroll bar (LinesHolder, CHBoxVScroll and VScroll of CHElement.cpp).    *)
(* The game thread pushes lines; the console's thread turns the wheel,     *)
(* clicks, clears, resizes and paints.  The lines have no lock at all; a   *)
(* scroll bar has one that is held for single assignments.                 *)
(*                                                                         *)
(* A line is its place: lines are pushed at the end, and the oldest one is *)
(* erased when there are more than limit.                                  *)
(***************************************************************************)
EXTENDS Integers, FiniteSetsExt, ConsoleThreads

CONSTANTS
  limit,    \* of lines, 1000
  Heights   \* the heights that the box may have

ASSUME LinesAssumption == limit \in Nat \ {0} /\ Heights \subseteq Nat \ {0}

VARIABLES
  n,                \* lines.size()
  linesHolder,      \* does the box show these lines?  (receiver, in the lines)
  needReceiveLines,
  total, pos, visible,  \* of the scroll bar
  regions,          \* of the scroll bar: ssize and sstart
  boxPos,           \* the line in the first row of the box
  at,               \* what each thread does
  npos,             \* where each thread is going to scroll
  lastPos,          \* was the end shown before the last push?  (FALSE when the
                    \* operator has done something since)
  seen,             \* history: the lines that have stayed as they were since the box
                    \* was last to be drawn; -1 if it has to be drawn in any case
  crossed,          \* history: what may be wrong since both threads were at work at a
                    \* time, "total" or the "rest"
  undefined         \* both threads were in the lines at a time, or a null pointer was
                    \* used: anything may follow

scroll == <<total, pos, visible, regions>>
linesVars == <<n, linesHolder, needReceiveLines, scroll, boxPos, at, npos, lastPos, seen,
               crossed, undefined>>

\* Where the lines themselves are read or changed.
Reads  == {"drawing", "copying"}
Writes == {"pushing", "erasing", "clearing"}
Scrolling == {"move", "regions", "sync"}
Steps ==
  [game |-> {"idle", "pushed", "total", "follow", "show", "size", "pop", "popped"}
              \cup {"pushing", "erasing"} \cup Scrolling,
   console |-> {"idle", "cleared", "resized"} \cup Reads \cup {"clearing"} \cup Scrolling]

LinesTypeOK ==
  /\ n \in 0 .. limit + 1 /\ total \in 0 .. limit + 1 /\ visible \in Heights
  /\ {pos, boxPos} \subseteq Int /\ regions \in (Nat \ {0}) \X Nat
  /\ {linesHolder, needReceiveLines, lastPos, undefined} \subseteq BOOLEAN
  /\ crossed \subseteq {"total", "rest"}
  /\ \A t \in Thread : at[t] \in Steps[t] /\ npos[t] \in Int
  /\ seen \in -1 .. limit + 1

-----------------------------------------------------------------------------
(* The scroll bar.                                                          *)

Ceil(a, b) == -((-a) \div b)
Smaller(a, b) == Min({a, b})
Larger(a, b) == Max({a, b})

\* ceil(t / (tot / p)), of floating point numbers: where tot / p is no whole number it is
\* rounded, and a quotient that is one may come out greater by so much that it becomes the
\* next.
FloatCeil(t, tot, p) ==
  LET exact == Ceil(t * p, tot)
  IN  IF (t * p) % tot = 0 /\ p # 0 /\ tot % Larger(p, -p) # 0 THEN {exact, exact + 1}
      ELSE {exact}

\* updateRegions.  A division by zero lines gives no number, which is converted to the
\* least integer.
RegionsOf(tot, p, h) ==
  IF tot = 0 THEN {<<1, 0>>}
  ELSE {<<Larger(1, size), Larger(0, start)>> :
          size \in FloatCeil(h - 2, tot, h), start \in FloatCeil(h - 2, tot, p)}

\* changePos.  With fewer lines than rows it ends before the first line.
Clamped(p) == Smaller(Larger(p, 0), total - visible)

Defined == ~undefined
Idle(t) == Defined /\ at[t] = "idle"
At(t, step) == Defined /\ at[t] = step
\* A step of a thread while the other one is at work.
Crossing(t) == IF at[Other(t)] = "idle" THEN {} ELSE {"total", "rest"}

\* The next step of a thread, after which what is in wrong may be.
GoFrom(t, step, wrong) ==
  /\ at' = [at EXCEPT ![t] = step]
  /\ crossed' = wrong \cup Crossing(t)

Go(t, step) == GoFrom(t, step, crossed)

\* changePos(p), and what follows if the position is already there.
ChangePos(t, p, otherwise) ==
  IF Clamped(p) = pos THEN Go(t, otherwise) /\ npos' = npos
  ELSE Go(t, "move") /\ npos' = [npos EXCEPT ![t] = Clamped(p)]

\* forceSetPos: the position, the regions, and the box.
ForceSetPos(t) ==
  /\ At(t, "move")
  /\ pos' = npos[t] /\ npos' = [npos EXCEPT ![t] = 0] /\ Go(t, "regions")
  /\ UNCHANGED <<n, linesHolder, needReceiveLines, total, visible, regions, boxPos, lastPos,
                 seen, undefined>>

Regions(t) ==
  /\ At(t, "regions")
  /\ regions' \in RegionsOf(total, pos, visible) /\ Go(t, "sync")
  /\ UNCHANGED <<n, linesHolder, needReceiveLines, total, pos, visible, boxPos, npos,
                 lastPos, seen, undefined>>

\* onVScrollChange, and the box is to be drawn.
Sync(t) ==
  /\ At(t, "sync")
  /\ boxPos' = pos /\ seen' = n /\ Go(t, IF t = "game" THEN "show" ELSE "idle")
  /\ UNCHANGED <<n, linesHolder, needReceiveLines, scroll, npos, lastPos, undefined>>

-----------------------------------------------------------------------------
(* The game thread: pushLine.                                               *)

\* A thread enters the lines; if the other one is there and one of them changes them,
\* nothing is defined.
EnterFrom(t, step, wrong) ==
  /\ GoFrom(t, step, wrong)
  /\ undefined' = \/ at[Other(t)] \in Writes
                  \/ step \in Writes /\ at[Other(t)] \in Reads

Enter(t, step) == EnterFrom(t, step, crossed)

PushBegin ==
  /\ Idle("game") /\ needReceiveLines
  /\ EnterFrom("game", "pushing", IF linesHolder THEN crossed \ {"total"} ELSE crossed)
  /\ UNCHANGED <<n, linesHolder, needReceiveLines, scroll, boxPos, npos, lastPos, seen>>

PushEnd ==
  /\ At("game", "pushing")
  /\ n' = n + 1
  /\ Go("game", IF linesHolder THEN "pushed" ELSE "size")
  /\ UNCHANGED <<linesHolder, needReceiveLines, scroll, boxPos, npos, lastPos, seen,
                 undefined>>

\* Mistake: the end is looked for when the line is there.
PushedLate ==
  /\ At("game", "pushed")
  /\ lastPos' = (n = visible + pos) /\ Go("game", "total")
  /\ UNCHANGED <<n, linesHolder, needReceiveLines, scroll, boxPos, npos, seen, undefined>>

\* onPushLine: is the end shown?
Pushed ==
  /\ At("game", "pushed")
  /\ lastPos' = (total = visible + pos) /\ Go("game", "total")
  /\ UNCHANGED <<n, linesHolder, needReceiveLines, scroll, boxPos, npos, seen,
                 undefined>>

\* The lines are reached through the box.
ThroughBox(step) == At("game", step) /\ undefined' = ~linesHolder

SetTotal ==
  /\ ThroughBox("total")
  /\ total' = n /\ Go("game", "follow")
  /\ UNCHANGED <<n, linesHolder, needReceiveLines, pos, visible, regions, boxPos, npos,
                 lastPos, seen>>

Follow ==
  /\ At("game", "follow")
  /\ IF lastPos
     THEN ChangePos("game", total - visible, "show") /\ regions' = regions
     ELSE regions' \in RegionsOf(total, pos, visible) /\ Go("game", "show") /\ npos' = npos
  /\ UNCHANGED <<n, linesHolder, needReceiveLines, total, pos, visible, boxPos, lastPos, seen,
                 undefined>>

\* The size of the lines is compared as an unsigned number: no number below zero is
\* less than it, and each is greater.
SizeAbove(p) == p >= 0 /\ n > p
SizeBelow(p) == p < 0 \/ n < p

\* Mistake: the row before the last is left out as well.
ShowLineLess == SizeAbove(boxPos) /\ SizeBelow(visible + pos - 1)

\* The box is to be drawn if the line is in it, but for its last row.
ShowLine == SizeAbove(boxPos) /\ SizeBelow(visible + pos)

Show ==
  /\ ThroughBox("show")
  /\ seen' = IF ShowLine THEN n ELSE seen
  /\ Go("game", "size")
  /\ UNCHANGED <<n, linesHolder, needReceiveLines, scroll, boxPos, npos, lastPos>>

\* The oldest line is erased.
Size ==
  /\ At("game", "size")
  /\ IF n > limit THEN Enter("game", "erasing") ELSE Go("game", "idle") /\ undefined' = FALSE
  /\ UNCHANGED <<n, linesHolder, needReceiveLines, scroll, boxPos, npos, lastPos, seen>>

EraseEnd ==
  /\ At("game", "erasing")
  /\ n' = n - 1 /\ seen' = -1
  /\ Go("game", IF linesHolder THEN "pop" ELSE "idle")
  /\ UNCHANGED <<linesHolder, needReceiveLines, scroll, boxPos, npos, lastPos,
                 undefined>>

\* onPopLine: the position of the box is left alone.
Pop ==
  /\ ThroughBox("pop")
  /\ total' = n
  /\ pos' = Smaller(pos, n - visible)
  /\ Go("game", "popped")
  /\ UNCHANGED <<n, linesHolder, needReceiveLines, visible, regions, boxPos, npos, lastPos,
                 seen>>

Popped ==
  /\ At("game", "popped")
  /\ regions' \in RegionsOf(total, pos, visible) /\ seen' = n /\ Go("game", "idle")
  /\ UNCHANGED <<n, linesHolder, needReceiveLines, total, pos, visible, boxPos, npos,
                 lastPos, undefined>>

-----------------------------------------------------------------------------
(* The console's thread.                                                    *)

\* What the operator does ends the following of the last push.
Operator == lastPos' = FALSE

\* The wheel, up and down.
Wheel(d) ==
  /\ Idle("console") /\ Operator
  /\ IF (d = -1 /\ pos > 0) \/ (d = 1 /\ pos + visible < total)
     THEN ChangePos("console", pos + d, "sync")
     ELSE Go("console", "sync") /\ npos' = npos
  /\ UNCHANGED <<n, linesHolder, needReceiveLines, scroll, boxPos, seen, undefined>>

\* A click on the bar, between its arrows.
ClickBar(p) ==
  /\ Idle("console") /\ visible > 2 /\ Operator
  /\ p <= Larger(0, total - visible)
  /\ ChangePos("console", p, "idle")
  /\ UNCHANGED <<n, linesHolder, needReceiveLines, scroll, boxPos, seen, undefined>>

\* setupLinesHolder: this section, or another one without lines.
SetupLinesHolder(on) ==
  /\ Idle("console") /\ Operator
  /\ linesHolder' = on /\ boxPos' = 0
  /\ total' = IF on THEN n ELSE 1
  /\ GoFrom("console", "move", {})
  /\ npos' = [npos EXCEPT !["console"] = 0] /\ seen' = -1
  /\ UNCHANGED <<n, needReceiveLines, pos, visible, regions, undefined>>

\* The key S of the section.
KeyS ==
  /\ Idle("console") /\ linesHolder
  /\ needReceiveLines' = ~needReceiveLines
  /\ UNCHANGED <<n, linesHolder, scroll, boxPos, at, npos, lastPos, seen, crossed, undefined>>

\* The key C: the lines are copied to the clipboard and cleared.
KeyC ==
  /\ Idle("console") /\ linesHolder /\ Operator
  /\ EnterFrom("console", "copying", {})
  /\ UNCHANGED <<n, linesHolder, needReceiveLines, scroll, boxPos, npos, seen>>

ClearBegin ==
  /\ At("console", "copying")
  /\ Enter("console", "clearing") /\ Operator
  /\ UNCHANGED <<n, linesHolder, needReceiveLines, scroll, boxPos, npos, seen>>

ClearEnd ==
  /\ At("console", "clearing")
  /\ n' = 0 /\ seen' = -1 /\ Go("console", "cleared") /\ Operator
  /\ UNCHANGED <<linesHolder, needReceiveLines, scroll, boxPos, npos, undefined>>

\* onClearLines
Cleared ==
  /\ At("console", "cleared")
  /\ total' = 1 /\ Operator
  /\ npos' = [npos EXCEPT !["console"] = 0] /\ Go("console", "move")
  /\ UNCHANGED <<n, linesHolder, needReceiveLines, pos, visible, regions, boxPos, seen,
                 undefined>>

\* Mistake: the position is left where it is.
ResizeOnly(h) ==
  /\ Idle("console") /\ h # visible /\ Operator
  /\ visible' = h /\ Go("console", "resized")
  /\ UNCHANGED <<n, linesHolder, needReceiveLines, total, pos, regions, boxPos, npos, seen,
                 undefined>>

\* onResize of the scroll bar; clear() has everything drawn after it.
Resize(h) ==
  /\ Idle("console") /\ h # visible /\ Operator
  /\ visible' = h
  /\ pos' = Larger(0, Smaller(pos, total - h))
  /\ Go("console", "resized")
  /\ UNCHANGED <<n, linesHolder, needReceiveLines, total, regions, boxPos, npos, seen,
                 undefined>>

Resized ==
  /\ At("console", "resized")
  /\ regions' \in RegionsOf(total, pos, visible) /\ seen' = n /\ Go("console", "idle")
  /\ UNCHANGED <<n, linesHolder, needReceiveLines, total, pos, visible, boxPos, npos, lastPos, undefined>>

\* getLine, for the rows of the box.
DrawBegin ==
  /\ Idle("console") /\ linesHolder
  /\ Enter("console", "drawing")
  /\ UNCHANGED <<n, linesHolder, needReceiveLines, scroll, boxPos, npos, lastPos, seen>>

DrawEnd ==
  /\ At("console", "drawing") /\ Go("console", "idle")
  /\ UNCHANGED <<n, linesHolder, needReceiveLines, scroll, boxPos, npos, lastPos, seen, undefined>>

Undefined == undefined /\ UNCHANGED linesVars

-----------------------------------------------------------------------------

LinesInit ==
  /\ n = 0 /\ linesHolder = FALSE /\ needReceiveLines = FALSE
  /\ total = 1 /\ pos = 0 /\ visible \in Heights /\ regions \in RegionsOf(1, 0, visible)
  /\ boxPos = 0 /\ at = [t \in Thread |-> "idle"] /\ npos = [t \in Thread |-> 0]
  /\ lastPos = FALSE /\ seen = 0 /\ crossed = {} /\ undefined = FALSE

LinesNext ==
  \/ PushBegin \/ PushEnd \/ Pushed \/ SetTotal \/ Follow \/ Show \/ Size \/ EraseEnd \/ Pop
  \/ Popped
  \/ \E t \in Thread : ForceSetPos(t) \/ Regions(t) \/ Sync(t)
  \/ \E d \in {-1, 1} : Wheel(d)
  \/ \E p \in 0 .. limit : ClickBar(p)
  \/ \E on \in BOOLEAN : SetupLinesHolder(on)
  \/ KeyS \/ KeyC \/ ClearBegin \/ ClearEnd \/ Cleared
  \/ \E h \in Heights : Resize(h)
  \/ Resized \/ DrawBegin \/ DrawEnd
  \/ Undefined

LinesSpec == LinesInit /\ [][LinesNext]_linesVars

-----------------------------------------------------------------------------

Quiet == Defined /\ \A t \in Thread : at[t] = "idle"

\* The bar knows how many lines there are: whatever has crossed before, the next push,
\* clear or change of section that is alone puts it right (CHElement.cpp 226-290).
TotalTrue ==
  Quiet /\ linesHolder /\ "total" \notin crossed => total = n \/ (n = 0 /\ total = 1)

\* Since the section was chosen, and if no operation crossed another, the position is
\* between the first line and the last page, the thumb is where the position is, and it
\* does not end below the box: however the numbers are rounded, it reaches at most into
\* the row of the arrow, which is painted over it (CHElement.cpp 135-209).
PosInRange ==
  Quiet /\ crossed = {} =>
    /\ Smaller(0, total - visible) <= pos /\ pos <= Larger(0, total - visible)
    /\ regions \in RegionsOf(total, pos, visible)
    /\ visible > 2 /\ total >= visible => regions[1] + regions[2] <= visible

LinesInv == LinesTypeOK /\ TotalTrue /\ PosInRange

\* A box that shows the end shows the new line too, also when the oldest line is erased
\* and when the bar was out of step before.  (The erasing leaves the box one line too
\* far, so that the last row is empty, and a box of one row shows nothing.)
\* (CHElement.cpp 245-280, 384-394)
FollowsEnd ==
  Quiet /\ linesHolder /\ "total" \notin crossed /\ lastPos =>
    /\ pos = n - visible
    /\ visible > 1 => boxPos < n /\ n <= boxPos + visible

\* A line that is pushed into the box is painted, unless it is in the row at the bottom of
\* the page that the bar shows, or below it: where the erasing of lines, or a box that was
\* larger in between, has left the box ahead of its bar; or unless the box begins before
\* the first line, where a larger box of fewer lines has left it behind its bar: what its
\* rows show is then not painted until it is moved (CHElement.cpp 153-165, 245-280).
UnseenLastRow ==
  Quiet /\ linesHolder /\ crossed = {} =>
    /\ seen >= 0
    /\ \A p \in seen .. n - 1 :
         boxPos <= p /\ p < boxPos + visible =>
           p >= pos + visible - 1 \/ (boxPos < 0 /\ pos >= 0)

\* What the operator sees of the lines that are pushed.
LinesShown == FollowsEnd /\ UnseenLastRow

=============================================================================
