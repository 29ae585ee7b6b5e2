------------------------------ MODULE OnlineTime ------------------------------
(***************************************************************************)
(* The time that players are reported to be online                         *)
(* (M_online_players.cpp, _t_collect_online_and_position): each run of the *)
(* timer reports for each player the milliseconds since its last report,   *)
(* as an unsigned number.  Between the report and the assignment of        *)
(* last_time the callback may let a dragged dino attack; what that kills   *)
(* is logged by a hook, which moves cur_time.                              *)
(***************************************************************************)
EXTENDS Timer

CONSTANTS
  Player,
  W          \* unsigned int has the numbers 0 .. W - 1

ASSUME WidthAssumption == W \in Nat \ {0}

VARIABLES
  last_time,  \* of each record; -1 if there is none
  todo,       \* players the callback has still to come to
  attack,     \* the player whose dino attacks, as a set of at most one
  born,       \* history: when the record was made
  reported,   \* history: the sum of the reports, as an unsigned number
  reports,    \* history: how many there were
  moved       \* history: by how much attacks have moved cur_time

recordVars == <<last_time, todo, attack>>
history == <<born, reported, reports, moved>>
onlineTimeVars == <<timerVars, recordVars, history>>

Online == {p \in Player : last_time[p] >= 0}
Zero == [p \in Player |-> 0]

OnlineTimeTypeOK ==
  /\ TimerTypeOK
  /\ last_time \in [Player -> Time \cup {-1}]
  /\ todo \subseteq Online /\ attack \subseteq Online /\ (todo # {} => inTimer)
  /\ born \in [Player -> Time]
  /\ reported \in [Player -> 0 .. W - 1]
  /\ reports \in [Player -> 0 .. MaxCalls] /\ moved \in [Player -> Int]

OnlineTimeInit ==
  /\ TimerInit
  /\ last_time = [p \in Player |-> -1] /\ todo = {} /\ attack = {}
  /\ born = Zero /\ reported = Zero /\ reports = Zero /\ moved = Zero

\* insertPlayer reads the clock itself.
Login(p) ==
  /\ ~inTimer /\ last_time[p] < 0
  /\ last_time' = [last_time EXCEPT ![p] = now]
  /\ born' = [born EXCEPT ![p] = now]
  /\ reported' = [reported EXCEPT ![p] = 0]
  /\ reports' = [reports EXCEPT ![p] = 0] /\ moved' = [moved EXCEPT ![p] = 0]
  /\ UNCHANGED <<timerVars, todo, attack>>

Logout(p) ==
  /\ ~inTimer /\ last_time[p] >= 0
  /\ last_time' = [last_time EXCEPT ![p] = -1]
  /\ UNCHANGED <<timerVars, todo, attack, history>>

\* The callbacks begin, with the records of this moment.
CallbacksBegin ==
  /\ TimerCall
  /\ todo' = IF inTimer' THEN Online ELSE {}
  /\ UNCHANGED <<last_time, attack, history>>

ReportedMs(p) == Milliseconds(cur_time - last_time[p])

\* The report of a player.
Report(p) ==
  /\ p \in todo /\ attack = {}
  /\ reported' = [reported EXCEPT ![p] = (@ + ReportedMs(p)) % W]
  /\ reports' = [reports EXCEPT ![p] = @ + 1]
  /\ attack' = {p}
  /\ UNCHANGED <<timerVars, last_time, todo, born, moved>>

\* A hook logs what the dino has killed.
Attacked(p) ==
  /\ p \in attack /\ MessageNow
  /\ moved' = [moved EXCEPT ![p] = @ + now - cur_time]
  /\ UNCHANGED <<recordVars, born, reported, reports>>

\* Mistake: the time of the record stays.
ReportedKeeps(p) ==
  /\ p \in attack
  /\ todo' = todo \ {p} /\ attack' = {}
  /\ UNCHANGED <<timerVars, last_time, history>>

Reported(p) ==
  /\ p \in attack
  /\ last_time' = [last_time EXCEPT ![p] = cur_time]
  /\ todo' = todo \ {p} /\ attack' = {}
  /\ UNCHANGED <<timerVars, history>>

\* The callbacks of the other modules follow.
CallbacksEnd ==
  /\ todo = {} /\ TimerEnds
  /\ UNCHANGED <<recordVars, history>>

\* Another hook or callback, or the report of a player that is not followed
\* here, logs an event.
Elsewhere ==
  /\ MessageCached \/ (attack = {} /\ MessageNow)
  /\ UNCHANGED <<recordVars, history>>

TimePasses ==
  /\ Advance \/ \E t \in Time : SetBack(t)
  /\ UNCHANGED <<recordVars, history>>

\* The plugin is loaded again, and finds the players that are there.
LoadAgain ==
  /\ Reload /\ todo = {}
  /\ last_time' = [p \in Player |-> IF p \in Online THEN now ELSE -1]
  /\ born' = [p \in Player |-> IF p \in Online THEN now ELSE born[p]]
  /\ reported' = Zero /\ reports' = Zero /\ moved' = Zero
  /\ UNCHANGED <<todo, attack>>

OnlineTimeNext ==
  \/ \E p \in Player : Login(p) \/ Logout(p) \/ Report(p) \/ Attacked(p) \/ Reported(p)
  \/ CallbacksBegin \/ CallbacksEnd \/ Elsewhere \/ TimePasses
  \/ LoadAgain

OnlineTimeSpec == OnlineTimeInit /\ [][OnlineTimeNext]_onlineTimeVars

-----------------------------------------------------------------------------

\* As long as the clock is not set back, a player is not reported to have been
\* online for longer than since its record was made, and the reports leave out
\* less than a millisecond each and the time of the attacks
\* (M_online_players.cpp 214-215, 236-257, 312).
NeverOverstated ==
  \A p \in Online \ attack :
    setBacks = 0 =>
      /\ reported[p] * Ms <= last_time[p] - born[p]
      /\ last_time[p] - born[p] <= reported[p] * Ms + moved[p] + reports[p] * (Ms - 1)

\* Whatever the clock does, the reports add up: a report of a negative time is
\* a huge number, but modulo the width of an unsigned int their sum is the time
\* of the record, up to the roundings and the attacks
\* (M_online_players.cpp 214-215, 312).
ReportsAddUp ==
  \A p \in Online \ attack :
    LET slack == reports[p] * (Ms - 1)
        exact == last_time[p] - born[p] - moved[p]
    IN  \E rounding \in -slack .. slack :
          /\ (exact - rounding) % Ms = 0
          /\ ((exact - rounding) \div Ms) % W = reported[p]

\* While the clock is not set back, neither the time stamps of the log nor the
\* reported times say more than was.
OnlineTimeInv == OnlineTimeTypeOK /\ OutOfOrderOnlyInTick /\ NeverOverstated

=============================================================================
