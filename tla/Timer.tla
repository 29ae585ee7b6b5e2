-------------------------------- MODULE Timer --------------------------------
(***************************************************************************)
(* The plugin's clock and its timer (M_timer.cpp).  The server calls       *)
(* __Timer now and then; it keeps the time of the call in cur_time and, in *)
(* milliseconds, in __timestamp, and calls the callbacks of the modules if *)
(* the interval is over.  ___timestamp() reads the clock at once.          *)
(*                                                                         *)
(* Time is the system's clock, in parts of a millisecond, which an         *)
(* operator or a time server may set back.                                 *)
(***************************************************************************)
EXTENDS Integers, Sequences

CONSTANTS
  Ms,           \* parts of a millisecond
  Interval,     \* timer_interval_msecs
  MaxTime,      \* bound: the clock
  MaxSetBacks,  \* bound: how often the clock is set back
  MaxMessages,  \* bound: messages that log follows
  MaxCalls      \* bound: calls of __Timer

ASSUME TimerAssumption ==
  /\ Ms \in Nat \ {0} /\ Interval \in Nat \ {0}
  /\ MaxTime \in Nat /\ Ms <= MaxTime /\ MaxSetBacks \in Nat /\ MaxMessages \in Nat
  /\ MaxCalls \in Nat

VARIABLES
  now,                    \* the system's clock
  cur_time, __timestamp,  \* the clock at the last reading, and at the last call
  next_time, last_treat_timer, firstTime,
  inTimer,                \* are the callbacks running?
  elapsed_ms,             \* what the callbacks were told, or -1
  log,                    \* the time stamps of some messages, in order, as
                          \* long as the clock has not been set back
  calls, setBacks         \* history: calls of __Timer, changes of the clock

clockVars == <<cur_time, __timestamp>>
periodVars == <<next_time, last_treat_timer, firstTime, elapsed_ms>>
timerVars == <<now, clockVars, periodVars, inTimer, log, calls, setBacks>>

Time == 0 .. MaxTime
Stamp == [ms : Nat, immediate : BOOLEAN, calls : 0 .. MaxCalls]

TimerTypeOK ==
  /\ {now, cur_time, last_treat_timer} \subseteq Time
  /\ __timestamp \in Nat /\ next_time \in Nat /\ calls \in 0 .. MaxCalls
  /\ firstTime \in BOOLEAN /\ inTimer \in BOOLEAN
  /\ elapsed_ms \in Int
  /\ log \in Seq(Stamp) /\ (setBacks > 0 => log = <<>>)
  /\ setBacks \in 0 .. MaxSetBacks

TimerInit ==
  /\ now \in 0 .. Ms /\ cur_time = now /\ __timestamp = now \div Ms
  /\ next_time = now + Interval * Ms
  /\ last_treat_timer = 0 /\ firstTime = TRUE
  /\ inTimer = FALSE /\ elapsed_ms = -1
  /\ log = <<>> /\ calls = 0 /\ setBacks = 0

\* M_timer_done, and M_timer_init again: what follows is a log of its own.
Reload ==
  /\ ~inTimer
  /\ cur_time' = now /\ __timestamp' = now \div Ms
  /\ next_time' = now + Interval * Ms /\ firstTime' = TRUE
  /\ log' = <<>> /\ calls' = 0
  /\ UNCHANGED <<now, last_treat_timer, inTimer, elapsed_ms, setBacks>>

\* duration_cast of a difference of two times rounds towards zero.
Milliseconds(d) == IF d >= 0 THEN d \div Ms ELSE -((-d) \div Ms)

Advance ==
  /\ now < MaxTime /\ now' = now + 1
  /\ UNCHANGED <<clockVars, periodVars, inTimer, log, calls, setBacks>>

SetBack(t) ==
  /\ t < now /\ setBacks < MaxSetBacks
  /\ now' = t /\ setBacks' = setBacks + 1
  /\ log' = <<>>
  /\ UNCHANGED <<clockVars, periodVars, inTimer, calls>>

\* Mistake: the next time is one interval after the one that was due.
DueNext == next_time + Interval * Ms

NextTime == now + Interval * Ms

\* __Timer, up to the first callback.
TimerCall ==
  /\ ~inTimer /\ calls < MaxCalls
  /\ cur_time' = now /\ __timestamp' = now \div Ms /\ calls' = calls + 1
  /\ IF Milliseconds(next_time - now) <= 0
     THEN /\ next_time' = NextTime
          /\ elapsed_ms' = IF firstTime THEN 0 ELSE Milliseconds(now - last_treat_timer)
          /\ firstTime' = FALSE /\ last_treat_timer' = now
          /\ inTimer' = TRUE
     ELSE UNCHANGED periodVars /\ inTimer' = FALSE
  /\ UNCHANGED <<now, log, setBacks>>

TimerEnds ==
  /\ inTimer /\ inTimer' = FALSE
  /\ UNCHANGED <<now, clockVars, periodVars, log, calls, setBacks>>

\* A message comes into the log, which may or may not follow it.
Message(ms, immediate) ==
  \/ UNCHANGED log
  \/ /\ setBacks = 0 /\ Len(log) < MaxMessages
     /\ log' = Append(log, [ms |-> ms, immediate |-> immediate, calls |-> calls])

\* A message with __timestamp: those about players, inventories, structures.
MessageCached ==
  /\ Message(__timestamp, FALSE)
  /\ UNCHANGED <<now, clockVars, periodVars, inTimer, calls, setBacks>>

\* ___timestamp()
ReadClock ==
  /\ cur_time' = now
  /\ UNCHANGED <<now, __timestamp, periodVars, inTimer, calls, setBacks>>

\* Mistake: ___timestamp() rounds up.
MessageRounded == Message((now + Ms - 1) \div Ms, TRUE) /\ ReadClock

\* A message with ___timestamp(): those about tribes, dinos and levels.
MessageNow == Message(now \div Ms, TRUE) /\ ReadClock

-----------------------------------------------------------------------------

\* The callbacks are never told of less than their interval, less one
\* millisecond that rounding takes, even if the clock is set back between two
\* calls: then they are not called until it is past next_time again
\* (M_timer.cpp 158-166).
ElapsedPace ==
  [][~firstTime /\ ~inTimer /\ inTimer' => elapsed_ms' >= Interval - 1]_timerVars

\* Messages stand in the log in the order of their time stamps, unless the clock
\* was set back, or the earlier one has read the clock itself and the later one
\* has the time of a call of __Timer before both (M_timer.cpp 138-155).
OutOfOrderOnlyInTick ==
  \A i, j \in DOMAIN log :
    i < j /\ log[i].ms > log[j].ms =>
      log[i].immediate /\ ~log[j].immediate /\ log[i].calls = log[j].calls

=============================================================================
