------------------------------ MODULE EventLog ------------------------------
(***************************************************************************)
(* What an event log promises to the code that pushes messages into it,    *)
(* independently of threads, buffers and files: messages are accepted in   *)
(* some order; the log on disk is always a prefix of that order; and once  *)
(* the log has stopped it never grows again, although messages may still   *)
(* be accepted (and are then lost).                                        *)
(*                                                                         *)
(* The class EventWriter of M_event_writer.cpp implements this interface   *)
(* (module EventWriter).  The event log and the string log of the plugin   *)
(* are two instances of it (module StringLibrary).                         *)
(***************************************************************************)
EXTENDS Integers, Sequences

CONSTANTS Message,    \* the messages that can be pushed
          MaxPushes   \* how many messages a session may push

VARIABLES log,        \* the messages in the files, oldest first
          pending,    \* accepted and not in the files
          alive       \* can the log still grow?

vars == <<log, pending, alive>>

Init == /\ log = << >>
        /\ pending = << >>
        /\ alive = TRUE

\* push() takes the message; the caller learns nothing about its fate.
Accept(m) == /\ Len(log) + Len(pending) < MaxPushes
             /\ pending' = Append(pending, m)
             /\ UNCHANGED <<log, alive>>

\* Some of the oldest pending messages move to the files, in their order.
Move == /\ log' \o pending' = log \o pending
        /\ Len(log) <= Len(log')

Commit == alive /\ Move /\ UNCHANGED alive

\* The log stops, possibly in the middle of a write: some of the pending
\* messages have reached the files, no other message ever will.
Stop == alive /\ Move /\ alive' = FALSE

Next == \/ \E m \in Message : Accept(m)
        \/ Commit
        \/ Stop

Spec == Init /\ [][Next]_vars

=============================================================================
