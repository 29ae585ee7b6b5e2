----------------------------- MODULE EventWriter -----------------------------
(***************************************************************************)
(* One EventWriter object (M_event_writer.cpp): the queue the game thread  *)
(* pushes messages into, the thread that moves them in packets to          *)
(* numbered .eventlog files, and the destructor that stops this thread     *)
(* when the plugin is unloaded.                                            *)
(*                                                                         *)
(* Two threads run here.  The game thread calls push() from hooks and      *)
(* timers, and finally the destructor; it is the only thread that does     *)
(* either.  The writer thread is started by start().  They share queue     *)
(* (under queue_mutex) and, without a lock, exitFlag and running.  A label *)
(* of wpc or gpc stands between two steps that another thread can observe. *)
(***************************************************************************)
EXTENDS Integers, Sequences, SequencesExt

CONSTANTS
  Message,               \* the messages that are pushed
  Size,                  \* their size in bytes, EventMessage::getSize
  WriteBufferSize,       \* bytes in a packet at most
  MessagePerPacket,      \* messages in a packet at most
  FileSize,              \* bytes in a file at most
  ContinueMessageCount,  \* longer queues are written without a pause
  InitFiles,             \* contents of the folder when the plugin starts
  Faults,                \* the calls of the C library that may fail
  MaxPushes              \* bound: pushes in one session

ASSUME ConstantsAssumption ==
  /\ Size \in [Message -> Nat \ {0}]
  /\ WriteBufferSize \in Nat \ {0}
  /\ MessagePerPacket \in Nat \ {0}
  /\ FileSize \in Nat /\ WriteBufferSize <= FileSize
  /\ ContinueMessageCount \in Nat
  /\ \A files \in InitFiles : files \in Seq(0 .. FileSize)
  /\ Faults \subseteq {"open", "rotate", "write"}
  /\ MaxPushes \in Nat

VARIABLES
  queue,            \* messages between push() and the writer thread
  mutex,            \* who owns queue_mutex: "free", "game" or "writer"
  exitFlag,         \* set once by the destructor
  running,          \* cleared once by the writer thread
  gpc,              \* where the game thread is
  wpc,              \* where the writer thread is
  queueSize,        \* the writer's copy of the length of queue
  packet,           \* the messages in writeBuffer
  packetSize,       \* their size in bytes
  currentFilesize,  \* the writer's copy of the size of the file it appends to
  files,            \* the sizes of 1.eventlog, 2.eventlog, ...
  written,          \* the messages this session has put in the files
  lost,             \* the messages a short write has left out of the files
  accepted,         \* history: every message push() has queued
  timedOut,         \* history: the destructor gave up waiting for the thread
  failed            \* history: a call of the C library has failed

gameVars   == <<gpc, exitFlag, accepted, timedOut>>
writerVars == <<wpc, running, queueSize, packet, packetSize,
                currentFilesize, files, written, lost, failed>>
vars == <<queue, mutex, gameVars, writerVars>>

GamePC   == {"idle", "wait", "pushing", "stopping", "gone"}
WriterPC == {"open", "top", "rotate", "wait", "drain", "write", "sleep",
             "exit", "stopped", "crashed"}

\* What has been accepted and is not in the files.
Pending == lost \o packet \o queue

\* What a list of messages occupies in a buffer or a file.
Bytes(messages) == FoldLeft(LAMBDA sum, m : sum + Size[m], 0, messages)

\* The destructor has returned: the object and its queue are freed memory and
\* the mutex handle is closed.
Freed == gpc = "gone"

Init ==
  /\ queue = << >> /\ mutex = "free"
  /\ exitFlag = FALSE /\ running = TRUE
  /\ gpc = "idle" /\ wpc = "open"
  /\ queueSize = 1
  /\ packet = << >> /\ packetSize = 0
  /\ files \in InitFiles /\ currentFilesize = 0
  /\ written = << >> /\ lost = << >>
  /\ accepted = << >> /\ timedOut = FALSE /\ failed = FALSE

-----------------------------------------------------------------------------
(* The game thread.                                                        *)

\* push() after exitFlag is set deletes the message and changes nothing else,
\* so the early return is a stuttering step.
PushBegin ==
  /\ gpc = "idle" /\ ~exitFlag
  /\ Len(accepted) < MaxPushes
  /\ gpc' = "wait"
  /\ UNCHANGED <<queue, mutex, exitFlag, accepted, timedOut, writerVars>>

PushAcquire ==
  /\ gpc = "wait" /\ mutex = "free"
  /\ mutex' = "game" /\ gpc' = "pushing"
  /\ UNCHANGED <<queue, exitFlag, accepted, timedOut, writerVars>>

PushRelease(m) ==
  /\ gpc = "pushing"
  /\ queue' = Append(queue, m)
  /\ accepted' = Append(accepted, m)
  /\ mutex' = "free" /\ gpc' = "idle"
  /\ UNCHANGED <<exitFlag, timedOut, writerVars>>

StopBegin ==
  /\ gpc = "idle"
  /\ exitFlag' = TRUE /\ gpc' = "stopping"
  /\ UNCHANGED <<queue, mutex, accepted, timedOut, writerVars>>

\* Mistake: the destructor does not wait.
StopUnseen ==
  /\ gpc = "stopping"
  /\ gpc' = "gone"
  /\ UNCHANGED <<queue, mutex, exitFlag, accepted, timedOut, writerVars>>

\* The polling loop sees that the thread has finished; the handle is closed
\* and the object freed.
StopSeen ==
  /\ gpc = "stopping" /\ ~running
  /\ gpc' = "gone"
  /\ UNCHANGED <<queue, mutex, exitFlag, accepted, timedOut, writerVars>>

\* Five seconds have passed: the handle is closed and the object freed under
\* a thread that may still run.
StopTimeout ==
  /\ gpc = "stopping" /\ running
  /\ gpc' = "gone" /\ timedOut' = TRUE
  /\ UNCHANGED <<queue, mutex, exitFlag, accepted, writerVars>>

-----------------------------------------------------------------------------
(* The writer thread.  After the object is freed, exitFlag is read from    *)
(* freed memory and has any value; the queue and the folder name are       *)
(* pointers into freed memory, and following one crashes the process.      *)

ReadsExit(b) == b = exitFlag \/ Freed

\* Find the file with the highest number, create 1.eventlog in an empty
\* folder, and take the size of the file.
OpenLatest ==
  /\ wpc = "open" /\ ~Freed
  /\ LET opened == IF files = << >> THEN <<0>> ELSE files
     IN  /\ files' = opened
         /\ currentFilesize' = opened[Len(opened)]
  /\ queueSize' = 1
  /\ wpc' = "top"
  /\ UNCHANGED <<queue, mutex, gameVars, running, packet, packetSize,
                 written, lost, failed>>

OpenFails ==
  /\ wpc = "open" /\ ~Freed /\ "open" \in Faults
  /\ wpc' = "exit" /\ failed' = TRUE
  /\ UNCHANGED <<queue, mutex, gameVars, running, queueSize, packet,
                 packetSize, currentFilesize, files, written, lost>>

\* Mistake: the thread ends when it finds the queue empty.
CheckExitIdle(seen) ==
  /\ wpc = "top" /\ ReadsExit(seen)
  /\ wpc' = IF queueSize < 1 THEN "exit" ELSE "rotate"
  /\ UNCHANGED <<queue, mutex, gameVars, running, queueSize, packet,
                 packetSize, currentFilesize, files, written, lost, failed>>

\* The outer loop ends when the flag is seen and the last look at the queue
\* had found it empty.
CheckExit(seen) ==
  /\ wpc = "top" /\ ReadsExit(seen)
  /\ wpc' = IF seen /\ queueSize < 1 THEN "exit" ELSE "rotate"
  /\ UNCHANGED <<queue, mutex, gameVars, running, queueSize, packet,
                 packetSize, currentFilesize, files, written, lost, failed>>

FileFull == currentFilesize + WriteBufferSize > FileSize

\* Go on to the next file when a full packet might not fit in this one.
Rotate ==
  /\ wpc = "rotate" /\ ~(FileFull /\ Freed)
  /\ IF FileFull
     THEN files' = Append(files, 0) /\ currentFilesize' = 0
     ELSE UNCHANGED <<files, currentFilesize>>
  /\ wpc' = "wait"
  /\ UNCHANGED <<queue, mutex, gameVars, running, queueSize, packet,
                 packetSize, written, lost, failed>>

RotateFails ==
  /\ wpc = "rotate" /\ FileFull /\ ~Freed /\ "rotate" \in Faults
  /\ wpc' = "exit" /\ failed' = TRUE
  /\ UNCHANGED <<queue, mutex, gameVars, running, queueSize, packet,
                 packetSize, currentFilesize, files, written, lost>>

Acquire ==
  /\ wpc = "wait" /\ ~Freed /\ mutex = "free"
  /\ mutex' = "writer" /\ wpc' = "drain"
  /\ UNCHANGED <<queue, gameVars, running, queueSize, packet, packetSize,
                 currentFilesize, files, written, lost, failed>>

\* Mistake: a wait that fails is tried again.
AcquireRetries == wpc = "wait" /\ Freed /\ UNCHANGED vars

\* The handle is closed, or is itself read from freed memory.
AcquireFails ==
  /\ wpc = "wait" /\ Freed
  /\ wpc' = "exit"
  /\ UNCHANGED <<queue, mutex, gameVars, running, queueSize, packet,
                 packetSize, currentFilesize, files, written, lost, failed>>

\* Mistake: only the number of messages is limited.
CanTakeAny == queue # << >> /\ Len(packet) < MessagePerPacket

\* Does the message at the front of the queue go into this packet?
CanTake ==
  /\ queue # << >>
  /\ Len(packet) < MessagePerPacket
  /\ packetSize + Size[Head(queue)] <= WriteBufferSize

\* Mistake: the message is removed before it is known to fit.
TakePopsFirst ==
  /\ wpc = "drain" /\ ~Freed
  /\ queue # << >> /\ Len(packet) < MessagePerPacket
  /\ IF CanTake
     THEN /\ packet' = Append(packet, Head(queue))
          /\ packetSize' = packetSize + Size[Head(queue)]
     ELSE UNCHANGED <<packet, packetSize>>
  /\ queue' = Tail(queue)
  /\ UNCHANGED <<mutex, gameVars, wpc, running, queueSize, currentFilesize,
                 files, written, lost, failed>>

Take ==
  /\ wpc = "drain" /\ ~Freed /\ CanTake
  /\ packet' = Append(packet, Head(queue))
  /\ packetSize' = packetSize + Size[Head(queue)]
  /\ queue' = Tail(queue)
  /\ UNCHANGED <<mutex, gameVars, wpc, running, queueSize, currentFilesize,
                 files, written, lost, failed>>

Release ==
  /\ wpc = "drain" /\ ~Freed /\ ~CanTake
  /\ queueSize' = Len(queue)
  /\ mutex' = "free" /\ wpc' = "write"
  /\ UNCHANGED <<queue, gameVars, running, packet, packetSize,
                 currentFilesize, files, written, lost, failed>>

\* Append n bytes to the file that is open.
Grow(n) == files' = [files EXCEPT ![Len(files)] = @ + n]

\* Mistake: packetSize is not reset for the next packet.
WriteKeepsSize(seen) ==
  /\ wpc = "write" /\ ReadsExit(seen)
  /\ written' = written \o packet
  /\ Grow(packetSize)
  /\ currentFilesize' = currentFilesize + packetSize
  /\ packet' = << >>
  /\ wpc' = IF seen \/ queueSize > ContinueMessageCount
            THEN "rotate" ELSE "sleep"
  /\ UNCHANGED <<queue, mutex, gameVars, running, queueSize, packetSize, lost, failed>>

\* Mistake: exitFlag is looked at only after a pause.
WriteSleeps(seen) ==
  /\ wpc = "write" /\ ReadsExit(seen)
  /\ written' = written \o packet
  /\ Grow(packetSize)
  /\ currentFilesize' = currentFilesize + packetSize
  /\ packet' = << >> /\ packetSize' = 0
  /\ wpc' = IF queueSize > ContinueMessageCount THEN "rotate" ELSE "sleep"
  /\ UNCHANGED <<queue, mutex, gameVars, running, queueSize, lost, failed>>

\* The packet is written and the thread decides whether to pause.
Write(seen) ==
  /\ wpc = "write" /\ ReadsExit(seen)
  /\ written' = written \o packet
  /\ Grow(packetSize)
  /\ currentFilesize' = currentFilesize + packetSize
  /\ packet' = << >> /\ packetSize' = 0
  /\ wpc' = IF seen \/ queueSize > ContinueMessageCount
            THEN "rotate" ELSE "sleep"
  /\ UNCHANGED <<queue, mutex, gameVars, running, queueSize, lost, failed>>

\* Mistake: the result of _write is not looked at.
WriteShortGoesOn(n, bytes) ==
  /\ wpc = "write" /\ "write" \in Faults
  /\ n < Len(packet)
  /\ Bytes(SubSeq(packet, 1, n)) <= bytes
  /\ bytes < Bytes(SubSeq(packet, 1, n + 1))
  /\ written' = written \o SubSeq(packet, 1, n)
  /\ lost' = SubSeq(packet, n + 1, Len(packet))
  /\ Grow(bytes)
  /\ packet' = << >> /\ packetSize' = 0
  /\ wpc' = "sleep" /\ failed' = TRUE
  /\ UNCHANGED <<queue, mutex, gameVars, running, queueSize, currentFilesize>>

\* Only some bytes reach the file: n whole messages and perhaps a part of the
\* next one.  The rest of the packet is gone and the thread gives up.
WriteShort(n, bytes) ==
  /\ wpc = "write" /\ "write" \in Faults
  /\ n < Len(packet)
  /\ Bytes(SubSeq(packet, 1, n)) <= bytes
  /\ bytes < Bytes(SubSeq(packet, 1, n + 1))
  /\ written' = written \o SubSeq(packet, 1, n)
  /\ lost' = SubSeq(packet, n + 1, Len(packet))
  /\ Grow(bytes)
  /\ packet' = << >> /\ packetSize' = 0
  /\ wpc' = "exit" /\ failed' = TRUE
  /\ UNCHANGED <<queue, mutex, gameVars, running, queueSize, currentFilesize>>

Wake ==
  /\ wpc = "sleep"
  /\ wpc' = "top"
  /\ UNCHANGED <<queue, mutex, gameVars, running, queueSize, packet,
                 packetSize, currentFilesize, files, written, lost, failed>>

Exit ==
  /\ wpc = "exit"
  /\ running' = FALSE /\ wpc' = "stopped"
  /\ UNCHANGED <<queue, mutex, gameVars, queueSize, packet, packetSize,
                 currentFilesize, files, written, lost, failed>>

\* The thread follows a pointer of the freed object.
UseFreed ==
  /\ Freed
  /\ wpc \in {"open", "drain"} \/ (wpc = "rotate" /\ FileFull)
  /\ wpc' = "crashed"
  /\ UNCHANGED <<queue, mutex, gameVars, running, queueSize, packet,
                 packetSize, currentFilesize, files, written, lost, failed>>

-----------------------------------------------------------------------------
Push == \/ PushBegin
        \/ PushAcquire
        \/ \E m \in Message : PushRelease(m)

Unload == StopBegin \/ StopSeen \/ StopTimeout

Writer == \/ OpenLatest \/ OpenFails
          \/ \E seen \in BOOLEAN : CheckExit(seen)
          \/ Rotate \/ RotateFails
          \/ Acquire \/ AcquireFails
          \/ Take \/ Release
          \/ \E seen \in BOOLEAN : Write(seen)
          \/ \E n \in 0 .. Len(packet), bytes \in 0 .. packetSize - 1 :
               WriteShort(n, bytes)
          \/ Wake \/ Exit \/ UseFreed

\* Both threads are done; the rest of the process goes on without them.
Done == Freed /\ wpc \in {"stopped", "crashed"} /\ UNCHANGED vars

Next == Push \/ Unload \/ Writer \/ Done

Spec == Init /\ [][Next]_vars

(* The scheduler runs both threads.  Windows grants a mutex to its waiters  *)
(* in turn, which makes it fair to a thread that asks for it again and      *)
(* again (strong fairness).  Nothing makes the game push or unload.         *)
Fairness ==
  /\ SF_vars(PushAcquire) /\ WF_vars(\E m \in Message : PushRelease(m))
  /\ WF_vars(StopSeen \/ StopTimeout)
  /\ WF_vars(Writer) /\ SF_vars(Acquire)

FairSpec == Spec /\ Fairness

-----------------------------------------------------------------------------
TypeOK ==
  /\ queue \in Seq(Message) /\ packet \in Seq(Message)
  /\ written \in Seq(Message) /\ lost \in Seq(Message)
  /\ accepted \in Seq(Message)
  /\ mutex \in {"free", "game", "writer"}
  /\ gpc \in GamePC /\ wpc \in WriterPC
  /\ exitFlag \in BOOLEAN /\ running \in BOOLEAN /\ timedOut \in BOOLEAN
  /\ failed \in BOOLEAN
  /\ queueSize \in Nat /\ packetSize \in Nat /\ currentFilesize \in Nat
  /\ files \in Seq(Nat)

\* Every message that push() took is, in the order of the pushes, in the
\* files, in the unwritten rest of a short write, in the packet buffer or in
\* the queue, and in only one of them: whatever the two threads do, nothing is
\* dropped, duplicated or overtaken on its way to the disk.
NoneLost == accepted = written \o Pending

\* A packet never exceeds writeBuffer (a message more would overrun the heap
\* block) nor the number of messages a packet may have.
PacketFits ==
  /\ packetSize <= WriteBufferSize
  /\ Len(packet) <= MessagePerPacket

\* packetSize, by which the packet is limited and written, is the number of
\* bytes that are in writeBuffer.
PacketSizeExact == packetSize = Bytes(packet)

\* No file outgrows fileSize, and in its loop the writer knows the true size
\* of the file it appends to.
FilesFit ==
  /\ \A i \in DOMAIN files : files[i] <= FileSize
  /\ wpc \in {"top", "rotate", "wait", "drain", "write", "sleep"} =>
       files # << >> /\ currentFilesize = files[Len(files)]

\* The mutex excludes the threads from each other, and no thread ends or
\* leaves the object while it owns the mutex, unless the object was freed.
LockHeld ==
  /\ mutex = "game" <=> gpc = "pushing"
  /\ wpc = "drain" => mutex = "writer"
  /\ mutex = "writer" => wpc \in {"drain", "crashed"}

\* The thread follows a pointer into the freed object only when the
\* destructor did not wait for it: seeing running cleared is enough.
CrashNeedsTimeout == wpc = "crashed" => timedOut

\* The thread and the destructor implement the interface of an event log.
Log == INSTANCE EventLog WITH
         log <- written,
         pending <- Pending,
         alive <- wpc \notin {"exit", "stopped", "crashed"}

LogSpec == Log!Spec

\* A push is never held up for ever, whatever becomes of the writer thread.
PushReturns == gpc \in {"wait", "pushing"} ~> gpc = "idle"

\* The destructor returns, and the thread ends: it leaves its loop at the
\* pause when it has nothing to write, and otherwise only because the closed
\* handle makes its next wait fail.
UnloadReturns == gpc = "stopping" ~> Freed
ThreadEnds == exitFlag ~> wpc \in {"stopped", "crashed"}

\* While the plugin is loaded every accepted message reaches the files, if no
\* call fails and it does not stand behind a message longer than the buffer.
Flushed ==
  \A n \in 1 .. MaxPushes :
    Len(accepted) >= n ~>
      \/ Len(written) >= n \/ exitFlag \/ failed
      \/ \E i \in 1 .. n : i <= Len(accepted) /\ Size[accepted[i]] > WriteBufferSize

\* If the flag finds the thread at work, not in its pause, then the thread goes
\* on without a pause until its handle is closed, for in its loop the flag
\* means that there is more to write: unless a call has failed, the
\* destructor returns only after its five seconds, however short the queue.
AwakeExitWaits ==
  [](gpc = "stopping" /\ wpc \in {"open", "rotate", "wait", "drain", "write"}
       => [](Freed => failed \/ timedOut))

\* A push returns, an unload returns and the thread ends, whatever has failed; and what
\* is pushed reaches the files, if nothing has.
Progress == PushReturns /\ UnloadReturns /\ ThreadEnds /\ Flushed

\* Whatever fails and whenever the destructor gives up, neither the packet nor
\* a file grows beyond its limit, the queue has one owner, and the freed object is
\* used only if it gave up.
Inv == TypeOK /\ PacketFits /\ FilesFit /\ LockHeld /\ CrashNeedsTimeout

=============================================================================
