---------------------------- MODULE EventLogProofs ----------------------------
(***************************************************************************)
(* Proofs about the event log: the writer of one log, the string library,  *)
(* which is kept in two of them, and the messages that come into it.       *)
(*                                                                         *)
(* EventWriter, for every set of messages, every size of the buffers and   *)
(* files and every fault: type correctness, the safety invariants, and     *)
(* that the writer implements the interface EventLog.                      *)
(*                                                                         *)
(* StringLibrary, for every set of strings, any number of sessions and of  *)
(* messages, wherever the sessions are cut off, whatever of the string     *)
(* files they can read, and whatever is made of the bytes behind a record  *)
(* that was cut off.                                                       *)
(*                                                                         *)
(* Messages, for bytes of any number of values, buffers of any size and    *)
(* values of all types and sizes: the bytes of a message are read back as  *)
(* the values that were pushed, wherever they are split, and the reader    *)
(* of a function's message knows from its first two values what it says.   *)
(***************************************************************************)
EXTENDS EventWriter, StringLibrary, Messages, ProofFacts

-----------------------------------------------------------------------------
(* The writer.                                                             *)

(* Where in its loop the thread may hold messages in its packet, and where  *)
(* it has made sure that a full packet fits into the file.                  *)
Holding == {"drain", "write", "crashed"}
Checked == {"wait", "drain", "write"}
Ended   == {"exit", "stopped"}

(* What the invariants need to be inductive.                                *)
PacketInv == wpc \notin Holding => packet = << >> /\ packetSize = 0
RoomInv   == wpc \in Checked => currentFilesize + WriteBufferSize <= FileSize
LostInv   == lost # << >> => wpc \in Ended
PushInv   == gpc \in {"wait", "pushing"} => Len(accepted) < MaxPushes
FreedInv  == /\ running = (wpc # "stopped")
             /\ Freed /\ ~timedOut => wpc = "stopped"
             /\ wpc = "crashed" => Freed

IInv == /\ TypeOK
        /\ NoneLost /\ PacketFits /\ FilesFit /\ LockHeld
        /\ PacketInv /\ RoomInv /\ LostInv /\ PushInv /\ FreedInv

-----------------------------------------------------------------------------
(* Facts about sequences.                                                   *)

\* Messages may be regrouped: concatenation is associative.
LEMMA Regroup ==
  \A p, q, r \in Seq(Message) : (p \o q) \o r = p \o (q \o r)
<1>1. ASSUME NEW p \in Seq(Message), NEW q \in Seq(Message), NEW r \in Seq(Message)
      PROVE  (p \o q) \o r = p \o (q \o r)
  BY ONLY <1>1, ConcatAssociative
<1> QED
  BY <1>1

-----------------------------------------------------------------------------
(* The invariant holds initially and is preserved by every action.          *)

\* A new writer satisfies the invariant (121-131).
LEMMA InitInv == Init => IInv
<1> SUFFICES ASSUME Init PROVE IInv
  OBVIOUS
<1>1. << >> \in Seq(Message) /\ << >> \o << >> \o << >> = << >>
      /\ << >> \o << >> = << >>
  BY EmptySeq, ConcatEmptySeq
<1>2. TypeOK
  <2>1. files \in Seq(Nat)
    BY ConstantsAssumption, SeqMonotonic DEF Init
  <2> QED
    BY <1>1, <2>1 DEF Init, TypeOK, GamePC, WriterPC
<1>3. NoneLost /\ PacketFits /\ LockHeld
  BY <1>1, ConstantsAssumption DEF Init, NoneLost, Pending, PacketFits, LockHeld
<1>4. FilesFit
  BY ConstantsAssumption, LenProperties, ElementOfSeq DEF Init, FilesFit
<1>5. PacketInv /\ RoomInv /\ LostInv /\ PushInv /\ FreedInv
  BY DEF Init, PacketInv, RoomInv, LostInv, PushInv, FreedInv, Freed, Checked
<1> QED
  BY <1>2, <1>3, <1>4, <1>5 DEF IInv

\* push() preserves the invariant (254-267).
LEMMA PushInvariant == IInv /\ Push => IInv'
<1> SUFFICES ASSUME IInv, Push PROVE IInv'
  OBVIOUS
<1> USE DEF IInv
<1>1. CASE PushBegin
  <2>1. TypeOK'
    BY <1>1 DEF PushBegin, writerVars, TypeOK, GamePC
  <2> QED
    BY <1>1, <2>1 DEF PushBegin, writerVars, NoneLost, Pending,
       PacketFits, FilesFit, LockHeld, PacketInv, RoomInv, LostInv, PushInv,
       FreedInv, Freed
<1>2. CASE PushAcquire
  <2>1. TypeOK'
    BY <1>2 DEF PushAcquire, writerVars, TypeOK, GamePC
  <2> QED
    BY <1>2, <2>1 DEF PushAcquire, writerVars, NoneLost, Pending,
       PacketFits, FilesFit, LockHeld, PacketInv, RoomInv, LostInv, PushInv,
       FreedInv, Freed
<1>3. ASSUME NEW m \in Message, PushRelease(m) PROVE IInv'
  <2>0. /\ queue \in Seq(Message) /\ packet \in Seq(Message)
        /\ lost \in Seq(Message) /\ written \in Seq(Message)
        /\ accepted \in Seq(Message)
    BY DEF TypeOK
  <2>1. /\ Append(accepted, m) \in Seq(Message)
        /\ Append(queue, m) \in Seq(Message)
    BY <1>3, <2>0, AppendProperties
  <2>2. lost \o packet \in Seq(Message) /\ Pending \in Seq(Message)
    BY <2>0, ConcatProperties DEF Pending
  <2>3. Pending' = Append(Pending, m)
    BY <1>3, <2>0, <2>2, AppendConcat DEF PushRelease, writerVars, Pending
  <2>4. NoneLost'
    <3>1. written \o Append(Pending, m) = Append(written \o Pending, m)
      BY <2>0, <2>2, AppendConcat
    <3> QED
      BY <1>3, <2>3, <3>1 DEF PushRelease, writerVars, NoneLost
  <2>5. TypeOK'
    BY <1>3, <2>0, <2>1 DEF PushRelease, writerVars, TypeOK, GamePC
  <2> QED
    BY <1>3, <2>5, <2>4 DEF PushRelease, writerVars,
       PacketFits, FilesFit, LockHeld, PacketInv, RoomInv, LostInv, PushInv,
       FreedInv, Freed
<1> QED
  BY <1>1, <1>2, <1>3 DEF Push

\* The destructor preserves the invariant (235-252).
LEMMA UnloadInvariant == IInv /\ Unload => IInv'
<1> SUFFICES ASSUME IInv, Unload PROVE IInv'
  OBVIOUS
<1>1. UNCHANGED <<queue, mutex, accepted, writerVars>>
  BY DEF Unload, StopBegin, StopSeen, StopTimeout
<1>2. TypeOK'
  BY <1>1 DEF Unload, StopBegin, StopSeen, StopTimeout, IInv, TypeOK, GamePC,
     writerVars
<1>3. PushInv' /\ FreedInv' /\ LockHeld'
  BY <1>1 DEF Unload, StopBegin, StopSeen, StopTimeout, IInv, TypeOK,
     PushInv, FreedInv, LockHeld, Freed, writerVars
<1> QED
  BY <1>1, <1>2, <1>3 DEF IInv, writerVars, NoneLost, Pending, PacketFits,
     FilesFit, PacketInv, RoomInv, LostInv

(* The steps of the writer that move neither messages nor bytes.            *)
LEMMA ControlInvariant ==
  ASSUME IInv,
         \/ OpenFails \/ RotateFails \/ Acquire \/ AcquireFails \/ Wake
         \/ Exit \/ UseFreed \/ \E seen \in BOOLEAN : CheckExit(seen)
  PROVE  IInv'
<1>1. /\ UNCHANGED <<queue, gameVars, queueSize, packet, packetSize,
                     currentFilesize, files, written, lost>>
      /\ wpc' \in WriterPC /\ running' \in BOOLEAN /\ failed' \in BOOLEAN
      /\ mutex' \in {"free", "game", "writer"}
  BY DEF OpenFails, RotateFails, Acquire, AcquireFails, Wake, Exit, UseFreed,
     CheckExit, WriterPC, IInv, TypeOK
<1>2. TypeOK' /\ NoneLost' /\ PacketFits'
  BY <1>1 DEF IInv, TypeOK, NoneLost, Pending, PacketFits, gameVars
<1>3. FilesFit' /\ PacketInv' /\ RoomInv' /\ LostInv' /\ PushInv'
  BY <1>1 DEF OpenFails, RotateFails, Acquire, AcquireFails, Wake, Exit,
     UseFreed, CheckExit, IInv, FilesFit, PacketInv, RoomInv, LostInv, PushInv,
     Holding, Checked, Ended, gameVars
<1>4. LockHeld' /\ FreedInv'
  BY <1>1 DEF OpenFails, RotateFails, Acquire, AcquireFails, Wake, Exit,
     UseFreed, CheckExit, IInv, TypeOK, LockHeld, FreedInv, Freed, gameVars
<1> QED
  BY <1>2, <1>3, <1>4 DEF IInv

\* Finding the last file of a day preserves the invariant (282-309).
LEMMA OpenInvariant == IInv /\ OpenLatest => IInv'
<1> SUFFICES ASSUME IInv, OpenLatest PROVE IInv'
  OBVIOUS
<1> DEFINE opened == IF files = << >> THEN <<0>> ELSE files
<1>1. /\ opened \in Seq(Nat) /\ opened # << >> /\ Len(opened) \in DOMAIN opened
      /\ \A i \in DOMAIN opened : opened[i] \in Nat /\ opened[i] <= FileSize
  <2>1. CASE files = << >>
    <3>1. opened = <<0>> /\ Len(opened) = 1 /\ DOMAIN opened = {1}
          /\ opened[1] = 0 /\ opened \in Seq(Nat)
      BY <2>1
    <3> QED
      BY <3>1, ConstantsAssumption
  <2>2. CASE files # << >>
    <3>1. opened = files /\ files \in Seq(Nat)
      BY <2>2 DEF IInv, TypeOK
    <3>2. Len(files) \in Nat \ {0} /\ DOMAIN files = 1 .. Len(files)
      BY <2>2, <3>1, LenProperties, EmptySeq
    <3>3. \A i \in DOMAIN files : files[i] \in Nat /\ files[i] <= FileSize
      BY <3>1, <3>2, ElementOfSeq DEF IInv, FilesFit
    <3> HIDE DEF opened
    <3> QED
      BY <2>2, <3>1, <3>2, <3>3
  <2> QED
    BY <2>1, <2>2
<1>2. files' = opened /\ currentFilesize' = opened[Len(opened)]
  BY DEF OpenLatest
<1>3. TypeOK'
  BY <1>1, <1>2 DEF OpenLatest, IInv, TypeOK, WriterPC, gameVars
<1>4. FilesFit'
  BY <1>1, <1>2 DEF FilesFit
<1> QED
  BY <1>3, <1>4 DEF OpenLatest, IInv, NoneLost, Pending, PacketFits, LockHeld,
     PacketInv, RoomInv, LostInv, PushInv, FreedInv, Freed, Holding, Checked,
     Ended, gameVars

\* Opening the next file preserves the invariant (317-335).
LEMMA RotateInvariant == IInv /\ Rotate => IInv'
<1> SUFFICES ASSUME IInv, Rotate PROVE IInv'
  OBVIOUS
<1>1. CASE FileFull
  <2>0. files \in Seq(Nat) /\ Len(files) \in Nat /\ DOMAIN files = 1 .. Len(files)
    BY LenProperties DEF IInv, TypeOK
  <2>1. /\ files' = Append(files, 0) /\ files' \in Seq(Nat)
        /\ Len(files') = Len(files) + 1
        /\ \A i \in 1 .. Len(files) : files'[i] = files[i]
        /\ files'[Len(files) + 1] = 0
        /\ currentFilesize' = 0
    <3>1. files' = Append(files, 0) /\ currentFilesize' = 0 /\ 0 \in Nat
      BY <1>1 DEF Rotate
    <3> QED
      BY ONLY <2>0, <3>1, AppendProperties
  <2>2. FilesFit'
    <3>1. DOMAIN files' = 1 .. Len(files) + 1
      BY <2>1, LenProperties
    <3>2. \A i \in DOMAIN files' : files'[i] <= FileSize
      BY <2>0, <2>1, <3>1, ConstantsAssumption DEF IInv, FilesFit
    <3>3. files' # << >>
      BY <2>0, <2>1
    <3> QED
      BY <2>1, <3>2, <3>3 DEF FilesFit
  <2>3. TypeOK'
    BY <2>1 DEF Rotate, IInv, TypeOK, WriterPC, gameVars
  <2> QED
    BY <2>1, <2>2, <2>3, ConstantsAssumption DEF Rotate, IInv, NoneLost,
       Pending, PacketFits, LockHeld, PacketInv, RoomInv, LostInv, PushInv,
       FreedInv, Freed, Holding, Checked, Ended, gameVars
<1>2. CASE ~FileFull
  <2>1. currentFilesize + WriteBufferSize <= FileSize
    BY <1>2, ConstantsAssumption DEF FileFull, IInv, TypeOK
  <2>2. TypeOK'
    BY <1>2 DEF Rotate, IInv, TypeOK, WriterPC, gameVars
  <2> QED
    BY <1>2, <2>1, <2>2 DEF Rotate, IInv, NoneLost, FilesFit,
       Pending, PacketFits, LockHeld, PacketInv, RoomInv, LostInv, PushInv,
       FreedInv, Freed, Holding, Checked, Ended, gameVars
<1> QED
  BY <1>1, <1>2

\* Moving a message into the packet preserves the invariant (344-360).
LEMMA TakeInvariant ==
  ASSUME IInv, Take
  PROVE  IInv' /\ Pending' = Pending
<1>0. /\ packet \in Seq(Message) /\ queue \in Seq(Message) /\ queue # << >>
      /\ lost \in Seq(Message)
  BY DEF Take, CanTake, IInv, TypeOK
<1>1. /\ packet' \in Seq(Message) /\ queue' \in Seq(Message)
      /\ packet' \o queue' = packet \o queue
      /\ Len(packet') = Len(packet) + 1 /\ Head(queue) \in Message
  <2>1. packet' = Append(packet, Head(queue)) /\ queue' = Tail(queue)
    BY DEF Take
  <2> QED
    BY ONLY <1>0, <2>1, MoveHead
<1>2. packetSize' \in Nat /\ packetSize' <= WriteBufferSize
  <2>1. Size[Head(queue)] \in Nat /\ WriteBufferSize \in Nat
    BY <1>1, ConstantsAssumption
  <2>2. packetSize \in Nat
    BY DEF IInv, TypeOK
  <2> QED
    BY <2>1, <2>2 DEF Take, CanTake
<1>3. Len(packet') <= MessagePerPacket
  BY <1>0, <1>1, LenProperties, ConstantsAssumption DEF Take, CanTake
<1>4. Pending' = Pending
  <2>1. (lost \o packet) \o queue = lost \o (packet \o queue)
    BY <1>0, Regroup
  <2>0. lost \in Seq(Message) /\ packet' \in Seq(Message) /\ queue' \in Seq(Message)
    BY <1>0, <1>1
  <2>2. (lost \o packet') \o queue' = lost \o (packet' \o queue')
    BY <2>0, Regroup
  <2>3. lost' = lost /\ packet' \o queue' = packet \o queue
    BY <1>1 DEF Take
  <2>4. (lost \o packet') \o queue' = (lost \o packet) \o queue
    BY <2>1, <2>2, <2>3
  <2> QED
    BY <2>3, <2>4 DEF Pending
<1>5. TypeOK'
  BY <1>1, <1>2 DEF Take, IInv, TypeOK, gameVars
<1>6. FilesFit' /\ LockHeld' /\ FreedInv' /\ PacketInv'
  BY DEF Take, IInv, FilesFit, LockHeld, FreedInv, Freed, PacketInv, Holding,
     gameVars
<1> QED
  BY <1>2, <1>3, <1>4, <1>5, <1>6 DEF Take, IInv, NoneLost, PacketFits,
     RoomInv, LostInv, PushInv, gameVars

\* Releasing the mutex preserves the invariant (361-363).
LEMMA ReleaseInvariant == IInv /\ Release => IInv'
<1> SUFFICES ASSUME IInv, Release PROVE IInv'
  OBVIOUS
<1>1. TypeOK'
  BY LenProperties DEF Release, IInv, TypeOK, WriterPC, gameVars
<1>2. LockHeld' /\ FreedInv'
  BY DEF Release, IInv, TypeOK, LockHeld, FreedInv, Freed, gameVars
<1> QED
  BY <1>1, <1>2 DEF Release, IInv, NoneLost, Pending, PacketFits, FilesFit,
     PacketInv, RoomInv, LostInv, PushInv, Holding, Checked, Ended, gameVars

(* Growing the last file by bytes that fit.                                 *)
LEMMA GrowFits ==
  ASSUME IInv, wpc = "write", NEW n \in Nat, n <= WriteBufferSize, Grow(n)
  PROVE  /\ files' \in Seq(Nat) /\ files' # << >>
         /\ \A i \in DOMAIN files' : files'[i] <= FileSize
         /\ files'[Len(files')] = currentFilesize + n
<1>1. /\ files \in Seq(Nat) /\ files # << >>
      /\ currentFilesize = files[Len(files)]
      /\ \A i \in DOMAIN files : files[i] <= FileSize
      /\ currentFilesize + WriteBufferSize <= FileSize
      /\ currentFilesize \in Nat
  BY DEF IInv, TypeOK, FilesFit, RoomInv, Checked
<1>2. /\ Len(files) \in Nat \ {0} /\ DOMAIN files = 1 .. Len(files)
      /\ Len(files) \in 1 .. Len(files)
  BY <1>1, LenProperties, EmptySeq
<1>3. /\ currentFilesize + n \in Nat
      /\ files' = [files EXCEPT ![Len(files)] = currentFilesize + n]
  BY <1>1, <1>2 DEF Grow
<1>4. /\ files' \in Seq(Nat) /\ Len(files') = Len(files)
      /\ \A j \in 1 .. Len(files) :
           files'[j] = IF j = Len(files) THEN currentFilesize + n ELSE files[j]
  BY <1>1, <1>2, <1>3, ExceptSeq
<1>5. DOMAIN files' = 1 .. Len(files)
  BY <1>4, LenProperties
<1>6. \A j \in 1 .. Len(files) : files'[j] <= FileSize
  <2>1. currentFilesize + n <= FileSize
    BY <1>1, ConstantsAssumption
  <2> QED
    BY <1>1, <1>2, <1>4, <2>1
<1> QED
  BY <1>2, <1>4, <1>5, <1>6

\* Writing a packet as a whole preserves the invariant (365-386).
LEMMA WriteInvariant ==
  ASSUME IInv, NEW seen \in BOOLEAN, Write(seen)
  PROVE  /\ IInv'
         /\ lost = << >> /\ Pending = packet \o queue /\ Pending' = queue
<1>0. /\ written \in Seq(Message) /\ packet \in Seq(Message)
      /\ queue \in Seq(Message) /\ packetSize \in Nat
      /\ lost = << >> /\ wpc = "write"
  BY DEF Write, IInv, TypeOK, LostInv, Ended
<1>1. written' \in Seq(Message) /\ packet' = << >> /\ packet' \in Seq(Message)
  BY <1>0, ConcatProperties, EmptySeq DEF Write
<1>2. Pending = packet \o queue /\ Pending' = queue
  <2>1. << >> \o packet = packet /\ << >> \o queue = queue
        /\ << >> \o << >> = << >>
    BY <1>0, ConcatEmptySeq, EmptySeq
  <2>2. lost' = << >> /\ queue' = queue
    BY <1>0 DEF Write
  <2> QED
    BY <1>0, <1>1, <2>1, <2>2 DEF Pending
<1>3. NoneLost'
  <2>1. (written \o packet) \o queue = written \o (packet \o queue)
    BY <1>0, Regroup
  <2> QED
    BY <1>2, <2>1 DEF Write, IInv, NoneLost, gameVars
<1>4. /\ files' \in Seq(Nat) /\ FilesFit'
      /\ currentFilesize' \in Nat /\ packetSize' = 0
  <2>1. packetSize <= WriteBufferSize /\ Grow(packetSize)
    BY DEF Write, IInv, PacketFits
  <2> QED
    BY <1>0, <2>1, GrowFits DEF Write, IInv, TypeOK, FilesFit
<1>5. TypeOK'
  BY <1>1, <1>4 DEF Write, IInv, TypeOK, WriterPC, gameVars
<1>6. LockHeld' /\ FreedInv' /\ PacketInv' /\ RoomInv' /\ LostInv' /\ PushInv'
  BY <1>0, <1>1, <1>4 DEF Write, IInv, LockHeld, FreedInv, Freed, PacketInv,
     RoomInv, LostInv, PushInv, Checked, gameVars
<1>7. PacketFits'
  BY <1>1, <1>4, ConstantsAssumption, EmptySeq DEF PacketFits
<1> QED
  BY <1>0, <1>2, <1>3, <1>4, <1>5, <1>6, <1>7 DEF IInv

\* A short write, after which the thread ends, preserves the invariant (365-369).
LEMMA WriteShortInvariant ==
  ASSUME IInv, NEW n \in 0 .. Len(packet), NEW bytes \in 0 .. packetSize - 1,
         WriteShort(n, bytes)
  PROVE  /\ IInv'
         /\ lost = << >> /\ Pending = packet \o queue
         /\ Pending' = SubSeq(packet, n + 1, Len(packet)) \o queue
         /\ packet \in Seq(Message) /\ n < Len(packet)
<1>0. /\ written \in Seq(Message) /\ packet \in Seq(Message)
      /\ queue \in Seq(Message) /\ packetSize \in Nat
      /\ lost = << >> /\ wpc = "write" /\ n < Len(packet)
      /\ packetSize <= WriteBufferSize
  BY DEF WriteShort, IInv, TypeOK, PacketFits, LostInv, Ended
<1>a. PICK done \in Seq(Message), rest \in Seq(Message) :
        /\ done = SubSeq(packet, 1, n)
        /\ rest = SubSeq(packet, n + 1, Len(packet))
        /\ done \o rest = packet
  <2>1. /\ SubSeq(packet, 1, n) \in Seq(Message)
        /\ SubSeq(packet, n + 1, Len(packet)) \in Seq(Message)
        /\ SubSeq(packet, 1, n) \o SubSeq(packet, n + 1, Len(packet)) = packet
    BY <1>0, SplitAt
  <2> QED
    BY <2>1
<1>1. done \in Seq(Message) /\ rest \in Seq(Message) /\ done \o rest = packet
  BY <1>a
<1>2. /\ written' = written \o done /\ lost' = rest /\ packet' = << >>
      /\ queue' = queue /\ accepted' = accepted
  BY <1>a DEF WriteShort, gameVars
<1>3. written' \in Seq(Message) /\ lost' \in Seq(Message) /\ packet' \in Seq(Message)
  BY <1>0, <1>1, <1>2, ConcatProperties, EmptySeq
<1>4. Pending = packet \o queue /\ Pending' = rest \o queue
  <2>1. << >> \o packet = packet /\ rest \o << >> = rest
    BY <1>0, <1>1, ConcatEmptySeq
  <2> QED
    BY <1>0, <1>2, <2>1 DEF Pending
<1>5. NoneLost'
  <2>0. /\ written \in Seq(Message) /\ done \in Seq(Message)
        /\ rest \in Seq(Message) /\ queue \in Seq(Message)
    BY <1>0, <1>1
  <2>1. (done \o rest) \o queue = done \o (rest \o queue)
    BY <2>0, Regroup
  <2>2. (written \o done) \o (rest \o queue) = written \o (done \o (rest \o queue))
    <3>1. rest \o queue \in Seq(Message)
      BY <2>0, ConcatProperties
    <3> QED
      BY ONLY <2>0, <3>1, Regroup
  <2>4. accepted = written \o (packet \o queue)
    BY <1>4 DEF IInv, NoneLost
  <2>5. accepted' = written' \o (rest \o queue)
    BY <1>1, <1>2, <2>1, <2>2, <2>4
  <2> QED
    BY <1>4, <2>5 DEF NoneLost
<1>6. files' \in Seq(Nat) /\ FilesFit' /\ packetSize' = 0 /\ wpc' = "exit"
  <2>1. bytes \in Nat /\ bytes <= WriteBufferSize /\ Grow(bytes)
    BY <1>0, ConstantsAssumption DEF WriteShort
  <2> QED
    BY <1>0, <2>1, GrowFits DEF WriteShort, FilesFit
<1>7. TypeOK'
  BY <1>3, <1>6 DEF WriteShort, IInv, TypeOK, WriterPC, gameVars
<1>8. LockHeld' /\ FreedInv' /\ PacketInv' /\ RoomInv' /\ LostInv' /\ PushInv'
  BY <1>0, <1>2, <1>6 DEF WriteShort, IInv, LockHeld, FreedInv, Freed,
     PacketInv, RoomInv, LostInv, PushInv, Checked, Ended, gameVars
<1>9. PacketFits'
  BY <1>2, <1>6, ConstantsAssumption, EmptySeq DEF PacketFits
<1> QED
  BY <1>0, <1>a, <1>4, <1>5, <1>6, <1>7, <1>8, <1>9 DEF IInv

\* Each step of the writer thread preserves the invariant (270-406).
LEMMA WriterInvariant == IInv /\ Writer => IInv'
<1> SUFFICES ASSUME IInv, Writer PROVE IInv'
  OBVIOUS
<1>1. CASE \E n \in 0 .. Len(packet), bytes \in 0 .. packetSize - 1 :
             WriteShort(n, bytes)
  BY <1>1, WriteShortInvariant
<1>2. CASE \E seen \in BOOLEAN : Write(seen)
  BY <1>2, WriteInvariant
<1>3. CASE OpenLatest \/ Rotate \/ Take \/ Release
  BY <1>3, OpenInvariant, RotateInvariant, TakeInvariant, ReleaseInvariant
<1>4. CASE \/ OpenFails \/ RotateFails \/ Acquire \/ AcquireFails \/ Wake
           \/ Exit \/ UseFreed \/ \E seen \in BOOLEAN : CheckExit(seen)
  BY <1>4, ControlInvariant
<1> QED
  BY <1>1, <1>2, <1>3, <1>4 DEF Writer

\* The invariant depends on nothing but the variables.
LEMMA StutterInvariant == IInv /\ UNCHANGED vars => IInv'
BY DEF vars, gameVars, writerVars, IInv, TypeOK, NoneLost, Pending, PacketFits,
   FilesFit, LockHeld, PacketInv, RoomInv, LostInv, PushInv, FreedInv, Freed

\* Each step preserves the invariant.
LEMMA StepInvariant == IInv /\ [Next]_vars => IInv'
BY PushInvariant, UnloadInvariant, WriterInvariant, StutterInvariant
   DEF Next, Done

\* The invariant holds in every behaviour.
LEMMA Invariance == Spec => []IInv
BY InitInv, StepInvariant, PTL DEF Spec

-----------------------------------------------------------------------------
(* The theorems.                                                            *)

\* The variables of an EventWriter always have their types.
THEOREM TypeCorrect == Spec => []TypeOK
BY Invariance, PTL DEF IInv

\* No interleaving of pushes, packets, short writes and the destructor drops,
\* duplicates or reorders a message (M_event_writer.cpp 254-267, 344-370).
THEOREM NoMessageLost == Spec => []NoneLost
BY Invariance, PTL DEF IInv

\* The write buffer is never overrun, for any sizes of messages and buffer
\* (M_event_writer.cpp 344-360).
THEOREM PacketsFit == Spec => []PacketFits
BY Invariance, PTL DEF IInv

\* No file outgrows fileSize, and the writer's idea of the size of its file
\* is the size of that file (M_event_writer.cpp 317-331, 365-370).
THEOREM FilesStayWithinLimit == Spec => []FilesFit
BY Invariance, PTL DEF IInv

\* The mutex keeps push() and the writer apart and is not left locked
\* (M_event_writer.cpp 261-266, 337-363).
THEOREM LockDiscipline == Spec => []LockHeld
BY Invariance, PTL DEF IInv

\* A thread that the destructor has waited for never touches the freed object
\* (M_event_writer.cpp 235-252).
THEOREM CrashOnlyAfterTimeout == Spec => []CrashNeedsTimeout
<1>1. IInv => CrashNeedsTimeout
  BY DEF IInv, TypeOK, FreedInv, CrashNeedsTimeout
<1> QED
  BY <1>1, Invariance, PTL

\* Types, limits, the mutex and the destructor together: what the run checks as Inv, for all
\* sizes, numbers of messages and failing calls.
THEOREM InvariantHolds == Spec => []Inv
BY TypeCorrect, PacketsFit, FilesStayWithinLimit, LockDiscipline, CrashOnlyAfterTimeout, PTL
   DEF Inv

-----------------------------------------------------------------------------
(* EventWriter implements EventLog.                                         *)

Alive == wpc \notin {"exit", "stopped", "crashed"}

\* A push is an Accept of the interface, or nothing (254-267).
LEMMA PushRefines == IInv /\ Push => [Log!Next]_(Log!vars)
<1> SUFFICES ASSUME IInv, Push PROVE [Log!Next]_(Log!vars)
  OBVIOUS
<1>1. CASE PushBegin \/ PushAcquire
  BY <1>1 DEF PushBegin, PushAcquire, writerVars, Log!vars, Pending
<1>2. ASSUME NEW m \in Message, PushRelease(m) PROVE Log!Accept(m)
  <2>1. /\ queue \in Seq(Message) /\ packet \in Seq(Message)
        /\ lost \in Seq(Message) /\ written \in Seq(Message)
    BY DEF IInv, TypeOK
  <2>2. lost \o packet \in Seq(Message) /\ Pending \in Seq(Message)
    BY <2>1, ConcatProperties DEF Pending
  <2>3. Pending' = Append(Pending, m)
    BY <1>2, <2>1, <2>2, AppendConcat DEF PushRelease, writerVars, Pending
  <2>4. Len(accepted) = Len(written) + Len(Pending)
    BY <2>1, <2>2, ConcatProperties DEF IInv, NoneLost
  <2>5. Len(accepted) < MaxPushes
    BY <1>2 DEF PushRelease, IInv, PushInv
  <2> QED
    BY <1>2, <2>3, <2>4, <2>5 DEF PushRelease, writerVars, Log!Accept
<1> QED
  BY <1>1, <1>2 DEF Push, Log!Next

(* A step of the writer that moves nothing stutters or stops the log.       *)
LEMMA QuietRefines ==
  ASSUME IInv, written' = written, Pending' = Pending, Alive' => Alive
  PROVE  [Log!Next]_(Log!vars)
<1>1. CASE Alive' = Alive
  BY <1>1 DEF Log!vars, Alive
<1>2. CASE Alive' # Alive
  <2>1. Len(written) \in Nat
    BY LenProperties DEF IInv, TypeOK
  <2> QED
    BY <1>2, <2>1 DEF Alive, Log!Next, Log!Stop, Log!Move
<1> QED
  BY <1>1, <1>2

\* A step of the thread moves messages, commits them, stops, or does nothing
\* to the interface (270-406).
LEMMA WriterRefines == IInv /\ Writer => [Log!Next]_(Log!vars)
<1> SUFFICES ASSUME IInv, Writer PROVE [Log!Next]_(Log!vars)
  OBVIOUS
<1>0. /\ written \in Seq(Message) /\ packet \in Seq(Message)
      /\ queue \in Seq(Message)
  BY DEF IInv, TypeOK
<1>1. ASSUME NEW n \in 0 .. Len(packet), NEW bytes \in 0 .. packetSize - 1,
             WriteShort(n, bytes)
      PROVE  Log!Stop
  <2>1. IInv' /\ accepted' = accepted
    BY <1>1, WriteShortInvariant DEF WriteShort, gameVars
  <2>2. written' \o Pending' = written \o Pending
    BY <2>1 DEF IInv, NoneLost
  <2>3. Len(written) <= Len(written')
    <3>1. SubSeq(packet, 1, n) \in Seq(Message)
      BY <1>0, SplitAt
    <3>2. /\ Len(written \o SubSeq(packet, 1, n))
             = Len(written) + Len(SubSeq(packet, 1, n))
          /\ Len(written) \in Nat /\ Len(SubSeq(packet, 1, n)) \in Nat
      BY <1>0, <3>1, ConcatProperties, LenProperties
    <3> QED
      BY <1>1, <3>2 DEF WriteShort
  <2> QED
    BY <1>1, <2>2, <2>3 DEF WriteShort, Log!Stop, Log!Move
<1>2. ASSUME NEW seen \in BOOLEAN, Write(seen)
      PROVE  Log!Commit
  <2>1. IInv' /\ accepted' = accepted
    BY <1>2, WriteInvariant DEF Write, gameVars
  <2>2. written' \o Pending' = written \o Pending
    BY <2>1 DEF IInv, NoneLost
  <2>3. Len(written) <= Len(written')
    <3>1. /\ Len(written \o packet) = Len(written) + Len(packet)
          /\ Len(written) \in Nat /\ Len(packet) \in Nat
      BY <1>0, ConcatProperties, LenProperties
    <3> QED
      BY <1>2, <3>1 DEF Write
  <2> QED
    BY <1>2, <2>2, <2>3 DEF Write, Log!Commit, Log!Move
<1>3. CASE Take
  BY <1>3, TakeInvariant, QuietRefines DEF Take, Alive
<1>4. CASE \/ OpenLatest \/ Rotate \/ Release \/ OpenFails \/ RotateFails
           \/ Acquire \/ AcquireFails \/ Wake \/ Exit \/ UseFreed
           \/ \E seen \in BOOLEAN : CheckExit(seen)
  <2>1. UNCHANGED <<written, lost, packet, queue>>
    BY <1>4 DEF OpenLatest, Rotate, Release, OpenFails, RotateFails, Acquire,
       AcquireFails, Wake, Exit, UseFreed, CheckExit
  <2>2. Alive' => Alive
    BY <1>4 DEF OpenLatest, Rotate, Release, OpenFails, RotateFails, Acquire,
       AcquireFails, Wake, Exit, UseFreed, CheckExit, Alive
  <2> QED
    BY <2>1, <2>2, QuietRefines DEF Pending
<1> QED
  BY <1>1, <1>2, <1>3, <1>4 DEF Writer, Log!Next

\* The queue, the thread, its packets, its failures and the destructor
\* together behave as an event log: accepted messages reach the files in
\* order, and a log that has stopped stays stopped
\* (M_event_writer.cpp 231-267, 270-406).
THEOREM ImplementsEventLog == Spec => LogSpec
<1>1. Init => Log!Init
  <2>1. << >> \o << >> \o << >> = << >>
    BY EmptySeq, ConcatEmptySeq
  <2> QED
    BY <2>1 DEF Init, Log!Init, Pending
<1>2. IInv /\ [Next]_vars => [Log!Next]_(Log!vars)
  <2>1. ASSUME IInv, Unload \/ Done \/ UNCHANGED vars
        PROVE  UNCHANGED Log!vars
    BY <2>1 DEF Unload, StopBegin, StopSeen, StopTimeout, Done, vars,
       writerVars, Log!vars, Pending
  <2> QED
    BY <2>1, PushRefines, WriterRefines DEF Next
<1> QED
  BY <1>1, <1>2, Invariance, PTL DEF Spec, LogSpec, Log!Spec

-----------------------------------------------------------------------------
(* The size of a packet, a fold over its messages.                          *)

\* The sums of the sizes of the first k messages.
SumPath(messages, p) ==
  p[0] = 0 /\ \A k \in 1 .. Len(messages) : p[k] = p[k - 1] + Size[messages[k]]

\* Every list of messages has such a path.
LEMMA SumPathExists ==
  ASSUME NEW messages \in Seq(Message)
  PROVE  \E p \in [0 .. Len(messages) -> Nat] : SumPath(messages, p)
<1> DEFINE G == [sm \in Nat \X Message |-> sm[1] + Size[sm[2]]]
<1>1. G \in [Nat \X Message -> Nat]
  BY ConstantsAssumption
<1>2. PICK p \in [0 .. Len(messages) -> Nat] : Path(G, 0, messages, p)
  <2> HIDE DEF G
  <2> QED
    BY <1>1, PathExists
<1>3. ASSUME NEW k \in 1 .. Len(messages) PROVE p[k] = p[k - 1] + Size[messages[k]]
  <2>1. k - 1 \in 0 .. Len(messages) /\ messages[k] \in Message
    BY LenProperties, ElementOfSeq
  <2>2. <<p[k - 1], messages[k]>> \in Nat \X Message
    BY <2>1
  <2> QED
    BY <1>2, <2>2 DEF Path
<1> QED
  BY <1>2, <1>3 DEF Path, SumPath

\* Bytes returns the last sum.
LEMMA BytesIsPath ==
  ASSUME NEW messages \in Seq(Message),
         NEW p \in [0 .. Len(messages) -> Nat], SumPath(messages, p)
  PROVE  Bytes(messages) = p[Len(messages)]
<1> DEFINE G == [sm \in Nat \X Message |-> sm[1] + Size[sm[2]]]
           Step(iter, s) == IF s = {} THEN 0
                            ELSE iter[s \ {Greatest(s)}] + Size[messages[Greatest(s)]]
           F == CHOOSE iter : iter = [s \in SUBSET (DOMAIN messages) |-> Step(iter, s)]
<1>1. DOMAIN messages = 1 .. Len(messages) /\ Len(messages) \in Nat
      /\ \A k \in 1 .. Len(messages) : messages[k] \in Message
  BY LenProperties, ElementOfSeq
<1>2. Bytes(messages) = F[DOMAIN messages]
  BY Zenon DEF Bytes, FoldLeft, MapThenFoldSet, Max, Greatest
<1>3. \E f : f = [s \in SUBSET (DOMAIN messages) |-> Step(f, s)]
  <2>1. G \in [Nat \X Message -> Nat]
    BY ConstantsAssumption
  <2>2. PICK f \in [SUBSET (1 .. Len(messages)) -> Nat] :
          Folds(G, 0, messages, Len(messages), f)
    <3> HIDE DEF G
    <3> QED
      BY <2>1, FoldExists
  <2>3. ASSUME NEW s \in SUBSET (1 .. Len(messages)) PROVE f[s] = Step(f, s)
    <3>1. CASE s = {}
      BY <2>2, <3>1 DEF Folds
    <3>2. CASE s # {}
      <4>1. Greatest(s) \in 1 .. Len(messages)
            /\ s \ {Greatest(s)} \in SUBSET (1 .. Len(messages))
        BY <1>1, <3>2, GreatestOf
      <4>2. <<f[s \ {Greatest(s)}], messages[Greatest(s)]>> \in Nat \X Message
        BY <1>1, <4>1
      <4>3. f[s] = G[<<f[s \ {Greatest(s)}], messages[Greatest(s)]>>]
        BY <2>2, <3>2 DEF Folds
      <4> QED
        BY <3>2, <4>2, <4>3
    <3> QED
      BY <3>1, <3>2
  <2>4. f = [s \in SUBSET (DOMAIN messages) |-> Step(f, s)]
    <3> HIDE DEF Step
    <3> QED
      BY <1>1, <2>3
  <2> QED
    BY <2>4
<1>4. F = [s \in SUBSET (DOMAIN messages) |-> Step(F, s)]
  <2> HIDE DEF Step
  <2> QED
    BY <1>3
<1>5. \A s \in SUBSET (1 .. Len(messages)) : F[s] = Step(F, s)
  <2> HIDE DEF Step, F
  <2> QED
    BY <1>1, <1>4
<1>6. F[{}] = p[0]
  <2>1. F[{}] = Step(F, {})
    BY <1>5
  <2> HIDE DEF F
  <2> QED
    BY <2>1 DEF SumPath
<1>7. ASSUME NEW k \in 1 .. Len(messages), F[1 .. (k - 1)] = p[k - 1]
      PROVE  F[1 .. k] = p[k]
  <2>1. Greatest(1 .. k) = k /\ (1 .. k) \ {k} = 1 .. (k - 1) /\ 1 .. k # {}
    BY <1>1, GreatestUpTo
  <2>2. F[1 .. k] = Step(F, 1 .. k)
    <3> HIDE DEF F, Step
    <3> QED
      BY <1>1, <1>5
  <2> HIDE DEF F
  <2>3. F[1 .. k] = F[1 .. (k - 1)] + Size[messages[k]]
    BY <2>1, <2>2
  <2> QED
    BY <1>7, <2>3 DEF SumPath
<1>8. F[1 .. Len(messages)] = p[Len(messages)]
  <2> HIDE DEF F
  <2>1. Follows(F, p, Len(messages))
    BY <1>6, <1>7 DEF Follows
  <2>2. Len(messages) \in Nat
    BY <1>1
  <2> QED
    BY ONLY <2>1, <2>2, FoldIsPath
<1> QED
  BY <1>1, <1>2, <1>8

\* No messages have no bytes, and one more has those of its own in addition.
LEMMA BytesGrow ==
  /\ Bytes(<< >>) = 0
  /\ \A s \in Seq(Message), m \in Message : Bytes(Append(s, m)) = Bytes(s) + Size[m]
<1>1. Bytes(<< >>) = 0
  <2>1. << >> \in Seq(Message) /\ Len(<< >>) = 0
    BY EmptySeq
  <2>2. PICK p \in [0 .. Len(<< >>) -> Nat] : SumPath(<< >>, p)
    BY <2>1, SumPathExists
  <2>3. Bytes(<< >>) = p[Len(<< >>)]
    BY <2>1, <2>2, BytesIsPath
  <2> QED
    BY <2>1, <2>2, <2>3 DEF SumPath
<1>2. ASSUME NEW s \in Seq(Message), NEW m \in Message
      PROVE  Bytes(Append(s, m)) = Bytes(s) + Size[m]
  <2>1. PICK p \in [0 .. Len(s) -> Nat] : SumPath(s, p)
    BY SumPathExists
  <2>2. Bytes(s) = p[Len(s)] /\ Len(s) \in Nat /\ p[Len(s)] \in Nat /\ Size[m] \in Nat
    <3>1. Len(s) \in Nat /\ Len(s) \in 0 .. Len(s)
      BY LenProperties
    <3>2. Bytes(s) = p[Len(s)]
      BY <2>1, BytesIsPath
    <3> QED
      BY <3>1, <3>2, ConstantsAssumption
  <2>3. /\ Append(s, m) \in Seq(Message) /\ Len(Append(s, m)) = Len(s) + 1
        /\ Append(s, m)[Len(s) + 1] = m
        /\ \A k \in 1 .. Len(s) : Append(s, m)[k] = s[k]
    BY AppendProperties
  <2> DEFINE q == [k \in 0 .. Len(s) + 1 |->
                     IF k = Len(s) + 1 THEN p[Len(s)] + Size[m] ELSE p[k]]
  <2>4. q \in [0 .. Len(s) + 1 -> Nat]
    BY <2>2
  <2>5. SumPath(Append(s, m), q)
    <3>1. q[0] = 0
      BY <2>1, <2>2 DEF SumPath
    <3>2. ASSUME NEW k \in 1 .. Len(s) + 1
          PROVE  q[k] = q[k - 1] + Size[Append(s, m)[k]]
      <4>1. CASE k = Len(s) + 1
        <5>1. q[k] = p[Len(s)] + Size[m] /\ q[k - 1] = p[Len(s)]
          BY <2>2, <4>1
        <5> QED
          BY <2>3, <4>1, <5>1
      <4>2. CASE k # Len(s) + 1
        <5>1. k \in 1 .. Len(s) /\ q[k] = p[k] /\ q[k - 1] = p[k - 1]
          BY <2>2, <4>2
        <5> QED
          BY <2>1, <2>3, <5>1 DEF SumPath
      <4> QED
        BY <4>1, <4>2
    <3> HIDE DEF q
    <3> QED
      BY <2>3, <3>1, <3>2 DEF SumPath
  <2>6. q[Len(s) + 1] = p[Len(s)] + Size[m]
    BY <2>2
  <2>7. Bytes(Append(s, m)) = q[Len(s) + 1]
    <3> HIDE DEF q
    <3> QED
      BY <2>3, <2>4, <2>5, BytesIsPath
  <2> QED
    BY <2>2, <2>6, <2>7
<1> QED
  BY <1>1, <1>2

\* Each step keeps the size exact: a message adds its own, a write leaves none.
LEMMA SizeStaysExact == IInv /\ PacketSizeExact /\ [Next]_vars => PacketSizeExact'
<1> SUFFICES ASSUME IInv, PacketSizeExact, [Next]_vars PROVE PacketSizeExact'
  OBVIOUS
<1>1. CASE Take
  <2>1. packet \in Seq(Message) /\ Head(queue) \in Message
    BY <1>1, HeadTailProperties DEF IInv, TypeOK, Take, CanTake
  <2>2. packet' = Append(packet, Head(queue)) /\ packetSize' = packetSize + Size[Head(queue)]
    BY <1>1 DEF Take
  <2> QED
    BY <2>1, <2>2, BytesGrow DEF PacketSizeExact
<1>2. CASE \/ \E seen \in BOOLEAN : Write(seen)
           \/ \E n \in 0 .. Len(packet), bytes \in 0 .. packetSize - 1 : WriteShort(n, bytes)
  <2>1. packet' = << >> /\ packetSize' = 0
    BY <1>2 DEF Write, WriteShort
  <2> QED
    BY <2>1, BytesGrow DEF PacketSizeExact
<1>3. CASE UNCHANGED <<packet, packetSize>>
  BY <1>3 DEF PacketSizeExact
<1>4. \/ Take
      \/ \E seen \in BOOLEAN : Write(seen)
      \/ \E n \in 0 .. Len(packet), bytes \in 0 .. packetSize - 1 : WriteShort(n, bytes)
      \/ UNCHANGED <<packet, packetSize>>
  BY DEF Next, Push, PushBegin, PushAcquire, PushRelease, Unload, StopBegin, StopSeen,
     StopTimeout, Writer, OpenLatest, OpenFails, CheckExit, Rotate, RotateFails, Acquire,
     AcquireFails, Release, Wake, Exit, UseFreed, Done, vars, writerVars
<1> QED
  BY <1>1, <1>2, <1>3, <1>4

\* packetSize, by which a packet is limited and written, is the number of bytes in the buffer,
\* for any messages of any sizes (M_event_writer.cpp 334-370).
THEOREM SizeIsExact == Spec => []PacketSizeExact
<1>1. Init => PacketSizeExact
  BY BytesGrow DEF Init, PacketSizeExact
<1> QED
  BY <1>1, SizeStaysExact, Invariance, PTL DEF Spec

-----------------------------------------------------------------------------
(* Stopping a thread that is at work.                                       *)

\* The flag is up as soon as the destructor has begun.
FlagUp == gpc \in {"stopping", "gone"} => exitFlag

\* Where the thread may be when the flag has found it at work: never in its pause.
AtWork ==
  \/ gpc = "stopping"
     /\ \/ wpc \in {"open", "rotate", "wait", "drain", "write"}
        \/ wpc = "top" /\ queueSize >= 1
        \/ failed
  \/ Freed /\ (failed \/ timedOut)

\* Each step keeps the flag up.
LEMMA FlagStaysUp == IInv /\ FlagUp /\ [Next]_vars => FlagUp'
BY DEF FlagUp, Next, Push, PushBegin, PushAcquire, PushRelease, Unload, StopBegin, StopSeen,
   StopTimeout, Writer, OpenLatest, OpenFails, CheckExit, Rotate, RotateFails, Acquire,
   AcquireFails, Take, Release, Write, WriteShort, Wake, Exit, UseFreed, Done, vars, gameVars

\* No step takes the thread to its pause or out of its loop.
LEMMA AtWorkKept == IInv /\ FlagUp /\ AtWork /\ [Next]_vars => AtWork'
<1> SUFFICES ASSUME IInv, FlagUp, AtWork, [Next]_vars PROVE AtWork'
  OBVIOUS
<1>1. CASE Unload
  <2>1. ~running => wpc = "stopped"
    BY DEF IInv, TypeOK, FreedInv
  <2> QED
    BY <1>1, <2>1 DEF Unload, StopBegin, StopSeen, StopTimeout, AtWork, Freed, writerVars
<1>2. CASE Push
  BY <1>2 DEF Push, PushBegin, PushAcquire, PushRelease, AtWork, Freed
<1>3. CASE UNCHANGED vars
  BY <1>3 DEF vars, gameVars, writerVars, AtWork, Freed
<1>4. CASE Writer
  <2>1. UNCHANGED <<gpc, exitFlag, timedOut>> /\ (failed => failed')
    BY <1>4 DEF Writer, OpenLatest, OpenFails, CheckExit, Rotate, RotateFails, Acquire,
       AcquireFails, Take, Release, Write, WriteShort, Wake, Exit, UseFreed, gameVars
  <2>2. CASE Freed \/ failed
    BY <2>1, <2>2 DEF AtWork, Freed
  <2>3. CASE ~Freed /\ ~failed
    <3>1. gpc = "stopping" /\ exitFlag
      BY <2>3 DEF AtWork, FlagUp
    <3>2. \/ wpc' \in {"open", "rotate", "wait", "drain", "write"}
          \/ wpc' = "top" /\ queueSize' >= 1
          \/ failed'
      <4>1. \/ wpc \in {"open", "rotate", "wait", "drain", "write"}
            \/ wpc = "top" /\ queueSize >= 1
        BY <2>3, <3>1 DEF AtWork
      <4>2. CASE OpenLatest \/ OpenFails \/ Rotate \/ RotateFails \/ Acquire
        BY <4>2 DEF OpenLatest, OpenFails, Rotate, RotateFails, Acquire
      <4>3. CASE Take \/ Release
        BY <4>3 DEF Take, Release
      <4>4. ASSUME NEW seen \in BOOLEAN, Write(seen) \/ CheckExit(seen)
            PROVE  wpc' \in {"rotate"}
        <5>1. seen
          BY <2>3, <3>1, <4>4 DEF Write, CheckExit, ReadsExit, IInv, TypeOK
        <5>2. wpc = "top" => ~(queueSize < 1)
          BY <4>1 DEF IInv, TypeOK
        <5> QED
          BY <4>4, <5>1, <5>2 DEF Write, CheckExit
      <4>5. CASE \E n \in 0 .. Len(packet), bytes \in 0 .. packetSize - 1 : WriteShort(n, bytes)
        BY <4>5 DEF WriteShort
      <4>6. ~AcquireFails /\ ~UseFreed /\ ~Wake /\ ~Exit
        BY <2>3, <4>1 DEF AcquireFails, UseFreed, Wake, Exit
      <4> QED
        BY <1>4, <4>2, <4>3, <4>4, <4>5, <4>6 DEF Writer
    <3> QED
      BY <2>1, <3>1, <3>2 DEF AtWork
  <2> QED
    BY <2>2, <2>3
<1> QED
  BY <1>1, <1>2, <1>3, <1>4 DEF Next, Done

\* A destructor that finds the thread at work returns only after five seconds, or because a
\* call has failed (M_event_writer.cpp 235-252, 312-396).
THEOREM AwakeExit == Spec => AwakeExitWaits
<1>1. Init => FlagUp
  BY DEF Init, FlagUp
<1>2. gpc = "stopping" /\ wpc \in {"open", "rotate", "wait", "drain", "write"} => AtWork
  BY DEF AtWork
<1>3. AtWork => (Freed => failed \/ timedOut)
  BY DEF AtWork, Freed
<1> QED
  BY <1>1, <1>2, <1>3, FlagStaysUp, AtWorkKept, Invariance, PTL DEF Spec, AwakeExitWaits
-----------------------------------------------------------------------------
(* The string library.                                                     *)

(* The two logs with what is still in their queues.                         *)
Events  == eventLog \o eventQueue
Strings == stringLog \o stringQueue

(* What the invariants need to be inductive.                                *)

\* Nothing is left of a session that has ended.
Quiet == ~Up => /\ eventQueue = << >> /\ stringQueue = << >>
                /\ DOMAIN library = {}

\* The histories are about the past.
Past == /\ Up => session > 0
        /\ \A k \in 1 .. session : started[k] <= Len(stringLog)
        /\ \A i \in 1 .. Len(Events) : Events[i].session <= session

\* There is a largest number.
Bounded == \E n \in Nat : \A i \in 1 .. Len(stringLog) : stringLog[i].id <= n

BoundedQueue == \E n \in Nat : \A i \in 1 .. Len(stringQueue) : stringQueue[i].id <= n

\* The next number is a new one in this session.
Fresh == \A s \in DOMAIN library : library[s] < stringId

\* Between the two pushes, the first definition is in the event log already.
Naming ==
  phase = "between" =>
    \E s \in String :
      /\ name = {s} /\ s \notin DOMAIN library
      /\ \E i \in 1 .. Len(Events) : Events[i] = Defined(s, stringId)

\* IdsUnique, with the definitions that are still in the queue.
Unique ==
  Intact => \A i, j \in 1 .. Len(Strings) :
    i # j =>
      /\ Strings[i].string # Strings[j].string
      /\ Strings[i].id = Strings[j].id => Strings[i].id >= IdLimit

\* KeepsId, with them; a string whose number is beyond the limit is known, too.
Known ==
  Up /\ Intact =>
    \A i \in 1 .. Len(Strings) : LET d == Strings[i] IN
      /\ d.string \in DOMAIN library
      /\ d.id < IdLimit => library[d.string] = d.id

\* What a reader found in the files, right or wrong, when the session began: the strings
\* are known, and the next number is larger.
ReadAlready ==
  Up /\ ~unread =>
    \A k \in 1 .. started[session] :
      /\ stringLog[k].string \in DOMAIN library
      /\ stringLog[k].id < IdLimit => stringLog[k].id < stringId

\* NeverRedefined, with the events that are still in the queue.
NotRedefined(e) ==
  \A k \in 1 .. started[e.session] :
    /\ stringLog[k].string # e.string
    /\ stringLog[k].id = e.id => e.id >= IdLimit

NoneRedefined ==
  ~unread => \A i \in 1 .. Len(Events) :
    Events[i].op = "define" => NotRedefined(Events[i])

\* A definition of this session is in force, or is the one being made; no other string
\* has its number.
InForce(d) ==
  d.op = "define" /\ d.session = session =>
    /\ \/ d.string \in DOMAIN library /\ library[d.string] = d.id
       \/ phase = "between" /\ d.string \in name /\ d.id = stringId
    /\ \A t \in DOMAIN library : library[t] = d.id => t = d.string

AllInForce == Up => \A i \in 1 .. Len(Events) : InForce(Events[i])

\* A number is known from a definition of this session or from the string files.
Source(t, id) ==
  \/ \E i \in 1 .. Len(Events) : Events[i] = Defined(t, id)
  \/ \E k \in 1 .. started[session] :
       stringLog[k].string = t /\ id = ReadId(stringLog[k].id)

Sourced == \A t \in DOMAIN library : Source(t, library[t])

\* Resolvable, with the events that are still in the queue.
Earlier(i) ==
  {j \in 1 .. i - 1 : /\ Events[j].op = "define"
                      /\ Events[j].id = Events[i].id
                      /\ Events[j].session = Events[i].session}

Resolved(i) ==
  Events[i].op = "use" /\ Events[i].id # DefaultId =>
    \/ /\ Earlier(i) # {}
       /\ \A j \in Earlier(i) : Events[j].string = Events[i].string
    \/ /\ Earlier(i) = {}
       /\ \E k \in 1 .. started[Events[i].session] :
            stringLog[k] = Definition(Events[i].string, Events[i].id)

AllResolved == \A i \in 1 .. Len(Events) : Resolved(i)

LibraryIInv == /\ LibraryTypeOK /\ LibraryInjective
        /\ Quiet /\ Past /\ Bounded /\ BoundedQueue /\ Fresh /\ Naming
        /\ Unique /\ Known /\ ReadAlready
        /\ NoneRedefined /\ AllInForce /\ Sourced /\ AllResolved

-----------------------------------------------------------------------------
(* The logs with their queues, after each kind of step.                     *)

Rec == [string : String, id : Nat]

\* The parts are sequences, and so is the whole.
LEMMA LogTypes ==
  ASSUME LibraryTypeOK
  PROVE  /\ Events \in Seq(Event) /\ Strings \in Seq(Rec)
         /\ Len(Events) \in Nat /\ Len(Strings) \in Nat
         /\ \A i \in 1 .. Len(Events) : Events[i] \in Event
         /\ \A i \in 1 .. Len(Strings) : Strings[i] \in Rec
         /\ Len(eventLog) \in Nat /\ Len(stringLog) \in Nat /\ session \in Nat
         /\ Len(eventLog) <= Len(Events) /\ Len(stringLog) <= Len(Strings)
         /\ \A i \in 1 .. Len(eventLog) : Events[i] = eventLog[i]
         /\ \A i \in 1 .. Len(stringLog) : Strings[i] = stringLog[i]
<1>1. /\ eventLog \in Seq(Event) /\ eventQueue \in Seq(Event)
      /\ stringLog \in Seq(Rec) /\ stringQueue \in Seq(Rec) /\ started \in Seq(Nat)
  BY DEF LibraryTypeOK, Rec
<1>2. Events \in Seq(Event) /\ Strings \in Seq(Rec)
  BY <1>1, ConcatProperties DEF Events, Strings
<1>3. /\ Len(Events) = Len(eventLog) + Len(eventQueue)
      /\ Len(Strings) = Len(stringLog) + Len(stringQueue)
      /\ \A i \in 1 .. Len(eventLog) : Events[i] = eventLog[i]
      /\ \A i \in 1 .. Len(stringLog) : Strings[i] = stringLog[i]
  BY <1>1 DEF Events, Strings
<1> QED
  BY <1>1, <1>2, <1>3, LenProperties, ElementOfSeq DEF session

\* The session that runs has begun with a part of the string files.
LEMMA SessionTypes ==
  ASSUME LibraryTypeOK, Past, Up
  PROVE  /\ session \in 1 .. session /\ session \in 1 .. MaxSessions
         /\ started[session] \in Nat /\ started[session] <= Len(stringLog)
<1>1. session \in Nat /\ session > 0 /\ session <= MaxSessions
  BY LogTypes DEF Past, LibraryTypeOK
<1>2. session \in 1 .. session /\ session \in 1 .. MaxSessions
  BY ONLY <1>1, StringLibraryAssumption
<1>3. started \in Seq(Nat) /\ session = Len(started)
  BY DEF LibraryTypeOK, session
<1>4. started[session] \in Nat
  BY <1>2, <1>3, ElementOfSeq
<1> QED
  BY <1>2, <1>4 DEF Past

\* A push to a queue adds one at the end of the whole.
LEMMA Pushed ==
  ASSUME NEW S, NEW log \in Seq(S), NEW waiting \in Seq(S), NEW e \in S
  PROVE  LET old == log \o waiting
             new == log \o Append(waiting, e)
         IN  /\ Append(waiting, e) \in Seq(S)
             /\ Len(new) = Len(old) + 1
             /\ \A i \in 1 .. Len(old) : new[i] = old[i]
             /\ new[Len(old) + 1] = e
<1>1. log \o Append(waiting, e) = Append(log \o waiting, e)
  BY AppendConcat
<1>2. log \o waiting \in Seq(S) /\ Append(waiting, e) \in Seq(S)
  BY ConcatProperties, AppendProperties
<1> QED
  BY <1>1, <1>2, AppendProperties

-----------------------------------------------------------------------------
(* What the constructor reads back.                                         *)

\* A known string has the number of one of its definitions (ReadLibrary).
LEMMA ReadBack ==
  ASSUME LibraryTypeOK, NEW read \in SUBSET DOMAIN stringLog
  PROVE  /\ DOMAIN ReadLibrary(read) = {stringLog[i].string : i \in read}
         /\ \A s \in DOMAIN ReadLibrary(read) : \E i \in read :
              /\ stringLog[i].string = s
              /\ ReadLibrary(read)[s] = ReadId(stringLog[i].id)
<1>1. DOMAIN ReadLibrary(read) = {stringLog[i].string : i \in read}
  BY DEF ReadLibrary
<1>2. ASSUME NEW s \in DOMAIN ReadLibrary(read)
      PROVE  \E i \in read : /\ stringLog[i].string = s
                             /\ ReadLibrary(read)[s] = ReadId(stringLog[i].id)
  <2> DEFINE those == {i \in read : stringLog[i].string = s}
  <2>1. those \in SUBSET Nat /\ those # {}
    <3>1. read \in SUBSET Nat
      BY DEF LibraryTypeOK
    <3> QED
      BY <1>1, <3>1
  <2>2. PICK m \in those : \A k \in those : m <= k
    BY <2>1, Smallest
  <2>3. Min(those) \in those
    BY <2>2 DEF Min
  <2>4. ReadLibrary(read)[s] = ReadId(stringLog[Min(those)].id)
    BY <1>1, <1>2 DEF ReadLibrary
  <2> QED
    BY <2>3, <2>4
<1> QED
  BY <1>1, <1>2

\* What is read is a number.
LEMMA ReadIdType == \A id \in Nat : ReadId(id) \in Nat /\ ReadId(id) <= id + DefaultId
BY StringLibraryAssumption DEF ReadId

\* The next number is larger than all that were read (NextId).
LEMMA NextIdAbove ==
  ASSUME LibraryTypeOK, Bounded, NEW read \in SUBSET DOMAIN stringLog
  PROVE  /\ NextId(read) \in Nat
         /\ \A i \in read : ReadId(stringLog[i].id) < NextId(read)
<1> DEFINE S == {0} \cup {ReadId(stringLog[i].id) + 1 : i \in read}
<1>1. \A i \in read : i \in 1 .. Len(stringLog) /\ stringLog[i].id \in Nat
  <2>1. \A i \in read : i \in 1 .. Len(stringLog)
    BY DEF LibraryTypeOK
  <2>2. \A i \in read : i \in 1 .. Len(Strings) /\ Strings[i] = stringLog[i]
    BY <2>1, LogTypes
  <2> QED
    BY <2>1, <2>2, LogTypes DEF Rec
<1>2. PICK n \in Nat : \A i \in read : stringLog[i].id <= n
  BY <1>1 DEF Bounded
<1>3. ASSUME NEW i \in read
      PROVE  /\ ReadId(stringLog[i].id) + 1 \in Nat /\ ReadId(stringLog[i].id) \in Nat
             /\ ReadId(stringLog[i].id) + 1 <= n + DefaultId + 1
  <2>1. stringLog[i].id \in Nat /\ stringLog[i].id <= n
    BY <1>1, <1>2
  <2>2. /\ ReadId(stringLog[i].id) \in Nat
        /\ ReadId(stringLog[i].id) <= stringLog[i].id + DefaultId
    BY <2>1, ReadIdType
  <2> QED
    BY <2>1, <2>2, StringLibraryAssumption
<1>4. n + DefaultId + 1 \in Nat
  BY StringLibraryAssumption
<1>5. S \in SUBSET Nat /\ S # {}
  BY <1>3
<1>6. \A k \in S : k <= n + DefaultId + 1
  BY <1>3, <1>4
<1>7. PICK m \in S : \A k \in S : k <= m
  <2> HIDE DEF S
  <2> QED
    BY <1>5, <1>6, <1>4, Largest
<1>8. Max(S) \in S /\ \A k \in S : k <= Max(S)
  BY <1>5, <1>7 DEF Max
<1>9. NextId(read) = Max(S)
  BY DEF NextId
<1>10. ASSUME NEW i \in read
      PROVE  ReadId(stringLog[i].id) < NextId(read)
  <2>1. ReadId(stringLog[i].id) + 1 \in S
    OBVIOUS
  <2>2. ReadId(stringLog[i].id) + 1 <= NextId(read)
    BY <1>8, <1>9, <2>1
  <2> QED
    BY <1>3, <1>5, <1>8, <1>9, <2>2
<1> QED
  BY <1>5, <1>8, <1>9, <1>10

-----------------------------------------------------------------------------
(* The invariant holds initially and is preserved by every action.          *)

\* Nothing has been written and no session has begun.
LEMMA LibraryInitInv == LibraryInit => LibraryIInv
<1> SUFFICES ASSUME LibraryInit PROVE LibraryIInv
  OBVIOUS
<1>1. LibraryTypeOK
  <2>1. session = 0 /\ 0 <= MaxSessions
    BY StringLibraryAssumption DEF LibraryInit, session
  <2>2. library \in [DOMAIN library -> Nat] /\ DOMAIN library \subseteq String
    BY DEF LibraryInit, NoStrings
  <2>3. /\ << >> \in Seq(Event) /\ << >> \in Seq([string : String, id : Nat])
        /\ << >> \in Seq(Nat)
    BY EmptySeq
  <2>4. phase \in {"down", "idle", "between"} /\ ~ (phase = "between") /\ name = {}
    BY DEF LibraryInit
  <2> QED
    BY <2>1, <2>2, <2>3, <2>4 DEF LibraryInit, LibraryTypeOK
<1>2. Len(Events) = 0 /\ Len(Strings) = 0 /\ Len(stringLog) = 0 /\ Len(stringQueue) = 0
  BY DEF LibraryInit, Events, Strings
<1>3. session = 0 /\ DOMAIN library = {} /\ phase = "down"
  BY DEF LibraryInit, session, NoStrings
<1> QED
  BY <1>1, <1>2, <1>3
     DEF LibraryInit, LibraryIInv, LibraryInjective, Quiet, Past, Bounded, BoundedQueue,
         Fresh, Naming, Unique, Known, ReadAlready,
         NoneRedefined, AllInForce, Sourced, AllResolved, Up

\* The log is extended by the head of the queue: the whole stays the same.
LEMMA LogsFlushed ==
  ASSUME NEW S, NEW log \in Seq(S), NEW waiting \in Seq(S), waiting # << >>
  PROVE  /\ Append(log, Head(waiting)) \o Tail(waiting) = log \o waiting
         /\ Append(log, Head(waiting)) \in Seq(S) /\ Tail(waiting) \in Seq(S)
         /\ Len(Append(log, Head(waiting))) = Len(log) + 1
         /\ \A k \in 1 .. Len(log) : Append(log, Head(waiting))[k] = log[k]
<1>1. /\ Head(waiting) \in S /\ Tail(waiting) \in Seq(S)
      /\ Append(log, Head(waiting)) \o Tail(waiting) = log \o waiting
  BY MoveHead
<1> QED
  BY <1>1, AppendProperties

\* What has been read at the start of a session stays as it was.
LEMMA PastStays ==
  ASSUME LibraryIInv, started' = started, NEW i \in 1 .. Len(Events),
         \A k \in 1 .. Len(stringLog) : stringLog'[k] = stringLog[k]
  PROVE  /\ Events[i].session \in 1 .. session
         /\ \A k \in 1 .. started[Events[i].session] :
              k \in 1 .. Len(stringLog) /\ stringLog'[k] = stringLog[k]
<1>1. Events[i].session \in 1 .. session
  BY LogTypes DEF LibraryIInv, Past, Event
<1>2. started[Events[i].session] \in Nat /\ started[Events[i].session] <= Len(stringLog)
  <2>1. started \in Seq(Nat) /\ session = Len(started)
    BY DEF LibraryIInv, LibraryTypeOK, session
  <2>2. started[Events[i].session] \in Nat
    BY <1>1, <2>1, ElementOfSeq
  <2> QED
    BY <1>1, <2>2 DEF LibraryIInv, Past
<1> QED
  BY <1>1, <1>2, LogTypes DEF LibraryIInv

\* The records carry numbers.
LEMMA RecordIds ==
  ASSUME NEW s \in Seq(Rec)
  PROVE  \A i \in 1 .. Len(s) : s[i].id \in Nat
<1> SUFFICES ASSUME NEW i \in 1 .. Len(s) PROVE s[i].id \in Nat
  OBVIOUS
<1>1. s[i] \in Rec
  BY ElementOfSeq
<1> QED
  BY <1>1 DEF Rec

\* What is left of the queue.
LEMMA QueueShortens ==
  ASSUME NEW S, NEW waiting \in Seq(S), waiting # << >>
  PROVE  /\ Tail(waiting) \in Seq(S) /\ Len(Tail(waiting)) = Len(waiting) - 1
         /\ \A i \in 1 .. Len(Tail(waiting)) :
              i + 1 \in 1 .. Len(waiting) /\ Tail(waiting)[i] = waiting[i + 1]
<1>1. /\ Tail(waiting) \in Seq(S) /\ Len(Tail(waiting)) = Len(waiting) - 1
      /\ \A i \in 1 .. Len(Tail(waiting)) : Tail(waiting)[i] = waiting[i + 1]
      /\ Len(waiting) \in Nat
  BY HeadTailProperties
<1> QED
  BY <1>1

\* What a reader makes of bytes behind a cut-off record comes behind what it found before;
\* if that is nothing wrong, it is nothing.
LEMMA MisreadFiles ==
  ASSUME LibraryTypeOK, Misread
  PROVE  /\ stringLog' \in Seq(Rec) /\ cut' \in BOOLEAN /\ garbled' \in BOOLEAN
         /\ Len(stringLog') \in Nat /\ Len(stringLog) <= Len(stringLog')
         /\ \A k \in 1 .. Len(stringLog) : stringLog'[k] = stringLog[k]
         /\ \A k \in 1 .. Len(stringLog') :
              k \in 1 .. Len(stringLog) \/ stringLog'[k].id <= DefaultId
         /\ ~garbled' => stringLog' = stringLog /\ ~garbled
<1>1. PICK found \in Misreadings :
        /\ stringLog' = stringLog \o found
        /\ garbled' = (garbled \/ found # << >>)
        /\ cut' \in BOOLEAN
  BY DEF Misread
<1>2. /\ stringLog \in Seq(Rec) /\ garbled \in BOOLEAN
  BY DEF LibraryTypeOK, Rec
<1>3. \A w \in Wrong : w \in Rec /\ w.id <= DefaultId
  BY StringLibraryAssumption DEF Wrong, Definition, Rec
<1>4. PICK n \in 0 .. MaxWrong : found \in [1 .. n -> Wrong]
  BY DEF Misreadings
<1>5. /\ found \in Seq(Rec) /\ Len(found) = n /\ n \in Nat
      /\ \A i \in 1 .. n : found[i].id <= DefaultId
  <2>1. n \in Nat
    BY StringLibraryAssumption
  <2>2. \A i \in 1 .. n : found[i] \in Wrong
    BY <1>4
  <2>3. found \in [1 .. n -> Rec]
    BY <1>3, <1>4
  <2> QED
    BY <1>3, <2>1, <2>2, <2>3
<1>6. /\ stringLog \o found \in Seq(Rec)
      /\ Len(stringLog \o found) = Len(stringLog) + n
      /\ \A i \in 1 .. Len(stringLog) + n : (stringLog \o found)[i] =
           IF i <= Len(stringLog) THEN stringLog[i] ELSE found[i - Len(stringLog)]
  BY <1>2, <1>5, ConcatProperties
<1> PICK m \in Nat : m = Len(stringLog)
  BY <1>2
<1>7. /\ stringLog' \in Seq(Rec) /\ Len(stringLog') = m + n
      /\ \A i \in 1 .. m + n : stringLog'[i] = IF i <= m THEN stringLog[i] ELSE found[i - m]
  BY <1>1, <1>6
<1>8. ASSUME NEW k \in 1 .. m + n
      PROVE  k \in 1 .. m \/ stringLog'[k].id <= DefaultId
  <2> SUFFICES ASSUME ~(k <= m) PROVE stringLog'[k].id <= DefaultId
    OBVIOUS
  <2>1. k - m \in 1 .. n
    BY <1>5
  <2>2. stringLog'[k] = found[k - m]
    BY <1>7
  <2> QED
    BY <1>5, <2>1, <2>2
<1>9. ASSUME ~garbled' PROVE stringLog' = stringLog /\ ~garbled
  <2>1. found = << >> /\ ~garbled
    BY <1>1, <1>2, <1>9
  <2> QED
    BY <1>1, <1>2, <2>1, ConcatEmptySeq
<1>10. \A k \in 1 .. m : stringLog'[k] = stringLog[k]
  BY <1>5, <1>7
<1>11. garbled' \in BOOLEAN
  BY <1>1
<1> QED
  BY <1>1, <1>5, <1>7, <1>8, <1>9, <1>10, <1>11

\* What grows the string files leaves the event log, and what has been said of the past.
LEMMA FilesGrow ==
  ASSUME LibraryIInv, Up, LibraryTypeOK', Events' = Events,
         UNCHANGED <<library, stringId, phase, name, started, unread>>,
         Len(stringLog') \in Nat, Len(stringLog) <= Len(stringLog'),
         \A k \in 1 .. Len(stringLog) : stringLog'[k] = stringLog[k]
  PROVE  /\ Quiet' /\ Past' /\ Fresh' /\ Naming' /\ ReadAlready'
         /\ NoneRedefined' /\ AllInForce' /\ Sourced' /\ AllResolved'
<1> USE DEF LibraryIInv
<1>1. session' = session /\ Up' = Up
  BY DEF session, Up
<1>2. Quiet' /\ Fresh'
  BY <1>1 DEF Quiet, Fresh
<1>3. Naming'
  BY <1>1 DEF Naming, Defined
<1>4. AllInForce'
  BY <1>1 DEF AllInForce, InForce
<1>5. Past'
  <2>1. ASSUME NEW k \in 1 .. session PROVE started'[k] <= Len(stringLog')
    <3>1. started[k] <= Len(stringLog) /\ Len(stringLog) \in Nat
      BY LogTypes DEF Past
    <3>2. started[k] \in Nat
      BY ElementOfSeq DEF LibraryTypeOK, session
    <3> QED
      BY <3>1, <3>2
  <2> QED
    BY <1>1, <2>1 DEF Past
<1>6. NoneRedefined'
  <2> SUFFICES ASSUME ~unread', NEW i \in 1 .. Len(Events), Events[i].op = "define"
               PROVE  NotRedefined(Events[i])'
    BY DEF NoneRedefined
  <2> QED
    BY PastStays DEF NoneRedefined, NotRedefined
<1>7. \A k \in 1 .. started[session] :
        k \in 1 .. Len(stringLog) /\ stringLog'[k] = stringLog[k]
  BY SessionTypes, LogTypes
<1>8. ReadAlready'
  BY <1>1, <1>7 DEF ReadAlready
<1>9. Sourced'
  <2> SUFFICES ASSUME NEW s \in DOMAIN library
               PROVE  Source(s, library[s])'
    BY DEF Sourced
  <2>1. Source(s, library[s])
    BY DEF Sourced
  <2> QED
    BY <1>1, <1>7, <2>1 DEF Source, Defined
<1>10. AllResolved'
  <2> SUFFICES ASSUME NEW i \in 1 .. Len(Events)
               PROVE  Resolved(i)'
    BY DEF AllResolved
  <2>1. Earlier(i)' = Earlier(i)
    BY DEF Earlier
  <2> QED
    BY <2>1, PastStays DEF AllResolved, Resolved, Definition
<1> QED
  BY <1>2, <1>3, <1>4, <1>5, <1>6, <1>8, <1>9, <1>10

\* The writers' threads change neither log as a whole, if a reader is in step.
LEMMA FlushInvariant ==
  ASSUME LibraryIInv, FlushEvents \/ FlushStrings
  PROVE  LibraryIInv'
<1> USE DEF LibraryIInv
<1>1. UNCHANGED <<library, stringId, phase, name, started, unread, garbled, Intact>> /\ Up
  BY DEF FlushEvents, FlushStrings, Intact
<1>2. LibraryTypeOK' /\ Events' = Events /\ Strings' = Strings
  <2>1. CASE FlushEvents
    <3>1. eventLog' \in Seq(Event) /\ eventQueue' \in Seq(Event) /\ Events' = Events
      <4>1. eventLog \in Seq(Event) /\ eventQueue \in Seq(Event)
        BY DEF LibraryTypeOK
      <4> QED
        BY <2>1, <4>1, LogsFlushed DEF FlushEvents, Events
    <3> QED
      BY <2>1, <3>1 DEF FlushEvents, LibraryTypeOK, Strings, session
  <2>2. CASE FlushStrings
    <3>1. stringLog' \in Seq(Rec) /\ stringQueue' \in Seq(Rec) /\ Strings' = Strings
      <4>1. stringLog \in Seq(Rec) /\ stringQueue \in Seq(Rec)
        BY DEF LibraryTypeOK, Rec
      <4> QED
        BY <2>2, <4>1, LogsFlushed DEF FlushStrings, Strings
    <3> QED
      BY <2>2, <3>1 DEF FlushStrings, LibraryTypeOK, Events, session, Rec
  <2> QED
    BY <2>1, <2>2
<1>3. /\ Len(stringLog') \in Nat /\ Len(stringLog) <= Len(stringLog')
      /\ \A k \in 1 .. Len(stringLog) : stringLog'[k] = stringLog[k]
  <2>1. CASE FlushEvents
    BY <2>1, LogTypes DEF FlushEvents
  <2>2. CASE FlushStrings
    BY <2>2, LogsFlushed, LogTypes DEF FlushStrings, LibraryTypeOK
  <2> QED
    BY <2>1, <2>2
<1>4. /\ Quiet' /\ Past' /\ Fresh' /\ Naming' /\ ReadAlready'
      /\ NoneRedefined' /\ AllInForce' /\ Sourced' /\ AllResolved'
  BY <1>1, <1>2, <1>3, FilesGrow
<1>5. LibraryInjective' /\ Unique' /\ Known'
  <2>1. Up' = Up
    BY <1>1 DEF Up
  <2> QED
    BY <1>1, <1>2, <2>1 DEF LibraryInjective, Unique, Known
<1>6. Bounded' /\ BoundedQueue'
  <2>1. CASE FlushEvents
    BY <2>1 DEF FlushEvents, Bounded, BoundedQueue
  <2>2. CASE FlushStrings
    <3>1. stringLog \in Seq(Rec) /\ stringQueue \in Seq(Rec) /\ stringQueue # << >>
      BY <2>2 DEF FlushStrings, LibraryTypeOK, Rec
    <3>2. PICK a \in Nat : \A i \in 1 .. Len(stringLog) : stringLog[i].id <= a
      BY DEF Bounded
    <3>3. PICK b \in Nat : \A i \in 1 .. Len(stringQueue) : stringQueue[i].id <= b
      BY DEF BoundedQueue
    <3>4. BoundedQueue'
      BY <2>2, <3>1, <3>3, QueueShortens DEF FlushStrings, BoundedQueue
    <3>5. /\ Len(stringLog') = Len(stringLog) + 1 /\ Len(stringLog) \in Nat
          /\ stringLog'[Len(stringLog) + 1] = stringQueue[1]
      BY <2>2, <3>1, AppendProperties, HeadTailProperties DEF FlushStrings
    <3>6. stringQueue[1].id <= b /\ stringQueue[1].id \in Nat
      <4>1. 1 \in 1 .. Len(stringQueue)
        BY <3>1
      <4> QED
        BY <3>1, <3>3, <4>1, RecordIds
    <3>7. \A i \in 1 .. Len(stringLog) : stringLog[i].id \in Nat
      BY <3>1, RecordIds
    <3>8. \A i \in 1 .. Len(stringLog') : stringLog'[i].id <= a + b
      BY <1>3, <3>2, <3>5, <3>6, <3>7
    <3>9. a + b \in Nat
      OBVIOUS
    <3> QED
      BY <3>4, <3>8, <3>9 DEF Bounded
  <2> QED
    BY <2>1, <2>2
<1> QED
  BY <1>2, <1>4, <1>5, <1>6

\* Behind a cut-off record the oldest message gets lost, or makes wrong definitions.
LEMMA FlushBehindCutInvariant ==
  ASSUME LibraryIInv, FlushBehindCut
  PROVE  LibraryIInv'
<1> USE DEF LibraryIInv
<1>1. /\ UNCHANGED <<eventLog, eventQueue, library, stringId, phase, name, started, unread>>
      /\ Up /\ Misread /\ stringQueue # << >> /\ stringQueue' = Tail(stringQueue)
  BY DEF FlushBehindCut
<1>2. /\ stringLog' \in Seq(Rec) /\ cut' \in BOOLEAN /\ garbled' \in BOOLEAN
      /\ Len(stringLog') \in Nat /\ Len(stringLog) <= Len(stringLog')
      /\ \A k \in 1 .. Len(stringLog) : stringLog'[k] = stringLog[k]
      /\ \A k \in 1 .. Len(stringLog') :
           k \in 1 .. Len(stringLog) \/ stringLog'[k].id <= DefaultId
      /\ ~garbled' => stringLog' = stringLog /\ ~garbled
  BY <1>1, MisreadFiles
<1>3. stringLog \in Seq(Rec) /\ stringQueue \in Seq(Rec)
  BY DEF LibraryTypeOK, Rec
<1>4. /\ stringQueue' \in Seq(Rec) /\ Len(stringQueue') = Len(stringQueue) - 1
      /\ \A i \in 1 .. Len(stringQueue') :
           i + 1 \in 1 .. Len(stringQueue) /\ stringQueue'[i] = stringQueue[i + 1]
  BY <1>1, <1>3, QueueShortens
<1>5. Events' = Events /\ session' = session /\ Up'
  BY <1>1 DEF Events, session, Up
<1>6. LibraryTypeOK'
  BY <1>1, <1>2, <1>4, <1>5 DEF LibraryTypeOK, Rec
<1>7. /\ Quiet' /\ Past' /\ Fresh' /\ Naming' /\ ReadAlready'
      /\ NoneRedefined' /\ AllInForce' /\ Sourced' /\ AllResolved'
  BY <1>1, <1>2, <1>5, <1>6, FilesGrow
<1>8. Bounded' /\ BoundedQueue'
  <2>1. BoundedQueue'
    BY <1>4 DEF BoundedQueue
  <2>2. PICK a \in Nat : \A i \in 1 .. Len(stringLog) : stringLog[i].id <= a
    BY DEF Bounded
  <2>3. \A i \in 1 .. Len(stringLog') : stringLog'[i].id <= a + DefaultId
    <3>1. \A i \in 1 .. Len(stringLog') : stringLog'[i].id \in Nat
      BY <1>2, RecordIds
    <3> QED
      BY <1>2, <2>2, <3>1, StringLibraryAssumption
  <2>4. a + DefaultId \in Nat
    BY StringLibraryAssumption
  <2> QED
    BY <2>1, <2>3, <2>4 DEF Bounded
<1>9. Intact' => Intact /\ stringLog' = stringLog
  BY <1>1, <1>2 DEF Intact
<1>10. LibraryInjective'
  BY <1>1, <1>9 DEF LibraryInjective
<1>11. Unique' /\ Known'
  <2> SUFFICES ASSUME Intact' PROVE Unique' /\ Known'
    BY DEF Unique, Known
  <2> DEFINE from(i) == IF i <= Len(stringLog) THEN i ELSE i + 1
  <2>1. /\ \A i \in 1 .. Len(Strings') :
             from(i) \in 1 .. Len(Strings) /\ Strings'[i] = Strings[from(i)]
        /\ \A i, j \in 1 .. Len(Strings') : i # j => from(i) # from(j)
    <3>1. /\ stringLog' = stringLog /\ Len(stringLog) \in Nat
          /\ Len(stringQueue) \in Nat /\ Len(stringQueue') \in Nat
      BY <1>3, <1>4, <1>9
    <3>2. /\ Len(Strings) = Len(stringLog) + Len(stringQueue)
          /\ \A i \in 1 .. Len(stringLog) + Len(stringQueue) : Strings[i] =
               IF i <= Len(stringLog) THEN stringLog[i] ELSE stringQueue[i - Len(stringLog)]
      BY <1>3, ConcatProperties DEF Strings
    <3>3. /\ Len(Strings') = Len(stringLog) + Len(stringQueue')
          /\ \A i \in 1 .. Len(stringLog) + Len(stringQueue') : Strings'[i] =
               IF i <= Len(stringLog) THEN stringLog[i] ELSE stringQueue'[i - Len(stringLog)]
      BY <1>3, <1>4, <3>1, ConcatProperties DEF Strings
    <3>4. ASSUME NEW i \in 1 .. Len(Strings')
          PROVE  from(i) \in 1 .. Len(Strings) /\ Strings'[i] = Strings[from(i)]
      <4>1. CASE i <= Len(stringLog)
        BY <3>1, <3>2, <3>3, <4>1, <1>4
      <4>2. CASE ~(i <= Len(stringLog))
        <5> PICK x \in Int : x = i - Len(stringLog)
          BY <3>1
        <5>1. x \in 1 .. Len(stringQueue') /\ i \in 1 .. Len(stringLog) + Len(stringQueue')
          BY <3>1, <3>3, <4>2
        <5>2. Strings'[i] = stringQueue'[x] /\ stringQueue'[x] = stringQueue[x + 1]
          BY <1>4, <3>3, <4>2, <5>1
        <5>3. from(i) = i + 1 /\ i + 1 \in 1 .. Len(stringLog) + Len(stringQueue)
              /\ ~(i + 1 <= Len(stringLog)) /\ i + 1 - Len(stringLog) = x + 1
          BY <1>4, <3>1, <4>2, <5>1
        <5>4. Strings[i + 1] = stringQueue[x + 1]
          BY <3>2, <5>3
        <5> QED
          BY <3>2, <5>2, <5>3, <5>4
      <4> QED
        BY <4>1, <4>2
    <3>5. \A i, j \in 1 .. Len(Strings') : i # j => from(i) # from(j)
      BY <3>1, <3>3
    <3> QED
      BY <3>4, <3>5
  <2> HIDE DEF from
  <2>2. Unique'
    BY <1>9, <2>1 DEF Unique
  <2>3. Known'
    BY <1>1, <1>9, <2>1 DEF Known
  <2> QED
    BY <2>2, <2>3
<1> QED
  BY <1>6, <1>7, <1>8, <1>10, <1>11

\* Of a session that ends, what has been written stays, and a part of the next record may
\* come behind it.
LEMMA EndInvariant ==
  ASSUME LibraryIInv, End \/ EndCutOff
  PROVE  LibraryIInv'
<1> USE DEF LibraryIInv
<1>1. Lost
  BY DEF End, EndCutOff
<1>2. /\ ~Up' /\ phase' = "down" /\ DOMAIN library' = {} /\ eventQueue' = << >>
      /\ stringQueue' = << >> /\ name' = {} /\ stringId' = 0
      /\ library' \in [DOMAIN library' -> Nat]
      /\ UNCHANGED <<eventLog, started, unread>>
  BY <1>1 DEF Lost, Up, NoStrings
<1>3. /\ stringLog' \in Seq(Rec) /\ cut' \in BOOLEAN /\ garbled' \in BOOLEAN
      /\ Len(stringLog') \in Nat /\ Len(stringLog) <= Len(stringLog')
      /\ \A k \in 1 .. Len(stringLog) : stringLog'[k] = stringLog[k]
      /\ \A k \in 1 .. Len(stringLog') :
           k \in 1 .. Len(stringLog) \/ stringLog'[k].id <= DefaultId
      /\ ~garbled' => stringLog' = stringLog /\ ~garbled
  <2>1. CASE Misread
    BY <2>1, MisreadFiles
  <2>2. CASE stringLog' = stringLog /\ garbled' = garbled /\ cut' \in BOOLEAN
    <3>1. stringLog \in Seq(Rec) /\ garbled \in BOOLEAN /\ Len(stringLog) \in Nat
      BY LogTypes DEF LibraryTypeOK, Rec
    <3> QED
      BY <2>2, <3>1
  <2> QED
    BY <2>1, <2>2 DEF End, EndCutOff, LibraryTypeOK
<1>4. /\ Events' = eventLog /\ Strings' = stringLog'
      /\ Len(Events') = Len(eventLog)
  <2>1. eventLog \in Seq(Event)
    BY DEF LibraryTypeOK
  <2> QED
    BY <1>2, <1>3, <2>1, ConcatEmptySeq DEF Events, Strings
<1>5. LibraryTypeOK'
  <2>1. << >> \in Seq(Event) /\ << >> \in Seq(Rec)
    BY EmptySeq
  <2>2. phase' \in {"down", "idle", "between"} /\ ~ (phase' = "between")
    BY <1>2
  <2> QED
    BY <1>2, <1>3, <2>1, <2>2 DEF LibraryTypeOK, session, Rec
<1>6. /\ LibraryInjective' /\ Quiet' /\ Fresh' /\ Naming' /\ Known' /\ ReadAlready'
      /\ AllInForce' /\ Sourced'
  BY <1>2 DEF LibraryInjective, Quiet, Fresh, Naming, Known, ReadAlready, AllInForce, Sourced
<1>7. \A i \in 1 .. Len(Events') : i \in 1 .. Len(Events) /\ Events'[i] = Events[i]
  BY <1>4, LogTypes
<1>8. Past'
  <2>1. ASSUME NEW k \in 1 .. session PROVE started'[k] <= Len(stringLog')
    <3>1. started[k] <= Len(stringLog) /\ Len(stringLog) \in Nat
      BY LogTypes DEF Past
    <3>2. started[k] \in Nat
      BY ElementOfSeq DEF LibraryTypeOK, session
    <3> QED
      BY <1>2, <1>3, <3>1, <3>2
  <2> QED
    BY <1>2, <1>7, <2>1 DEF Past, session
<1>9. Bounded' /\ BoundedQueue'
  <2>1. BoundedQueue'
    BY <1>2 DEF BoundedQueue
  <2>2. PICK a \in Nat : \A i \in 1 .. Len(stringLog) : stringLog[i].id <= a
    BY DEF Bounded
  <2>3. \A i \in 1 .. Len(stringLog') : stringLog'[i].id <= a + DefaultId
    <3>1. \A i \in 1 .. Len(stringLog') : stringLog'[i].id \in Nat
      BY <1>3, RecordIds
    <3> QED
      BY <1>3, <2>2, <3>1, StringLibraryAssumption
  <2>4. a + DefaultId \in Nat
    BY StringLibraryAssumption
  <2> QED
    BY <2>1, <2>3, <2>4 DEF Bounded
<1>10. Unique'
  <2> SUFFICES ASSUME Intact' PROVE Unique'
    BY DEF Unique
  <2>1. Intact /\ stringLog' = stringLog
    BY <1>2, <1>3 DEF Intact
  <2>2. \A i \in 1 .. Len(Strings') : i \in 1 .. Len(Strings) /\ Strings'[i] = Strings[i]
    BY <1>4, <2>1, LogTypes
  <2> QED
    BY <2>1, <2>2 DEF Unique
<1>11. NoneRedefined'
  <2> SUFFICES ASSUME ~unread', NEW i \in 1 .. Len(Events'), Events'[i].op = "define"
               PROVE  NotRedefined(Events[i])'
    BY DEF NoneRedefined
  <2>1. i \in 1 .. Len(Events) /\ Events'[i] = Events[i]
    BY <1>7
  <2>2. \A k \in 1 .. started[Events[i].session] : stringLog'[k] = stringLog[k]
    BY <1>2, <1>3, <2>1, PastStays
  <2>3. NotRedefined(Events[i])
    BY <1>2, <2>1 DEF NoneRedefined
  <2> QED
    BY <1>2, <2>1, <2>2, <2>3 DEF NotRedefined
<1>12. AllResolved'
  <2> SUFFICES ASSUME NEW i \in 1 .. Len(Events')
               PROVE  Resolved(i)'
    BY DEF AllResolved
  <2>1. Len(Events') \in Nat /\ i \in 1 .. Len(Events) /\ Events'[i] = Events[i]
    BY <1>4, <1>7, LogTypes
  <2>2. \A j \in 1 .. i - 1 : Events'[j] = Events[j]
    BY <1>7, <2>1
  <2>3. Earlier(i)' = Earlier(i)
    BY <2>1, <2>2 DEF Earlier
  <2>4. \A j \in Earlier(i) : Events'[j] = Events[j]
    BY <2>2 DEF Earlier
  <2>5. \A k \in 1 .. started[Events[i].session] : stringLog'[k] = stringLog[k]
    BY <1>2, <1>3, <2>1, PastStays
  <2>6. Resolved(i)
    BY <2>1 DEF AllResolved
  <2> QED
    BY <1>2, <2>1, <2>3, <2>4, <2>5, <2>6 DEF Resolved, Definition
<1> QED
  BY <1>5, <1>6, <1>8, <1>9, <1>10, <1>11, <1>12

\* A session begins with what it has read.
LEMMA LoadInvariant ==
  ASSUME LibraryIInv, NEW read \in SUBSET DOMAIN stringLog, Load(read)
  PROVE  LibraryIInv'
<1> USE DEF LibraryIInv
<1>1. /\ Events' = Events /\ Strings' = Strings /\ Strings = stringLog
      /\ UNCHANGED <<eventLog, eventQueue, stringLog, stringQueue, cut, garbled, name>>
      /\ library' = ReadLibrary(read) /\ stringId' = NextId(read) /\ phase' = "idle"
      /\ Up' /\ ~Up /\ eventQueue = << >> /\ stringQueue = << >>
  <2>1. stringLog \in Seq(Rec) /\ eventLog \in Seq(Event)
    BY DEF LibraryTypeOK, Rec
  <2>2. /\ UNCHANGED <<eventLog, eventQueue, stringLog, stringQueue, cut, garbled, name>>
        /\ library' = ReadLibrary(read) /\ stringId' = NextId(read) /\ phase' = "idle"
        /\ Up' /\ ~Up /\ eventQueue = << >> /\ stringQueue = << >>
    BY DEF Load, logs, Up, Quiet
  <2> QED
    BY <2>1, <2>2, ConcatEmptySeq DEF Events, Strings
<1>2. /\ DOMAIN stringLog = 1 .. Len(Strings)
      /\ \A i \in 1 .. Len(Strings) :
           stringLog[i].string \in String /\ stringLog[i].id \in Nat
  BY <1>1, LogTypes DEF LibraryTypeOK, Rec
<1>3. /\ session' = session + 1 /\ session \in Nat /\ session' <= MaxSessions
      /\ started'[session'] = Len(stringLog) /\ started' \in Seq(Nat)
      /\ \A k \in 1 .. session : started'[k] = started[k]
  BY LogTypes, AppendProperties, StringLibraryAssumption DEF Load, session, LibraryTypeOK
<1>4. /\ DOMAIN library' = {stringLog[i].string : i \in read}
      /\ \A s \in DOMAIN library' : \E i \in read :
           stringLog[i].string = s /\ library'[s] = ReadId(stringLog[i].id)
  BY <1>1, ReadBack
<1>5. NextId(read) \in Nat /\ \A i \in read : ReadId(stringLog[i].id) < NextId(read)
  BY NextIdAbove
<1>6. LibraryTypeOK'
  <2>1. library' \in [DOMAIN library' -> Nat] /\ DOMAIN library' \subseteq String
    <3>1. \A s \in DOMAIN library' : library'[s] \in Nat
      BY <1>2, <1>4, ReadIdType
    <3>2. library' = [s \in DOMAIN library' |-> library'[s]]
      BY <1>1 DEF ReadLibrary
    <3> QED
      BY <1>2, <1>4, <3>1, <3>2
  <2>2. unread' \in BOOLEAN /\ cut' \in BOOLEAN /\ garbled' \in BOOLEAN
    BY <1>1 DEF Load, LibraryTypeOK
  <2>3. phase' \in {"down", "idle", "between"} /\ ~ (phase' = "between") /\ name' = {}
    BY <1>1 DEF LibraryTypeOK, Up
  <2> QED
    BY <1>1, <1>3, <1>5, <2>1, <2>2, <2>3 DEF LibraryTypeOK
<1>7. Quiet' /\ Bounded' /\ BoundedQueue' /\ Naming'
  BY <1>1 DEF Quiet, Bounded, BoundedQueue, Naming
<1>9. Fresh'
  BY <1>1, <1>4, <1>5 DEF Fresh
<1>10. /\ ~unread' => ~unread /\ read = 1 .. Len(Strings)
       /\ Intact' => Intact /\ read = 1 .. Len(Strings)
  BY <1>1, <1>2 DEF Load, Intact
<1>11. Unique'
  BY <1>1, <1>10 DEF Unique
<1>12. LibraryInjective'
  <2> SUFFICES ASSUME Intact', NEW s \in DOMAIN library', NEW u \in DOMAIN library',
                      s # u, library'[s] = library'[u]
               PROVE  library'[s] = DefaultId
    BY DEF LibraryInjective
  <2>1. PICK i \in read : stringLog[i].string = s /\ library'[s] = ReadId(stringLog[i].id)
    BY <1>4
  <2>2. PICK j \in read : stringLog[j].string = u /\ library'[u] = ReadId(stringLog[j].id)
    BY <1>4
  <2>3. i # j /\ i \in 1 .. Len(Strings) /\ j \in 1 .. Len(Strings)
    BY <1>10, <2>1, <2>2
  <2>4. stringLog[i].id = stringLog[j].id => stringLog[i].id >= IdLimit
    BY <1>1, <1>10, <2>3 DEF Unique
  <2>5. stringLog[i].id \in Nat /\ stringLog[j].id \in Nat
    BY <1>2, <2>3
  <2>6. ReadId(stringLog[i].id) = ReadId(stringLog[j].id)
    BY <2>1, <2>2
  <2> QED
    BY <2>1, <2>4, <2>5, <2>6, StringLibraryAssumption DEF ReadId
<1>13. Known'
  <2> SUFFICES ASSUME Intact', NEW i \in 1 .. Len(Strings)
               PROVE  /\ Strings[i].string \in DOMAIN library'
                      /\ Strings[i].id < IdLimit =>
                           library'[Strings[i].string] = Strings[i].id
    BY <1>1 DEF Known
  <2>1. Strings[i].string \in DOMAIN library'
    BY <1>1, <1>4, <1>10
  <2>2. PICK j \in read : /\ stringLog[j].string = Strings[i].string
                          /\ library'[Strings[i].string] = ReadId(stringLog[j].id)
    BY <1>4, <2>1
  <2>3. j = i
    BY <1>1, <1>10, <2>2 DEF Unique
  <2> QED
    BY <1>1, <2>1, <2>2, <2>3 DEF ReadId
<1>19. ReadAlready'
  <2> SUFFICES ASSUME ~unread', NEW k \in 1 .. Len(stringLog)
               PROVE  /\ stringLog[k].string \in DOMAIN library'
                      /\ stringLog[k].id < IdLimit => stringLog[k].id < stringId'
    BY <1>1, <1>3 DEF ReadAlready
  <2>1. k \in read
    BY <1>1, <1>10
  <2>2. stringLog[k].string \in DOMAIN library'
    BY <1>4, <2>1
  <2>3. ReadId(stringLog[k].id) < stringId'
    BY <1>1, <1>5, <2>1
  <2> QED
    BY <2>2, <2>3 DEF ReadId
<1>18. ASSUME NEW i \in 1 .. Len(Events)
      PROVE  /\ Events[i].session \in 1 .. session
             /\ started'[Events[i].session] = started[Events[i].session]
  <2>1. Events[i].session \in Nat /\ 1 <= Events[i].session
    BY LogTypes DEF Event
  <2>2. Events[i].session <= session
    BY DEF Past
  <2>3. Events[i].session \in 1 .. session
    BY <1>3, <2>1, <2>2
  <2> QED
    BY <1>3, <2>3
<1>8. Past'
  <2>1. ASSUME NEW k \in 1 .. session'
        PROVE  started'[k] <= Len(stringLog)
    <3>1. k \in 1 .. session \/ k = session'
      BY <1>3
    <3>2. Len(stringLog) <= Len(stringLog)
      BY LogTypes
    <3> QED
      BY <1>3, <3>1, <3>2 DEF Past
  <2>2. \A i \in 1 .. Len(Events) : Events[i].session <= session'
    BY <1>3, <1>18
  <2>3. session' > 0
    BY <1>3
  <2> QED
    BY <1>1, <2>1, <2>2, <2>3 DEF Past
<1>14. NoneRedefined'
  BY <1>1, <1>10, <1>18 DEF NoneRedefined, NotRedefined
<1>15. AllInForce'
  BY <1>1, <1>3 DEF AllInForce, InForce, Past
<1>16. Sourced'
  <2> SUFFICES ASSUME NEW s \in DOMAIN library'
               PROVE  Source(s, library[s])'
    BY DEF Sourced
  <2>1. PICK k \in read : stringLog[k].string = s /\ library'[s] = ReadId(stringLog[k].id)
    BY <1>4
  <2>2. k \in 1 .. started'[session']
    BY <1>1, <1>2, <1>3
  <2> QED
    BY <1>1, <2>1, <2>2 DEF Source
<1>17. AllResolved'
  <2> SUFFICES ASSUME NEW i \in 1 .. Len(Events)
               PROVE  Resolved(i)'
    BY <1>1 DEF AllResolved
  <2>1. Earlier(i)' = Earlier(i)
    BY <1>1 DEF Earlier
  <2> QED
    BY <1>1, <1>18, <2>1 DEF AllResolved, Resolved, Definition
<1> QED
  BY <1>6, <1>7, <1>8, <1>9, <1>11, <1>12, <1>13, <1>14, <1>15, <1>16, <1>17, <1>19

\* What a push to the event log leaves to be shown: what the new event must satisfy.
LEMMA EventPushed ==
  ASSUME LibraryIInv, Up, NEW e \in Event, e.session = session, NEW n \in Nat,
         n = Len(Events) + 1,
         eventLog' = eventLog, eventQueue' = Append(eventQueue, e),
         UNCHANGED <<stringLog, started, unread>>
  PROVE  /\ eventQueue' \in Seq(Event)
         /\ Len(Events') = n
         /\ \A i \in 1 .. Len(Events) : Events'[i] = Events[i]
         /\ Events'[n] = e
         /\ \A i \in 1 .. Len(Events') : i \in 1 .. Len(Events) \/ i = n
         /\ Past'
         /\ (e.op = "define" /\ ~unread => NotRedefined(e)) => NoneRedefined'
         /\ Resolved(n)' => AllResolved'
<1> USE DEF LibraryIInv
<1>1. /\ eventQueue' \in Seq(Event)
      /\ Len(Events') = n
      /\ \A i \in 1 .. Len(Events) : Events'[i] = Events[i]
      /\ Events'[n] = e
  BY Pushed DEF LibraryTypeOK, Events
<1>2. \A i \in 1 .. Len(Events') : i \in 1 .. Len(Events) \/ i = n
  BY <1>1, LogTypes
<1>3. Past'
  <2>1. \A i \in 1 .. Len(Events') : Events'[i].session <= session
    <3>1. session <= session
      BY LogTypes
    <3> QED
      BY <1>1, <1>2, <3>1 DEF Past
  <2> QED
    BY <2>1 DEF Past, session
<1>4. ASSUME e.op = "define" /\ ~unread => NotRedefined(e)
      PROVE  NoneRedefined'
  <2> SUFFICES ASSUME ~unread', NEW i \in 1 .. Len(Events'), Events'[i].op = "define"
               PROVE  NotRedefined(Events[i])'
    BY DEF NoneRedefined
  <2>1. CASE i \in 1 .. Len(Events)
    <3>1. NotRedefined(Events[i]) /\ Events'[i] = Events[i]
      BY <1>1, <2>1 DEF NoneRedefined
    <3> QED
      BY <3>1 DEF NotRedefined
  <2>2. CASE i = n
    <3>1. NotRedefined(e) /\ Events'[i] = e
      BY <1>1, <1>4, <2>2
    <3> QED
      BY <3>1 DEF NotRedefined
  <2> QED
    BY <1>2, <2>1, <2>2
<1>5. ASSUME Resolved(n)'
      PROVE  AllResolved'
  <2>1. ASSUME NEW i \in 1 .. Len(Events)
        PROVE  Resolved(i)'
    <3>1. \A j \in 1 .. i - 1 : Events'[j] = Events[j]
      <4>1. \A j \in 1 .. i - 1 : j \in 1 .. Len(Events)
        BY LogTypes
      <4> QED
        BY <1>1, <4>1
    <3>2. Earlier(i)' = Earlier(i)
      BY <1>1, <3>1 DEF Earlier
    <3>3. \A j \in Earlier(i) : Events'[j] = Events[j]
      BY <3>1 DEF Earlier
    <3>4. Resolved(i) /\ Events'[i] = Events[i]
      BY <1>1 DEF AllResolved
    <3> QED
      BY <3>2, <3>3, <3>4 DEF Resolved, Definition
  <2> QED
    BY <1>2, <1>5, <2>1 DEF AllResolved
<1> QED
  BY <1>1, <1>2, <1>3, <1>4, <1>5

\* A known string: its number comes from one definition.
LEMMA UseKnownInvariant ==
  ASSUME LibraryIInv, NEW s \in String, UseKnown(s)
  PROVE  LibraryIInv'
<1> USE DEF LibraryIInv
<1> DEFINE e == Used(s, library[s])
<1> PICK n \in Nat : n = Len(Events) + 1
  BY LogTypes
<1>1. /\ eventQueue' = Append(eventQueue, e)
      /\ UNCHANGED <<eventLog, stringLog, stringQueue, cut, garbled, library, stringId,
                     phase, name, started, unread, Intact>>
      /\ Up /\ s \in DOMAIN library /\ phase = "idle"
  BY DEF UseKnown, Up, Intact
<1>2. e \in Event /\ e.session = session /\ e.op = "use" /\ e.string = s
      /\ e.id = library[s]
  <2>1. session \in 1 .. MaxSessions
    BY <1>1, SessionTypes
  <2>2. library[s] \in Nat
    BY <1>1 DEF LibraryTypeOK
  <2> QED
    BY <2>1, <2>2 DEF Used, Event
<1> HIDE DEF e
<1>3. /\ eventQueue' \in Seq(Event)
      /\ Len(Events') = n
      /\ \A i \in 1 .. Len(Events) : Events'[i] = Events[i]
      /\ Events'[n] = e
      /\ Past' /\ NoneRedefined'
      /\ Resolved(n)' => AllResolved'
      /\ \A i \in 1 .. Len(Events') : i \in 1 .. Len(Events) \/ i = n
  BY <1>1, <1>2, EventPushed
<1>4. LibraryTypeOK' /\ Strings' = Strings /\ session' = session
  BY <1>1, <1>3 DEF LibraryTypeOK, Strings, session
<1>5. /\ LibraryInjective' /\ Quiet' /\ Bounded' /\ BoundedQueue' /\ Fresh' /\ Unique'
      /\ Known' /\ ReadAlready' /\ Naming'
  <2>1. LibraryInjective' /\ Quiet' /\ Bounded' /\ BoundedQueue' /\ Fresh'
    BY <1>1, <1>4 DEF LibraryInjective, Quiet, Bounded, BoundedQueue, Fresh, Up
  <2>2. Unique' /\ Known' /\ ReadAlready' /\ Naming'
    BY <1>1, <1>4 DEF Unique, Known, ReadAlready, Naming, Up
  <2> QED
    BY <2>1, <2>2
<1>6. AllInForce'
  <2> SUFFICES ASSUME NEW i \in 1 .. Len(Events')
               PROVE  InForce(Events[i])'
    BY DEF AllInForce
  <2>1. CASE i \in 1 .. Len(Events)
    BY <1>1, <1>3, <1>4, <2>1 DEF AllInForce, InForce
  <2>2. CASE i = n
    BY <1>2, <1>3, <2>2 DEF InForce
  <2> QED
    BY <1>3, <2>1, <2>2
<1>7. Sourced'
  <2>1. \A i \in 1 .. Len(Events) : i \in 1 .. Len(Events')
    BY <1>3, LogTypes
  <2> QED
    BY <1>1, <1>3, <1>4, <2>1 DEF Sourced, Source, Defined
<1>8. Resolved(n)'
  <2> SUFFICES ASSUME e.id # DefaultId
               PROVE  \/ /\ Earlier(n)' # {}
                         /\ \A j \in Earlier(n)' : Events'[j].string = s
                      \/ /\ Earlier(n)' = {}
                         /\ \E k \in 1 .. started[session] :
                              stringLog[k] = Definition(s, e.id)
    BY <1>1, <1>2, <1>3, <1>4 DEF Resolved, Definition
  <2>1. ASSUME NEW j \in Earlier(n)'
        PROVE  Events'[j].string = s
    <3>1. /\ j \in 1 .. Len(Events) /\ Events[j].op = "define" /\ Events[j].id = library[s]
          /\ Events[j].session = session
      BY <1>2, <1>3, LogTypes DEF Earlier
    <3> QED
      BY <1>1, <1>3, <3>1 DEF AllInForce, InForce
  <2>2. ASSUME Earlier(n)' = {}
        PROVE  \E k \in 1 .. started[session] : stringLog[k] = Definition(s, e.id)
    <3>1. ASSUME NEW i \in 1 .. Len(Events), Events[i] = Defined(s, library[s])
          PROVE  FALSE
      <4>1. i \in 1 .. n - 1
        BY LogTypes
      <4>2. i \in Earlier(n)'
        BY <1>2, <1>3, <3>1, <4>1 DEF Earlier, Defined
      <4> QED
        BY <2>2, <4>2
    <3>2. PICK k \in 1 .. started[session] :
            stringLog[k].string = s /\ library[s] = ReadId(stringLog[k].id)
      BY <1>1, <3>1 DEF Sourced, Source
    <3>3. stringLog[k] \in Rec
      <4>1. started[session] \in Nat /\ started[session] <= Len(stringLog)
        BY <1>1, SessionTypes
      <4>2. k \in 1 .. Len(stringLog)
        BY <4>1, LogTypes
      <4> QED
        BY <4>2, LogTypes
    <3>4. library[s] = stringLog[k].id
      BY <1>2, <3>2 DEF ReadId
    <3> QED
      BY <1>2, <3>2, <3>3, <3>4 DEF Definition, Rec
  <2> QED
    BY <2>1, <2>2
<1> QED
  BY <1>3, <1>4, <1>5, <1>6, <1>7, <1>8

\* What intact string files say of strings and numbers, the session knows: a new string and a new number are not among them.
LEMMA NewToFiles ==
  ASSUME LibraryIInv, Up, Intact, NEW s \in String, s \notin DOMAIN library,
         NEW i \in 1 .. Len(Strings)
  PROVE  /\ Strings[i].string # s
         /\ Strings[i].id = stringId => stringId >= IdLimit
<1> USE DEF LibraryIInv
<1>1. /\ Strings[i].string \in DOMAIN library
      /\ Strings[i].id < IdLimit => library[Strings[i].string] = Strings[i].id
  BY DEF Known
<1>2. library[Strings[i].string] < stringId /\ library[Strings[i].string] \in Nat
  BY <1>1 DEF Fresh, LibraryTypeOK
<1>3. Strings[i].id \in Nat /\ stringId \in Nat
  BY LogTypes DEF Rec, LibraryTypeOK
<1> QED
  BY <1>1, <1>2, <1>3, StringLibraryAssumption

\* The first push of a new string: its number is new in the session.
LEMMA DefineInEventsInvariant ==
  ASSUME LibraryIInv, NEW s \in String, DefineInEvents(s)
  PROVE  LibraryIInv'
<1> USE DEF LibraryIInv
<1> DEFINE e == Defined(s, stringId)
<1> PICK n \in Nat : n = Len(Events) + 1
  BY LogTypes
<1>1. /\ eventQueue' = Append(eventQueue, e)
      /\ UNCHANGED <<eventLog, stringLog, stringQueue, cut, garbled, library, stringId,
                     started, unread, Intact>>
      /\ Up /\ Up' /\ s \notin DOMAIN library /\ phase = "idle" /\ phase' = "between"
      /\ name' = {s}
  BY DEF DefineInEvents, Up, Intact
<1>2. e \in Event /\ e.session = session /\ e.op = "define" /\ e.string = s
      /\ e.id = stringId
  <2>1. session \in 1 .. MaxSessions
    BY <1>1, SessionTypes
  <2>2. stringId \in Nat
    BY DEF LibraryTypeOK
  <2> QED
    BY <2>1, <2>2 DEF Defined, Event
<1>3. session \in 1 .. session /\ started[session] \in Nat
      /\ started[session] <= Len(stringLog)
  <2>1. session \in 1 .. session /\ session \in 1 .. Len(started)
    BY <1>1, LogTypes DEF Past, session
  <2> QED
    BY <2>1 DEF Past, LibraryTypeOK
<1>4. ASSUME ~unread
      PROVE  NotRedefined(e)
  <2> SUFFICES ASSUME NEW k \in 1 .. started[session]
               PROVE  /\ stringLog[k].string # s
                      /\ stringLog[k].id = stringId => stringId >= IdLimit
    BY <1>2 DEF NotRedefined
  <2>1. /\ stringLog[k].string \in DOMAIN library
        /\ stringLog[k].id < IdLimit => stringLog[k].id < stringId
    BY <1>1, <1>4 DEF ReadAlready
  <2>2. stringId \in Nat
    BY DEF LibraryTypeOK
  <2> QED
    BY <1>1, <2>1, <2>2, StringLibraryAssumption
<1> HIDE DEF e
<1>5. /\ eventQueue' \in Seq(Event)
      /\ Len(Events') = n
      /\ \A i \in 1 .. Len(Events) : Events'[i] = Events[i]
      /\ Events'[n] = e
      /\ Past' /\ NoneRedefined'
      /\ Resolved(n)' => AllResolved'
      /\ \A i \in 1 .. Len(Events') : i \in 1 .. Len(Events) \/ i = n
  BY <1>1, <1>2, <1>4, EventPushed
<1>6. LibraryTypeOK' /\ Strings' = Strings /\ session' = session
  BY <1>1, <1>5 DEF LibraryTypeOK, Strings, session
<1>7. /\ LibraryInjective' /\ Quiet' /\ Bounded' /\ BoundedQueue' /\ Fresh' /\ Unique'
      /\ Known' /\ ReadAlready'
  <2>1. LibraryInjective' /\ Quiet' /\ Bounded' /\ BoundedQueue' /\ Fresh'
    BY <1>1, <1>6 DEF LibraryInjective, Quiet, Bounded, BoundedQueue, Fresh
  <2>2. Unique' /\ Known' /\ ReadAlready'
    BY <1>1, <1>6 DEF Unique, Known, ReadAlready
  <2> QED
    BY <2>1, <2>2
<1>8. Naming'
  <2>1. n \in 1 .. Len(Events')
    BY <1>5, LogTypes
  <2>2. Events'[n] = Defined(s, stringId)'
    BY <1>1, <1>5, <1>6 DEF e, Defined
  <2> QED
    BY <1>1, <2>1, <2>2 DEF Naming
<1>9. AllInForce'
  <2> SUFFICES ASSUME NEW i \in 1 .. Len(Events')
               PROVE  InForce(Events[i])'
    BY DEF AllInForce
  <2>1. CASE i \in 1 .. Len(Events)
    BY <1>1, <1>5, <1>6, <2>1 DEF AllInForce, InForce
  <2>2. CASE i = n
    <3>1. \A u \in DOMAIN library : library[u] # stringId
      BY DEF Fresh, LibraryTypeOK
    <3> QED
      BY <1>1, <1>2, <1>5, <1>6, <2>2, <3>1 DEF InForce
  <2> QED
    BY <1>5, <2>1, <2>2
<1>10. Sourced'
  <2>1. \A i \in 1 .. Len(Events) : i \in 1 .. Len(Events')
    BY <1>5, LogTypes
  <2> QED
    BY <1>1, <1>5, <1>6, <2>1 DEF Sourced, Source, Defined
<1>11. Resolved(n)'
  BY <1>2, <1>5 DEF Resolved
<1> QED
  BY <1>5, <1>6, <1>7, <1>8, <1>9, <1>10, <1>11

\* The second push, of the definition to the string log, and the message itself.
LEMMA DefineInStringsInvariant ==
  ASSUME LibraryIInv, DefineInStrings
  PROVE  LibraryIInv'
<1> USE DEF LibraryIInv
<1>1. PICK s \in String :
        /\ name = {s} /\ s \notin DOMAIN library
        /\ \E i \in 1 .. Len(Events) : Events[i] = Defined(s, stringId)
  BY DEF DefineInStrings, Naming
<1> DEFINE e == Used(s, stringId)
           d == Definition(s, stringId)
<1> PICK n \in Nat : n = Len(Events) + 1
  BY LogTypes
<1> PICK m \in Nat : m = Len(Strings) + 1
  BY LogTypes
<1>2. /\ eventQueue' = Append(eventQueue, e)
      /\ stringQueue' = Append(stringQueue, d)
      /\ library' = [t \in DOMAIN library \cup {s} |->
                       IF t = s THEN stringId ELSE library[t]]
      /\ stringId' = stringId + 1 /\ phase = "between" /\ phase' = "idle" /\ name' = {}
      /\ UNCHANGED <<eventLog, stringLog, cut, garbled, started, unread, Intact>>
      /\ Up /\ Up'
  BY <1>1 DEF DefineInStrings, Up, Intact
<1>3. e \in Event /\ e.session = session /\ e.op = "use" /\ e.string = s
      /\ e.id = stringId /\ d \in Rec /\ d.string = s /\ d.id = stringId
  <2>1. session \in 1 .. MaxSessions
    <3>1. session > 0 /\ session <= MaxSessions
      BY <1>2 DEF Past, LibraryTypeOK
    <3>2. session \in Nat
      BY LogTypes
    <3> QED
      BY <3>1, <3>2, StringLibraryAssumption
  <2>2. stringId \in Nat
    BY DEF LibraryTypeOK
  <2> QED
    BY <2>1, <2>2 DEF Used, Definition, Event, Rec
<1> HIDE DEF e, d
<1>4. /\ eventQueue' \in Seq(Event)
      /\ Len(Events') = n
      /\ \A i \in 1 .. Len(Events) : Events'[i] = Events[i]
      /\ Events'[n] = e
      /\ Past' /\ NoneRedefined'
      /\ Resolved(n)' => AllResolved'
      /\ \A i \in 1 .. Len(Events') : i \in 1 .. Len(Events) \/ i = n
  <2>1. ~ (e.op = "define")
    BY <1>3
  <2> QED
    BY <1>2, <1>3, <2>1, EventPushed
<1>5. /\ stringQueue' \in Seq(Rec)
      /\ Len(Strings') = m
      /\ \A i \in 1 .. Len(Strings) : Strings'[i] = Strings[i]
      /\ Strings'[m] = d
      /\ \A i \in 1 .. Len(Strings') : i \in 1 .. Len(Strings) \/ i = m
  <2>1. stringLog \in Seq(Rec) /\ stringQueue \in Seq(Rec)
    BY DEF LibraryTypeOK, Rec
  <2>2. /\ stringQueue' \in Seq(Rec)
        /\ Len(Strings') = m
        /\ \A i \in 1 .. Len(Strings) : Strings'[i] = Strings[i]
        /\ Strings'[m] = d
    BY <1>2, <1>3, <2>1, Pushed DEF Strings
  <2> QED
    BY <2>2, LogTypes
<1>6. /\ DOMAIN library' = DOMAIN library \cup {s} /\ library'[s] = stringId
      /\ \A u \in DOMAIN library : /\ library'[u] = library[u] /\ u # s
                                   /\ library[u] < stringId /\ library[u] \in Nat
      /\ stringId \in Nat
  BY <1>1, <1>2 DEF Fresh, LibraryTypeOK
<1>7. LibraryTypeOK' /\ session' = session
  <2>1. library' \in [DOMAIN library' -> Nat] /\ DOMAIN library' \subseteq String
    BY <1>2, <1>6 DEF LibraryTypeOK
  <2> QED
    BY <1>2, <1>4, <1>5, <1>6, <2>1 DEF LibraryTypeOK, session, Rec
<1>8. LibraryInjective'
  <2> SUFFICES ASSUME Intact, NEW u \in DOMAIN library', NEW v \in DOMAIN library',
                      u # v, library'[u] = library'[v]
               PROVE  library'[u] = DefaultId
    BY <1>2 DEF LibraryInjective
  <2>1. u # s /\ v # s
    BY <1>6
  <2> QED
    BY <1>6, <2>1 DEF LibraryInjective
<1>9. Quiet' /\ Naming'
  BY <1>2 DEF Quiet, Naming
<1>10. Bounded' /\ BoundedQueue'
  <2>1. PICK b \in Nat : \A i \in 1 .. Len(stringQueue) : stringQueue[i].id <= b
    BY DEF BoundedQueue
  <2>2. stringQueue \in Seq(Rec) /\ Len(stringQueue) \in Nat
    BY DEF LibraryTypeOK, Rec
  <2>3. /\ Len(stringQueue') = Len(stringQueue) + 1 /\ stringQueue'[Len(stringQueue) + 1] = d
        /\ \A i \in 1 .. Len(stringQueue) : stringQueue'[i] = stringQueue[i]
    BY <1>2, <1>3, <2>2, AppendProperties
  <2>4. \A i \in 1 .. Len(stringQueue) : stringQueue[i].id \in Nat
    BY <2>2, RecordIds
  <2>5. \A i \in 1 .. Len(stringQueue') : stringQueue'[i].id <= b + stringId
    BY <1>3, <1>6, <2>1, <2>2, <2>3, <2>4
  <2>6. b + stringId \in Nat
    BY <1>6
  <2> QED
    BY <1>2, <2>5, <2>6 DEF Bounded, BoundedQueue
<1>11. Fresh'
  BY <1>2, <1>6 DEF Fresh
<1>12. ASSUME Intact, NEW i \in 1 .. Len(Strings)
       PROVE  /\ Strings[i].string # s
              /\ Strings[i].id = stringId => stringId >= IdLimit
  BY <1>1, <1>2, <1>12, NewToFiles
<1>13. Unique'
  BY <1>2, <1>3, <1>5, <1>12 DEF Unique
<1>14. Known' /\ ReadAlready'
  <2>1. Known'
    BY <1>2, <1>3, <1>5, <1>6, <1>12 DEF Known
  <2>2. ReadAlready'
    <3> SUFFICES ASSUME ~unread, NEW k \in 1 .. started[session]
                 PROVE  /\ stringLog[k].string \in DOMAIN library'
                        /\ stringLog[k].id < IdLimit => stringLog[k].id < stringId'
      BY <1>2, <1>7 DEF ReadAlready
    <3>1. /\ stringLog[k].string \in DOMAIN library
          /\ stringLog[k].id < IdLimit => stringLog[k].id < stringId
      BY <1>2 DEF ReadAlready
    <3>2. stringLog[k].id \in Nat
      <4>1. started[session] \in Nat /\ started[session] <= Len(stringLog)
        BY <1>2, SessionTypes
      <4>2. k \in 1 .. Len(stringLog) /\ k \in 1 .. Len(Strings)
        BY <4>1, LogTypes
      <4> QED
        BY <4>2, LogTypes DEF Rec
    <3> QED
      BY <1>2, <1>6, <3>1, <3>2
  <2> QED
    BY <2>1, <2>2
<1>15. ASSUME NEW i \in 1 .. Len(Events), Events[i].op = "define",
              Events[i].session = session
       PROVE  \/ /\ Events[i].string \in DOMAIN library
                 /\ library[Events[i].string] = Events[i].id
                 /\ Events[i].id # stringId
              \/ Events[i].string = s /\ Events[i].id = stringId
  BY <1>1, <1>2, <1>6, <1>15 DEF AllInForce, InForce
<1>16. AllInForce'
  <2> SUFFICES ASSUME NEW i \in 1 .. Len(Events')
               PROVE  InForce(Events[i])'
    BY DEF AllInForce
  <2>1. CASE i \in 1 .. Len(Events)
    <3> SUFFICES ASSUME Events[i].op = "define", Events[i].session = session
                 PROVE  /\ Events[i].string \in DOMAIN library'
                        /\ library'[Events[i].string] = Events[i].id
                        /\ \A u \in DOMAIN library' :
                             library'[u] = Events[i].id => u = Events[i].string
      BY <1>4, <1>7, <2>1 DEF InForce
    <3>1. \A u \in DOMAIN library :
            library[u] = Events[i].id => u = Events[i].string
      BY <1>2, <2>1 DEF AllInForce, InForce
    <3> QED
      BY <1>6, <1>15, <2>1, <3>1
  <2>2. CASE i = n
    BY <1>3, <1>4, <2>2 DEF InForce
  <2> QED
    BY <1>4, <2>1, <2>2
<1>17. Sourced'
  <2> SUFFICES ASSUME NEW u \in DOMAIN library'
               PROVE  Source(u, library[u])'
    BY DEF Sourced
  <2>1. \A i \in 1 .. Len(Events) : i \in 1 .. Len(Events') /\ Events'[i] = Events[i]
    BY <1>4, LogTypes
  <2>2. CASE u = s
    BY <1>1, <1>6, <1>7, <2>1, <2>2 DEF Source, Defined
  <2>3. CASE u \in DOMAIN library
    <3>1. Source(u, library[u]) /\ library'[u] = library[u]
      BY <1>6, <2>3 DEF Sourced
    <3>2. CASE \E i \in 1 .. Len(Events) : Events[i] = Defined(u, library[u])
      BY <1>7, <2>1, <3>1, <3>2 DEF Source, Defined
    <3>3. CASE \E k \in 1 .. started[session] :
                 stringLog[k].string = u /\ library[u] = ReadId(stringLog[k].id)
      BY <1>2, <1>7, <3>1, <3>3 DEF Source
    <3> QED
      BY <3>1, <3>2, <3>3 DEF Source
  <2> QED
    BY <1>6, <2>2, <2>3
<1>18. Resolved(n)'
  <2>1. PICK i \in 1 .. Len(Events) : Events[i] = Defined(s, stringId)
    BY <1>1
  <2>2. i \in Earlier(n)'
    <3>1. i \in 1 .. n - 1
      BY LogTypes
    <3> QED
      BY <1>3, <1>4, <2>1, <3>1 DEF Earlier, Defined
  <2>3. ASSUME NEW j \in Earlier(n)'
        PROVE  Events'[j].string = s
    <3>1. /\ j \in 1 .. Len(Events) /\ Events[j].op = "define" /\ Events[j].id = stringId
          /\ Events[j].session = session
      BY <1>3, <1>4, LogTypes DEF Earlier
    <3> QED
      BY <1>4, <1>15, <3>1
  <2> QED
    BY <1>3, <1>4, <2>2, <2>3 DEF Resolved
<1> QED
  BY <1>4, <1>7, <1>8, <1>9, <1>10, <1>11, <1>13, <1>14, <1>16, <1>17, <1>18

-----------------------------------------------------------------------------
(* The theorems.                                                            *)

\* Every step preserves the invariant.
LEMMA LibraryStepInvariant == LibraryIInv /\ [LibraryNext]_libraryVars => LibraryIInv'
<1> SUFFICES ASSUME LibraryIInv, [LibraryNext]_libraryVars PROVE LibraryIInv'
  OBVIOUS
<1>1. CASE UNCHANGED libraryVars
  <2>1. /\ UNCHANGED <<eventLog, eventQueue, stringLog, stringQueue, cut, garbled, library,
                       stringId, phase, name, started, unread>>
        /\ UNCHANGED <<Events, Strings, session, Up, Intact>>
    BY <1>1 DEF libraryVars, logs, Events, Strings, session, Up, Intact
  <2>2. LibraryTypeOK' /\ LibraryInjective' /\ Quiet' /\ Past' /\ Bounded'
        /\ BoundedQueue' /\ Fresh'
    <3>1. LibraryTypeOK'
      BY <2>1 DEF LibraryIInv, LibraryTypeOK
    <3>2. Past' /\ Quiet'
      BY <2>1 DEF LibraryIInv, Past, Quiet
    <3>3. LibraryInjective' /\ Bounded' /\ BoundedQueue' /\ Fresh'
      BY <2>1 DEF LibraryIInv, LibraryInjective, Bounded, BoundedQueue, Fresh
    <3> QED
      BY <3>1, <3>2, <3>3
  <2>3. Naming' /\ Unique' /\ Known' /\ ReadAlready' /\ NoneRedefined'
    <3>1. Naming'
      BY <2>1 DEF LibraryIInv, Naming, Defined
    <3>2. Unique' /\ Known' /\ ReadAlready'
      BY <2>1 DEF LibraryIInv, Unique, Known, ReadAlready
    <3>3. NoneRedefined'
      BY <2>1 DEF LibraryIInv, NoneRedefined, NotRedefined
    <3> QED
      BY <3>1, <3>2, <3>3
  <2>4. AllInForce' /\ Sourced'
    BY <2>1 DEF LibraryIInv, AllInForce, InForce, Sourced, Source, Defined
  <2>5. AllResolved'
    BY <2>1 DEF LibraryIInv, AllResolved, Resolved, Earlier, Definition
  <2> QED
    BY <2>2, <2>3, <2>4, <2>5 DEF LibraryIInv
<1>2. CASE LibraryNext
  BY <1>1, <1>2, LoadInvariant, UseKnownInvariant, DefineInEventsInvariant,
     DefineInStringsInvariant, FlushInvariant, FlushBehindCutInvariant, EndInvariant DEF LibraryNext, LibraryDone
<1> QED
  BY <1>1, <1>2

\* The numbers in the string files and those of a session are each given to one string,
\* over all cut-off sessions, while the files are intact (M_event_writer.cpp 75-229).
THEOREM LibraryInvariantHolds == LibrarySpec => []LibraryInv
<1>1. LibraryIInv => LibraryInv
  <2> SUFFICES ASSUME LibraryIInv PROVE IdsUnique
    BY DEF LibraryIInv, LibraryInv
  <2>1. DOMAIN stringLog = 1 .. Len(stringLog)
    BY DEF LibraryIInv, LibraryTypeOK
  <2>2. \A i \in DOMAIN stringLog : i \in 1 .. Len(Strings) /\ Strings[i] = stringLog[i]
    BY <2>1, LogTypes DEF LibraryIInv
  <2> QED
    BY <2>2 DEF LibraryIInv, Unique, IdsUnique
<1> QED
  BY <1>1, LibraryInitInv, LibraryStepInvariant, PTL DEF LibrarySpec

\* What has been defined stays as it was: in the strings while their files are intact, and
\* in the event log, right or wrong, while they can be read (M_event_writer.cpp 12-36, 75-229).
THEOREM DefinitionsStay == LibrarySpec => []DefinedForGood
<1>1. LibraryIInv => DefinedForGood
  <2> SUFFICES ASSUME LibraryIInv PROVE DefinedForGood
    OBVIOUS
  <2>1. DOMAIN stringLog = 1 .. Len(stringLog) /\ DOMAIN eventLog = 1 .. Len(eventLog)
    BY DEF LibraryIInv, LibraryTypeOK
  <2>2. \A i \in DOMAIN stringLog : i \in 1 .. Len(Strings) /\ Strings[i] = stringLog[i]
    BY <2>1, LogTypes DEF LibraryIInv
  <2>3. \A i \in DOMAIN eventLog : i \in 1 .. Len(Events) /\ Events[i] = eventLog[i]
    BY <2>1, LogTypes DEF LibraryIInv
  <2>4. KeepsId
    BY <2>2 DEF LibraryIInv, Known, KeepsId
  <2>5. NeverRedefined
    BY <2>3 DEF LibraryIInv, NoneRedefined, NotRedefined, NeverRedefined
  <2> QED
    BY <2>4, <2>5 DEF DefinedForGood
<1> QED
  BY <1>1, LibraryInitInv, LibraryStepInvariant, PTL DEF LibrarySpec

\* Whatever the sessions could read or misread, each number in the event log is resolved to
\* its string by a reader that misreads the string files as they did, but the number that
\* stands for those beyond the limit (M_event_writer.cpp 12-36, 75-229).
THEOREM NumbersResolve == LibrarySpec => []Resolvable
<1>1. LibraryIInv => Resolvable
  <2> SUFFICES ASSUME LibraryIInv, NEW i \in DOMAIN eventLog,
                      eventLog[i].op = "use", eventLog[i].id # DefaultId
               PROVE  LET earlier == {j \in 1 .. i - 1 :
                                        /\ eventLog[j].op = "define"
                                        /\ eventLog[j].id = eventLog[i].id
                                        /\ eventLog[j].session = eventLog[i].session}
                      IN  IF earlier # {}
                          THEN \A j \in earlier : eventLog[j].string = eventLog[i].string
                          ELSE \E k \in 1 .. started[eventLog[i].session] :
                                 stringLog[k] = Definition(eventLog[i].string, eventLog[i].id)
    BY DEF Resolvable
  <2>1. i \in 1 .. Len(eventLog) /\ i \in 1 .. Len(Events) /\ Len(eventLog) \in Nat
    <3>1. i \in 1 .. Len(eventLog)
      BY DEF LibraryIInv, LibraryTypeOK
    <3> QED
      BY <3>1, LogTypes DEF LibraryIInv
  <2>2. \A j \in 1 .. i : Events[j] = eventLog[j]
    BY <2>1, LogTypes DEF LibraryIInv
  <2>3. Events[i] = eventLog[i] /\ \A j \in 1 .. i - 1 : Events[j] = eventLog[j]
    BY <2>1, <2>2
  <2>4. Earlier(i) = {j \in 1 .. i - 1 : /\ eventLog[j].op = "define"
                                         /\ eventLog[j].id = eventLog[i].id
                                         /\ eventLog[j].session = eventLog[i].session}
    BY <2>3 DEF Earlier
  <2>5. \A j \in Earlier(i) : Events[j] = eventLog[j]
    BY <2>3 DEF Earlier
  <2>6. Resolved(i)
    BY <2>1 DEF LibraryIInv, AllResolved
  <2> QED
    BY <2>3, <2>4, <2>5, <2>6 DEF Resolved
<1> QED
  BY <1>1, LibraryInitInv, LibraryStepInvariant, PTL DEF LibrarySpec

-----------------------------------------------------------------------------
(* Messages. Sequences that are joined, one after the other: the bytes of   *)
(* values, and the buffers.                                                 *)

\* The concatenation of a sequence of sequences is where a path of concatenations ends.
LEMMA FlattenPath ==
  ASSUME NEW T, NEW ss \in Seq(Seq(T)), NEW p \in [0 .. Len(ss) -> Seq(T)],
         p[0] = << >>, \A k \in 1 .. Len(ss) : p[k] = p[k - 1] \o ss[k]
  PROVE  FlattenSeq(ss) = p[Len(ss)]
<1> DEFINE n == Len(ss)
           Is(f) == f = [i \in 1 .. n |-> IF i = 1 THEN ss[i] ELSE f[i - 1] \o ss[i]]
           h == CHOOSE f : Is(f)
<1>1. n \in Nat /\ \A k \in 1 .. n : ss[k] \in Seq(T)
  BY LenProperties, ElementOfSeq
<1>2. CASE n = 0
  BY <1>2, EmptySeq DEF FlattenSeq
<1>3. CASE n # 0
  <2>1. FlattenSeq(ss) = h[n]
    BY <1>3 DEF FlattenSeq
  <2>2. Is(h)
    <3> DEFINE g == [k \in 1 .. n |-> p[k]]
    <3>1. ASSUME NEW k \in 1 .. n
          PROVE  g[k] = IF k = 1 THEN ss[k] ELSE g[k - 1] \o ss[k]
      <4>1. CASE k = 1
        <5>0. 1 \in 1 .. Len(ss) /\ 1 - 1 = 0
          BY <1>1, <4>1
        <5>a. p[1] = p[1 - 1] \o ss[1]
          BY <5>0
        <5>1. p[1] = p[0] \o ss[1] /\ ss[1] \in Seq(T)
          BY <1>1, <5>0, <5>a
        <5>2. << >> \o ss[1] = ss[1]
          BY <5>1, ConcatEmptySeq
        <5> QED
          BY <4>1, <5>1, <5>2
      <4>2. CASE k # 1
        <5>1. k - 1 \in 1 .. n
          BY <1>1, <4>2
        <5> QED
          BY <4>2, <5>1
      <4> QED
        BY <4>1, <4>2
    <3>2. Is(g)
      BY <3>1
    <3> QED
      BY <3>2
  <2> HIDE DEF h
  <2> DEFINE P == {k \in 0 .. n : k = 0 \/ h[k] = p[k]}
  <2>3. 0 \in P
    BY <1>1
  <2>4. ASSUME NEW k \in 0 .. n - 1, k \in P
        PROVE  k + 1 \in P
    <3>1. k + 1 \in 1 .. n /\ k + 1 \in 0 .. n /\ (k + 1) - 1 = k
      BY <1>1
    <3>2. h[k + 1] = IF k + 1 = 1 THEN ss[k + 1] ELSE h[k] \o ss[k + 1]
      <4>1. \A i \in 1 .. n : h[i] = IF i = 1 THEN ss[i] ELSE h[i - 1] \o ss[i]
        BY <2>2
      <4>2. h[k + 1] = IF k + 1 = 1 THEN ss[k + 1] ELSE h[(k + 1) - 1] \o ss[k + 1]
        BY <3>1, <4>1
      <4> QED
        BY <3>1, <4>2
    <3>3. p[k + 1] = p[k] \o ss[k + 1]
      <4>1. k + 1 \in 1 .. Len(ss)
        BY <3>1
      <4>2. p[k + 1] = p[(k + 1) - 1] \o ss[k + 1]
        BY <4>1
      <4> QED
        BY <3>1, <4>2
    <3>4. CASE k = 0
      <4>1. << >> \o ss[k + 1] = ss[k + 1]
        BY <1>1, <3>1, ConcatEmptySeq
      <4>2. h[k + 1] = ss[k + 1]
        BY <3>2, <3>4
      <4>3. p[k + 1] = ss[k + 1]
        BY <3>3, <3>4, <4>1
      <4> QED
        BY <3>1, <4>2, <4>3
    <3>5. CASE k # 0
      <4>1. h[k] = p[k]
        BY <2>4, <3>5
      <4>2. k + 1 # 1
        BY <1>1, <3>5
      <4>3. h[k + 1] = h[k] \o ss[k + 1]
        BY <3>2, <4>2
      <4> QED
        BY <3>1, <3>3, <4>1, <4>3
    <3> QED
      BY <3>4, <3>5
  <2>5. \A k \in 0 .. n : k \in P
    <3> HIDE DEF P
    <3> QED
      BY <1>1, <2>3, <2>4, Stepwise
  <2>6. n \in P
    BY <1>1, <2>5
  <2> QED
    BY <1>3, <2>1, <2>6
<1> QED
  BY <1>2, <1>3

\* There is such a path.
LEMMA FlattenPathExists ==
  ASSUME NEW T, NEW ss \in Seq(Seq(T))
  PROVE  \E p \in [0 .. Len(ss) -> Seq(T)] :
           p[0] = << >> /\ \A k \in 1 .. Len(ss) : p[k] = p[k - 1] \o ss[k]
<1> DEFINE G == [xy \in Seq(T) \X Seq(T) |-> xy[1] \o xy[2]]
<1>1. G \in [Seq(T) \X Seq(T) -> Seq(T)]
  BY ConcatProperties
<1>2. << >> \in Seq(T)
  BY EmptySeq
<1>3. \A a, b \in Seq(T) : G[<<a, b>>] = a \o b
  OBVIOUS
<1> HIDE DEF G
<1>4. PICK p \in [0 .. Len(ss) -> Seq(T)] : Path(G, << >>, ss, p)
  BY <1>1, <1>2, PathExists
<1>5. p[0] = << >> /\ \A k \in 1 .. Len(ss) : p[k] = G[<<p[k - 1], ss[k]>>]
  BY <1>4 DEF Path
<1>6. ASSUME NEW k \in 1 .. Len(ss)
      PROVE  p[k] = p[k - 1] \o ss[k]
  <2>1. k - 1 \in 0 .. Len(ss) /\ ss[k] \in Seq(T)
    BY LenProperties, ElementOfSeq
  <2>2. p[k - 1] \in Seq(T)
    BY <1>4, <2>1
  <2> QED
    BY <1>3, <1>5, <2>1, <2>2
<1> QED
  BY <1>5, <1>6

\* The concatenation is a sequence of the same things; with one more sequence it gets
\* longer by that.
LEMMA FlattenAppend ==
  ASSUME NEW T, NEW ss \in Seq(Seq(T)), NEW s \in Seq(T)
  PROVE  /\ FlattenSeq(<< >>) = << >>
         /\ FlattenSeq(ss) \in Seq(T)
         /\ FlattenSeq(Append(ss, s)) = FlattenSeq(ss) \o s
<1> DEFINE t == Append(ss, s)
<1>1. /\ t \in Seq(Seq(T)) /\ Len(t) = Len(ss) + 1 /\ t[Len(ss) + 1] = s
      /\ \A i \in 1 .. Len(ss) : t[i] = ss[i]
      /\ Len(ss) \in Nat
  BY AppendProperties, LenProperties
<1> HIDE DEF t
<1>2. PICK p \in [0 .. Len(t) -> Seq(T)] :
        p[0] = << >> /\ \A k \in 1 .. Len(t) : p[k] = p[k - 1] \o t[k]
  BY <1>1, FlattenPathExists
<1>3. FlattenSeq(t) = p[Len(t)]
  BY <1>1, <1>2, FlattenPath
<1> DEFINE q == [k \in 0 .. Len(ss) |-> p[k]]
<1>4. q \in [0 .. Len(ss) -> Seq(T)] /\ q[0] = << >> /\ q[Len(ss)] = p[Len(ss)]
  BY <1>1, <1>2
<1>5. \A k \in 1 .. Len(ss) : q[k] = q[k - 1] \o ss[k]
  <2> SUFFICES ASSUME NEW k \in 1 .. Len(ss)
               PROVE  q[k] = q[k - 1] \o ss[k]
    OBVIOUS
  <2>1. k \in 1 .. Len(t) /\ k \in 0 .. Len(ss) /\ k - 1 \in 0 .. Len(ss)
    BY <1>1
  <2>2. p[k] = p[k - 1] \o t[k] /\ t[k] = ss[k]
    BY <1>1, <1>2, <2>1
  <2> QED
    BY <2>1, <2>2
<1> HIDE DEF q
<1>6. FlattenSeq(ss) = q[Len(ss)]
  BY <1>4, <1>5, FlattenPath
<1>7. p[Len(ss) + 1] = p[Len(ss)] \o s /\ p[Len(ss)] \in Seq(T)
  <2>1. Len(ss) + 1 \in 1 .. Len(t) /\ (Len(ss) + 1) - 1 = Len(ss) /\ Len(ss) \in 0 .. Len(t)
    BY <1>1
  <2>2. p[Len(ss) + 1] = p[(Len(ss) + 1) - 1] \o t[Len(ss) + 1]
    BY <1>2, <2>1
  <2>3. p[Len(ss)] \in Seq(T)
    BY <1>2, <2>1
  <2> QED
    BY <1>1, <2>1, <2>2, <2>3
<1>8. FlattenSeq(<< >>) = << >>
  BY EmptySeq DEF FlattenSeq
<1> QED
  BY <1>1, <1>3, <1>4, <1>6, <1>7, <1>8 DEF t

\* It is the first sequence and the concatenation of the others.
LEMMA FlattenHead ==
  ASSUME NEW T, NEW ss, ss \in Seq(Seq(T)), ss # << >>
  PROVE  /\ Head(ss) \in Seq(T) /\ Tail(ss) \in Seq(Seq(T))
         /\ FlattenSeq(Tail(ss)) \in Seq(T)
         /\ FlattenSeq(ss) = Head(ss) \o FlattenSeq(Tail(ss))
<1> DEFINE h == Head(ss)
           t == Tail(ss)
<1>1. /\ h \in Seq(T) /\ t \in Seq(Seq(T)) /\ Len(t) = Len(ss) - 1 /\ h = ss[1]
      /\ \A i \in 1 .. Len(t) : t[i] = ss[i + 1]
      /\ Len(ss) \in Nat \ {0}
  BY HeadTailProperties, EmptySeq
<1> HIDE DEF h, t
<1>2. PICK p : /\ p \in [0 .. Len(t) -> Seq(T)]
               /\ p[0] = << >> /\ \A k \in 1 .. Len(t) : p[k] = p[k - 1] \o t[k]
  <2>1. \E p \in [0 .. Len(t) -> Seq(T)] :
          p[0] = << >> /\ \A k \in 1 .. Len(t) : p[k] = p[k - 1] \o t[k]
    BY <1>1, FlattenPathExists
  <2> QED
    BY <2>1
<1>3. FlattenSeq(t) = p[Len(t)] /\ p[Len(t)] \in Seq(T)
  <2>1. Len(t) \in 0 .. Len(t)
    BY <1>1
  <2> QED
    BY <1>1, <1>2, <2>1, FlattenPath
<1> DEFINE q == [k \in 0 .. Len(ss) |-> IF k = 0 THEN << >> ELSE h \o p[k - 1]]
<1>4. q \in [0 .. Len(ss) -> Seq(T)]
  <2> SUFFICES ASSUME NEW k \in 0 .. Len(ss)
               PROVE  (IF k = 0 THEN << >> ELSE h \o p[k - 1]) \in Seq(T)
    OBVIOUS
  <2>1. CASE k = 0
    BY <2>1, EmptySeq
  <2>2. CASE k # 0
    <3>1. k - 1 \in 0 .. Len(t)
      BY <1>1, <2>2
    <3>2. p[k - 1] \in Seq(T)
      BY <1>2, <3>1
    <3>3. h \o p[k - 1] \in Seq(T)
      BY <1>1, <3>2, ConcatProperties
    <3> QED
      BY <2>2, <3>3
  <2> QED
    BY <2>1, <2>2
<1>5. q[0] = << >> /\ \A k \in 1 .. Len(ss) : q[k] = h \o p[k - 1]
  <2>1. 0 \in 0 .. Len(ss) /\ \A k \in 1 .. Len(ss) : k \in 0 .. Len(ss) /\ k # 0
    BY <1>1
  <2> QED
    BY <2>1
<1> HIDE DEF q
<1>6. ASSUME NEW k, k \in 1 .. Len(ss)
      PROVE  q[k] = q[k - 1] \o ss[k]
  <2>1. CASE k = 1
    <3>0. q[1] = h \o p[1 - 1] /\ 1 - 1 = 0
      BY <1>5, <2>1
    <3>1. q[1] = h \o << >> /\ q[0] = << >>
      BY <1>2, <1>5, <3>0
    <3>2. h \o << >> = h /\ << >> \o h = h
      BY <1>1, ConcatEmptySeq
    <3>3. q[k - 1] = << >> /\ ss[k] = h
      BY <1>1, <2>1, <3>0, <3>1
    <3> QED
      BY <2>1, <3>1, <3>2, <3>3
  <2>2. CASE k # 1
    <3>1. k \in Int /\ k - 1 \in 1 .. Len(ss) /\ k - 1 \in 1 .. Len(t)
          /\ k - 1 - 1 \in 0 .. Len(t) /\ (k - 1) + 1 = k
      BY <1>1, <1>6, <2>2
    <3>2. q[k - 1] = h \o p[k - 1 - 1]
      BY <1>5, <3>1
    <3>3. p[k - 1] = p[k - 1 - 1] \o t[k - 1]
      BY <1>2, <3>1
    <3>4. t[k - 1] = ss[k]
      BY <1>1, <3>1
    <3>5. p[k - 1 - 1] \in Seq(T)
      BY <1>2, <3>1
    <3>6. ss[k] \in Seq(T)
      BY <1>6, ElementOfSeq
    <3>7. ASSUME NEW a, a \in Seq(T), NEW b, b \in Seq(T), NEW c, c \in Seq(T)
          PROVE  (a \o b) \o c = a \o (b \o c)
      BY ONLY <3>7, ConcatAssociative
    <3>8. PICK b : b = p[k - 1 - 1]
      OBVIOUS
    <3>9. PICK c : c = ss[k]
      OBVIOUS
    <3>10. (h \o b) \o c = h \o (b \o c)
      <4>1. h \in Seq(T) /\ b \in Seq(T) /\ c \in Seq(T)
        BY <1>1, <3>5, <3>6, <3>8, <3>9
      <4> QED
        BY ONLY <3>7, <4>1
    <3>11. q[k] = h \o p[k - 1]
      BY <1>5, <1>6
    <3> QED
      BY ONLY <3>2, <3>3, <3>4, <3>8, <3>9, <3>10, <3>11
  <2> QED
    BY <2>1, <2>2
<1>7. FlattenSeq(ss) = q[Len(ss)]
  BY <1>4, <1>5, <1>6, FlattenPath
<1>8. q[Len(ss)] = h \o p[Len(t)]
  <2>1. Len(ss) \in 1 .. Len(ss) /\ Len(ss) - 1 = Len(t)
    BY <1>1
  <2>2. q[Len(ss)] = h \o p[Len(ss) - 1]
    BY <1>5, <2>1
  <2> QED
    BY <2>1, <2>2
<1> QED
  BY <1>1, <1>3, <1>7, <1>8 DEF h, t

\* The concatenation of two sequences, and of four.
LEMMA FlattenTwo ==
  ASSUME NEW T, NEW a \in Seq(T), NEW b \in Seq(T)
  PROVE  <<a, b>> \in Seq(Seq(T)) /\ FlattenSeq(<<a, b>>) = a \o b
<1>1. << >> \in Seq(Seq(T)) /\ <<a>> \in Seq(Seq(T)) /\ <<a, b>> \in Seq(Seq(T))
  OBVIOUS
<1>2. <<a>> = Append(<< >>, a) /\ <<a, b>> = Append(<<a>>, b)
  OBVIOUS
<1>3. FlattenSeq(<< >>) = << >> /\ FlattenSeq(<<a>>) = << >> \o a
  BY <1>1, <1>2, FlattenAppend
<1>4. FlattenSeq(<<a, b>>) = FlattenSeq(<<a>>) \o b
  BY <1>1, <1>2, FlattenAppend
<1>5. << >> \o a = a
  BY ConcatEmptySeq
<1> QED
  BY <1>1, <1>3, <1>4, <1>5

\* A sequence of four sequences, of which the last three are joined first.
LEMMA FlattenFour ==
  ASSUME NEW T, NEW a \in Seq(T), NEW b \in Seq(T), NEW c \in Seq(T), NEW d \in Seq(T),
         NEW ab, ab = a \o b, NEW abc, abc = ab \o c, NEW r, r = abc \o d
  PROVE  <<a, b, c, d>> \in Seq(Seq(T)) /\ FlattenSeq(<<a, b, c, d>>) = r
<1>1. <<a, b>> \in Seq(Seq(T)) /\ <<a, b, c>> \in Seq(Seq(T)) /\ <<a, b, c, d>> \in Seq(Seq(T))
  OBVIOUS
<1>2. <<a, b, c>> = Append(<<a, b>>, c) /\ <<a, b, c, d>> = Append(<<a, b, c>>, d)
  OBVIOUS
<1>3. FlattenSeq(<<a, b>>) = ab
  BY FlattenTwo
<1>4. FlattenSeq(<<a, b, c>>) = FlattenSeq(<<a, b>>) \o c
  BY <1>1, <1>2, FlattenAppend
<1>5. FlattenSeq(<<a, b, c, d>>) = FlattenSeq(<<a, b, c>>) \o d
  BY <1>1, <1>2, FlattenAppend
<1> QED
  BY <1>1, <1>3, <1>4, <1>5

\* The first sequence replaced by another.
LEMMA FlattenFirst ==
  ASSUME NEW T, NEW ss \in Seq(Seq(T)), ss # << >>, NEW s \in Seq(T)
  PROVE  FlattenSeq([ss EXCEPT ![1] = s]) = s \o FlattenSeq(Tail(ss))
<1> DEFINE t == [ss EXCEPT ![1] = s]
<1>1. Len(ss) \in Nat \ {0}
  BY EmptySeq
<1>2. /\ t \in Seq(Seq(T)) /\ Len(t) = Len(ss)
      /\ \A j \in 1 .. Len(ss) : t[j] = IF j = 1 THEN s ELSE ss[j]
  <2>1. 1 \in 1 .. Len(ss)
    BY <1>1
  <2> QED
    BY <2>1, ExceptSeq
<1> HIDE DEF t
<1>3. t # << >> /\ Head(t) = s /\ Tail(t) \in Seq(Seq(T))
  <2>1. t # << >> /\ t[1] = s
    BY <1>1, <1>2, EmptySeq
  <2>2. Tail(t) \in Seq(Seq(T)) /\ Head(t) = t[1]
    BY <1>2, <2>1, HeadTailProperties
  <2> QED
    BY <2>1, <2>2
<1>4. Tail(t) = Tail(ss)
  <2>1. Len(Tail(t)) = Len(Tail(ss)) /\ Tail(ss) \in Seq(Seq(T)) /\ Len(Tail(ss)) = Len(ss) - 1
        /\ \A i \in 1 .. Len(Tail(ss)) : Tail(ss)[i] = ss[i + 1]
    BY <1>1, <1>2, <1>3, HeadTailProperties
  <2>2. \A i \in 1 .. Len(Tail(t)) : Tail(t)[i] = t[i + 1]
    BY <1>2, <1>3, HeadTailProperties
  <2>3. \A i \in 1 .. Len(Tail(t)) : Tail(t)[i] = Tail(ss)[i]
    <3> SUFFICES ASSUME NEW i \in 1 .. Len(Tail(t))
                 PROVE  Tail(t)[i] = Tail(ss)[i]
      OBVIOUS
    <3>1. i + 1 \in 1 .. Len(ss) /\ i + 1 # 1 /\ i \in 1 .. Len(Tail(ss))
      BY <1>1, <2>1
    <3> QED
      BY <1>2, <2>1, <2>2, <3>1
  <2> QED
    BY <1>3, <2>1, <2>3, SeqEqual
<1>5. FlattenSeq(t) = Head(t) \o FlattenSeq(Tail(t))
  BY <1>2, <1>3, FlattenHead
<1> QED
  BY <1>3, <1>4, <1>5 DEF t

\* The last sequence made longer.
LEMMA FlattenLast ==
  ASSUME NEW T, NEW ss, ss \in Seq(Seq(T)), ss # << >>, NEW m, m \in Seq(T)
  PROVE  FlattenSeq([ss EXCEPT ![Len(ss)] = Last(ss) \o m]) = FlattenSeq(ss) \o m
<1> DEFINE l == Last(ss)
           f == Front(ss)
<1>1. f \in Seq(Seq(T)) /\ l \in Seq(T) /\ ss = Append(f, l)
  BY FrontAndLast
<1>2. l \o m \in Seq(T)
  BY <1>1, ConcatProperties
<1>3. [ss EXCEPT ![Len(ss)] = l \o m] = Append(f, l \o m)
  BY <1>2, LastReplaced
<1> HIDE DEF f, l
<1>4. FlattenSeq(Append(f, l \o m)) = FlattenSeq(f) \o (l \o m) /\ FlattenSeq(f) \in Seq(T)
  BY <1>1, <1>2, FlattenAppend
<1>5. FlattenSeq(Append(f, l)) = FlattenSeq(f) \o l
  BY <1>1, FlattenAppend
<1>6. (FlattenSeq(f) \o l) \o m = FlattenSeq(f) \o (l \o m)
  <2>1. ASSUME NEW a, a \in Seq(T), NEW b, b \in Seq(T), NEW c, c \in Seq(T)
        PROVE  (a \o b) \o c = a \o (b \o c)
    BY ONLY <2>1, ConcatAssociative
  <2>2. FlattenSeq(f) \in Seq(T) /\ l \in Seq(T) /\ m \in Seq(T)
    BY <1>1, <1>4
  <2> QED
    BY ONLY <2>1, <2>2
<1> QED
  BY <1>1, <1>3, <1>4, <1>5, <1>6 DEF l

\* Sequences of one element each.
LEMMA FlattenSingles ==
  ASSUME NEW T, NEW x \in Seq(T)
  PROVE  FlattenSeq([i \in 1 .. Len(x) |-> <<x[i]>>]) = x
<1> DEFINE ss == [i \in 1 .. Len(x) |-> <<x[i]>>]
           p == [k \in 0 .. Len(x) |-> SubSeq(x, 1, k)]
<1>1. Len(x) \in Nat /\ \A i \in 1 .. Len(x) : x[i] \in T
  BY LenProperties, ElementOfSeq
<1>2. ss \in Seq(Seq(T)) /\ Len(ss) = Len(x)
  BY <1>1
<1>3. \A k \in 0 .. Len(x) : SubSeq(x, 1, k) \in Seq(T)
  BY PrefixOf
<1>4. p \in [0 .. Len(ss) -> Seq(T)] /\ p[0] = << >> /\ p[Len(x)] = x
  <2>1. SubSeq(x, 1, 0) = << >> /\ SubSeq(x, 1, Len(x)) = x
    BY SubSeqEmpty, SubSeqFull
  <2>2. 0 \in 0 .. Len(x) /\ Len(x) \in 0 .. Len(x)
    BY <1>1
  <2> QED
    BY <1>2, <1>3, <2>1, <2>2
<1>5. ASSUME NEW k \in 1 .. Len(ss)
      PROVE  p[k] = p[k - 1] \o ss[k]
  <2>1. k \in 1 .. Len(x) /\ k \in 0 .. Len(x) /\ k - 1 \in 0 .. Len(x)
    BY <1>1, <1>2
  <2>2. Append(SubSeq(x, 1, k - 1), x[k]) = SubSeq(x, 1, k)
    BY <2>1, PrefixGrows
  <2>3. Append(SubSeq(x, 1, k - 1), x[k]) = SubSeq(x, 1, k - 1) \o <<x[k]>>
    BY <1>1, <1>3, <2>1, AppendIsConcat
  <2>4. p[k] = SubSeq(x, 1, k) /\ p[k - 1] = SubSeq(x, 1, k - 1) /\ ss[k] = <<x[k]>>
    BY <2>1
  <2> QED
    BY <2>2, <2>3, <2>4
<1> HIDE DEF p
<1>6. FlattenSeq(ss) = p[Len(ss)]
  BY <1>2, <1>4, <1>5, FlattenPath
<1> QED
  BY <1>2, <1>4, <1>6

-----------------------------------------------------------------------------
(* Numbers: their bytes, the lowest first, and the number of these bytes.   *)

\* How many numbers a width can hold.
Limit(w) ==
  CASE w = 1 -> Base [] w = 2 -> Base * Base [] w = 3 -> Base * Base * Base
    [] w = 4 -> Word [] w = 8 -> Long

\* The widths.
Widths == {1, 2, 3, 4, 8}

\* What is left of a number after each division.
Rests(i, w, q) == q[0] = i /\ \A k \in 1 .. w : q[k] = q[k - 1] \div Base

\* A word has two values or more, and so has what eight bytes can hold.
LEMMA WordAndLong ==
  /\ Base \in Nat /\ Base > 1
  /\ Word \in Nat /\ Word > 1 /\ Long \in Nat /\ Long >= Word
  /\ Base * Base \in Nat /\ Base * Base * Base \in Nat
  /\ Base * Base <= Word /\ Base * Base * Base <= Word /\ Base <= Word
<1>1. Base \in Nat /\ Base > 1
  BY PartAssumption
<1>2. PICK b2 \in Nat : b2 = Base * Base
  BY <1>1
<1>3. b2 >= Base
  BY ONLY <1>1, <1>2
<1>4. PICK b3 \in Nat : b3 = b2 * Base
  BY <1>1
<1>5. b3 >= b2
  BY ONLY <1>1, <1>4
<1>6. PICK b4 \in Nat : b4 = b3 * Base
  BY <1>1
<1>7. b4 >= b3
  BY ONLY <1>1, <1>6
<1>8. Word = b4
  BY <1>2, <1>4, <1>6 DEF Word
<1>9. Long \in Nat /\ Long >= Word
  <2>1. Word \in Nat /\ Word > 0
    BY <1>1, <1>3, <1>5, <1>7, <1>8
  <2>2. Word * Word \in Nat /\ Word * Word >= Word
    BY ONLY <2>1
  <2> QED
    BY <2>2 DEF Long
<1> QED
  BY <1>1, <1>2, <1>3, <1>4, <1>5, <1>6, <1>7, <1>8, <1>9

\* What is left of a number, and its bytes.
LEMMA RestsExist ==
  ASSUME NEW i \in Int, NEW w \in Nat
  PROVE  \E q : /\ q \in [0 .. w -> Int] /\ Rests(i, w, q)
                /\ LittleEndian(i, w) = [k \in 1 .. w |-> q[k - 1] % Base]
<1> DEFINE G == [ab \in Int \X Int |-> ab[1] \div Base]
           list == [k \in 1 .. w |-> 0]
           Is(f) == f = [k \in 0 .. w |-> IF k = 0 THEN i ELSE f[k - 1] \div Base]
           h == CHOOSE f : Is(f)
<1>1. Base \in Nat \ {0}
  BY WordAndLong
<1>2. \A n \in Int : n \div Base \in Int
  BY <1>1
<1>3. list \in Seq(Int) /\ Len(list) = w /\ \A k \in 1 .. w : list[k] = 0
  OBVIOUS
<1>4. G \in [Int \X Int -> Int] /\ \A a \in Int : G[<<a, 0>>] = a \div Base
  BY <1>2
<1> HIDE DEF G, list
<1>5. PICK p : p \in [0 .. w -> Int] /\ Path(G, i, list, p)
  <2>1. \E p \in [0 .. Len(list) -> Int] : Path(G, i, list, p)
    BY <1>3, <1>4, PathExists
  <2> QED
    BY <1>3, <2>1
<1>6. p[0] = i /\ \A k \in 1 .. w : p[k] = G[<<p[k - 1], list[k]>>]
  BY <1>3, <1>5 DEF Path
<1>7. ASSUME NEW k, k \in 1 .. w
      PROVE  p[k] = p[k - 1] \div Base
  <2>1. k - 1 \in 0 .. w
    BY <1>7
  <2>2. p[k - 1] \in Int
    BY <1>5, <2>1
  <2>3. p[k] = G[<<p[k - 1], 0>>]
    BY <1>3, <1>6, <1>7
  <2> QED
    BY <1>4, <2>2, <2>3
<1>8. ASSUME NEW k, k \in 0 .. w
      PROVE  p[k] = IF k = 0 THEN i ELSE p[k - 1] \div Base
  <2>1. k # 0 => k \in 1 .. w
    BY <1>8
  <2> QED
    BY <1>6, <1>7, <2>1
<1>9. Is(p)
  BY <1>5, <1>8
<1>10. Is(h)
  BY <1>9
<1>11. LittleEndian(i, w) = [k \in 1 .. w |-> h[k - 1] % Base]
  BY DEF LittleEndian
<1> HIDE DEF h
<1>12. h[0] = i /\ \A k \in 1 .. w : h[k] = h[k - 1] \div Base
  <2>1. \A k \in 0 .. w : h[k] = IF k = 0 THEN i ELSE h[k - 1] \div Base
    BY <1>10
  <2>2. 0 \in 0 .. w /\ \A k \in 1 .. w : k \in 0 .. w /\ k # 0
    OBVIOUS
  <2> QED
    BY <2>1, <2>2
<1>13. \A k \in 0 .. w : h[k] \in Int
  <2> DEFINE P == {k \in 0 .. w : h[k] \in Int}
  <2>1. 0 \in P
    BY <1>12
  <2>2. ASSUME NEW k, k \in 0 .. w - 1, k \in P
        PROVE  k + 1 \in P
    <3>1. k + 1 \in 1 .. w /\ k + 1 \in 0 .. w /\ (k + 1) - 1 = k
      BY <2>2
    <3>2. h[k + 1] = h[(k + 1) - 1] \div Base
      BY <1>12, <3>1
    <3>3. h[k] \in Int
      BY <2>2
    <3> QED
      BY <1>2, <3>1, <3>2, <3>3
  <2>3. \A k \in 0 .. w - 1 : k \in P => k + 1 \in P
    BY <2>2
  <2> HIDE DEF P
  <2>4. \A k \in 0 .. w : k \in P
    BY <2>1, <2>3, Stepwise
  <2> QED
    BY <2>4 DEF P
<1>14. h \in [0 .. w -> Int]
  BY <1>10, <1>13
<1> QED
  BY <1>11, <1>12, <1>14 DEF Rests

\* Of a natural number there are natural numbers left.
LEMMA RestsNat ==
  ASSUME NEW i, i \in Nat, NEW w, w \in Nat, NEW q, Rests(i, w, q)
  PROVE  \A k \in 0 .. w : q[k] \in Nat
<1> DEFINE P == {k \in 0 .. w : q[k] \in Nat}
<1>1. 0 \in P
  BY DEF Rests
<1>2. ASSUME NEW k, k \in 0 .. w - 1, k \in P
      PROVE  k + 1 \in P
  <2>1. k + 1 \in 1 .. w /\ k + 1 \in 0 .. w /\ (k + 1) - 1 = k
    BY <1>2
  <2>2. q[k + 1] = q[(k + 1) - 1] \div Base
    BY <2>1 DEF Rests
  <2>3. q[k] \in Nat /\ Base \in Nat \ {0}
    BY <1>2, WordAndLong
  <2>4. q[k] \div Base \in Nat
    BY <2>3, DivisionNat
  <2> QED
    BY <2>1, <2>2, <2>4
<1>3. \A k \in 0 .. w - 1 : k \in P => k + 1 \in P
  BY <1>2
<1> HIDE DEF P
<1>4. \A k \in 0 .. w : k \in P
  BY <1>1, <1>3, Stepwise
<1> QED
  BY <1>4 DEF P

\* A number below Base * m is divided into one below m.
LEMMA Narrower ==
  ASSUME NEW n \in Nat, NEW m \in Nat, n < Base * m
  PROVE  n \div Base \in Nat /\ n \div Base < m
<1>1. Base \in Nat \ {0}
  BY WordAndLong
<1>2. n \div Base \in Nat
  BY <1>1, DivisionNat
<1>3. PICK d \in Nat : d = n \div Base
  BY <1>2
<1>4. PICK r \in 0 .. Base - 1 : n = d * Base + r
  <2>1. n % Base \in 0 .. Base - 1 /\ n = (n \div Base) * Base + (n % Base)
    BY <1>1, Division
  <2> QED
    BY <1>3, <2>1
<1>5. d < m
  <2> SUFFICES ASSUME d >= m PROVE FALSE
    BY <1>3
  <2>1. d * Base >= m * Base
    BY <1>1, Scaled
  <2>2. m * Base = Base * m /\ d * Base \in Int /\ m * Base \in Int
    BY <1>1
  <2> QED
    BY <1>1, <1>4, <2>1, <2>2
<1> QED
  BY <1>2, <1>3, <1>5

\* Nothing is left of a number that its width can hold.
LEMMA NothingLeft ==
  ASSUME NEW w \in Widths, NEW i \in Nat, i < Limit(w), NEW q, Rests(i, w, q)
  PROVE  q[w] = 0
<1> DEFINE b1 == Base * 1
           b2 == Base * b1
           b3 == Base * b2
           b4 == Base * b3
           b5 == Base * b4
           b6 == Base * b5
           b7 == Base * b6
           b8 == Base * b7
<1>1. Base \in Nat /\ Base > 1
  BY WordAndLong
<1>2. /\ b1 \in Nat /\ b2 \in Nat /\ b3 \in Nat /\ b4 \in Nat
      /\ b5 \in Nat /\ b6 \in Nat /\ b7 \in Nat /\ b8 \in Nat
  BY <1>1
<1>3. Limit(1) = b1 /\ Limit(2) = b2 /\ Limit(3) = b3 /\ Limit(4) = b4 /\ Limit(8) = b8
  BY <1>1 DEF Limit, Word, Long
<1> HIDE DEF b1, b2, b3, b4, b5, b6, b7, b8
<1>4. w \in Nat /\ \A k \in 0 .. w : q[k] \in Nat
  <2>1. w \in Nat
    BY DEF Widths
  <2> QED
    BY <2>1, RestsNat
<1>5. q[0] = i /\ \A k \in 1 .. w : q[k] = q[k - 1] \div Base
  BY DEF Rests
<1>6. ASSUME NEW k, k \in 1 .. w, NEW m, m \in Nat, q[k - 1] < Base * m
      PROVE  q[k] < m
  <2>1. k - 1 \in 0 .. w
    BY <1>4, <1>6
  <2>2. q[k - 1] \in Nat
    BY <1>4, <2>1
  <2> QED
    BY <1>5, <1>6, <2>2, Narrower
<1>7. ASSUME NEW k, k \in 1 .. w, q[k] < 1
      PROVE  q[k] = 0
  <2>1. k \in 0 .. w
    BY <1>7
  <2>2. q[k] \in Nat
    BY <1>4, <2>1
  <2> QED
    BY <1>7, <2>2
<1>8. CASE w = 1
  <2>1. q[1 - 1] < Base * 1 /\ 1 \in 1 .. w
    BY <1>3, <1>5, <1>8 DEF b1
  <2>2. q[1] < 1
    BY <1>6, <2>1
  <2> QED
    BY <1>7, <1>8, <2>1, <2>2
<1>9. CASE w = 2
  <2>1. q[1 - 1] < Base * b1 /\ 1 \in 1 .. w /\ 2 \in 1 .. w
    BY <1>3, <1>5, <1>9 DEF b2
  <2>2. q[2 - 1] < Base * 1
    BY <1>2, <1>6, <2>1 DEF b1
  <2>3. q[2] < 1
    BY <1>6, <2>1, <2>2
  <2> QED
    BY <1>7, <1>9, <2>1, <2>3
<1>10. CASE w = 3
  <2>1. q[1 - 1] < Base * b2 /\ 1 \in 1 .. w /\ 2 \in 1 .. w /\ 3 \in 1 .. w
    BY <1>3, <1>5, <1>10 DEF b3
  <2>2. q[2 - 1] < Base * b1
    BY <1>2, <1>6, <2>1 DEF b2
  <2>3. q[3 - 1] < Base * 1
    BY <1>2, <1>6, <2>1, <2>2 DEF b1
  <2>4. q[3] < 1
    BY <1>6, <2>1, <2>3
  <2> QED
    BY <1>7, <1>10, <2>1, <2>4
<1>11. CASE w = 4
  <2>1. q[1 - 1] < Base * b3 /\ 1 \in 1 .. w /\ 2 \in 1 .. w /\ 3 \in 1 .. w /\ 4 \in 1 .. w
    BY <1>3, <1>5, <1>11 DEF b4
  <2>2. q[2 - 1] < Base * b2
    BY <1>2, <1>6, <2>1 DEF b3
  <2>3. q[3 - 1] < Base * b1
    BY <1>2, <1>6, <2>1, <2>2 DEF b2
  <2>4. q[4 - 1] < Base * 1
    BY <1>2, <1>6, <2>1, <2>3 DEF b1
  <2>5. q[4] < 1
    BY <1>6, <2>1, <2>4
  <2> QED
    BY <1>7, <1>11, <2>1, <2>5
<1>12. CASE w = 8
  <2>1. q[1 - 1] < Base * b7 /\ \A k \in 1 .. 8 : k \in 1 .. w
    BY <1>3, <1>5, <1>12 DEF b8
  <2>2. q[2 - 1] < Base * b6
    BY <1>2, <1>6, <2>1 DEF b7
  <2>3. q[3 - 1] < Base * b5
    BY <1>2, <1>6, <2>1, <2>2 DEF b6
  <2>4. q[4 - 1] < Base * b4
    BY <1>2, <1>6, <2>1, <2>3 DEF b5
  <2>5. q[5 - 1] < Base * b3
    BY <1>2, <1>6, <2>1, <2>4 DEF b4
  <2>6. q[6 - 1] < Base * b2
    BY <1>2, <1>6, <2>1, <2>5 DEF b3
  <2>7. q[7 - 1] < Base * b1
    BY <1>2, <1>6, <2>1, <2>6 DEF b2
  <2>8. q[8 - 1] < Base * 1
    BY <1>2, <1>6, <2>1, <2>7 DEF b1
  <2>9. q[8] < 1 /\ 8 \in 1 .. w
    BY <1>6, <2>1, <2>8
  <2> QED
    BY <1>7, <1>12, <2>9
<1> QED
  BY <1>8, <1>9, <1>10, <1>11, <1>12 DEF Widths

\* A number takes as many bytes as its width.
LEMMA LittleEndianSeq ==
  ASSUME NEW i \in Int, NEW w \in Nat
  PROVE  LittleEndian(i, w) \in Seq(Byte) /\ Len(LittleEndian(i, w)) = w
<1>1. PICK q : /\ q \in [0 .. w -> Int]
               /\ LittleEndian(i, w) = [k \in 1 .. w |-> q[k - 1] % Base]
  BY RestsExist
<1>2. \A n \in Int : n % Base \in Nat
  BY WordAndLong
<1>3. \A k \in 1 .. w : q[k - 1] % Base \in Nat
  <2> SUFFICES ASSUME NEW k \in 1 .. w
               PROVE  q[k - 1] % Base \in Nat
    OBVIOUS
  <2>1. k - 1 \in 0 .. w
    OBVIOUS
  <2>2. q[k - 1] \in Int
    BY <1>1, <2>1
  <2> QED
    BY <1>2, <2>2
<1> DEFINE b == [k \in 1 .. w |-> q[k - 1] % Base]
<1>4. b \in Seq(Nat) /\ Len(b) = w
  BY <1>3
<1> QED
  BY <1>1, <1>4 DEF Byte

\* Are these bytes at that place?
At(s, p, e) == \A k \in 1 .. Len(e) : s[p + (k - 1)] = e[k]

\* The bytes of a number, wherever they are, are read as that number.
LEMMA NumberRead ==
  ASSUME NEW s, NEW p, p \in Nat, NEW w, w \in Widths, NEW i, i \in Nat, i < Limit(w),
         At(s, p, LittleEndian(i, w))
  PROVE  NumberAt(s, p, w) = i
<1>1. w \in Nat /\ Base \in Nat \ {0}
  BY WordAndLong DEF Widths
<1>a. \A k \in 1 .. w : s[p + (k - 1)] = LittleEndian(i, w)[k]
  <2>1. i \in Int
    OBVIOUS
  <2>2. Len(LittleEndian(i, w)) = w
    BY <1>1, <2>1, LittleEndianSeq
  <2> QED
    BY <2>2 DEF At
<1>2. PICK q : /\ q \in [0 .. w -> Int] /\ Rests(i, w, q)
               /\ LittleEndian(i, w) = [k \in 1 .. w |-> q[k - 1] % Base]
  <2>1. i \in Int
    OBVIOUS
  <2> QED
    BY <1>1, <2>1, RestsExist
<1>3. q[w] = 0
  BY <1>2, NothingLeft
<1>4. ASSUME NEW j, j \in 0 .. w
      PROVE  q[j] \in Nat
  BY <1>1, <1>2, <1>4, RestsNat
<1>5. q[0] = i /\ \A k \in 1 .. w : q[k] = q[k - 1] \div Base
  BY <1>2 DEF Rests
<1> DEFINE Is(f) == f = [k \in 0 .. w |-> IF k = 0 THEN 0 ELSE f[k - 1] * Base + s[p + w - k]]
           h == CHOOSE f : Is(f)
           g == [k \in 0 .. w |-> q[w - k]]
<1>6. NumberAt(s, p, w) = h[w]
  BY DEF NumberAt
<1>7. ASSUME NEW k, k \in 1 .. w
      PROVE  q[w - k] = q[w - (k - 1)] * Base + s[p + w - k]
  <2>1. k \in Int /\ w - k \in 0 .. w /\ w - (k - 1) \in 1 .. w /\ (w - (k - 1)) - 1 = w - k
    BY <1>1, <1>7
  <2>2. p + w - k = p + ((w - (k - 1)) - 1)
    BY <1>1, <2>1
  <2>3. s[p + ((w - (k - 1)) - 1)] = LittleEndian(i, w)[w - (k - 1)]
    BY <1>a, <2>1
  <2>4. LittleEndian(i, w)[w - (k - 1)] = q[(w - (k - 1)) - 1] % Base
    BY <1>2, <2>1
  <2>5. q[w - (k - 1)] = q[(w - (k - 1)) - 1] \div Base
    BY <1>5, <2>1
  <2>6. PICK x \in Nat : x = q[w - k]
    BY <1>4, <2>1
  <2>7. x = (x \div Base) * Base + (x % Base)
    BY <1>1, Division
  <2> QED
    BY <2>1, <2>2, <2>3, <2>4, <2>5, <2>6, <2>7
<1>8. ASSUME NEW k, k \in 0 .. w
      PROVE  g[k] = IF k = 0 THEN 0 ELSE g[k - 1] * Base + s[p + w - k]
  <2>1. CASE k = 0
    <3>1. w - 0 = w
      BY <1>1
    <3> QED
      BY <1>3, <1>8, <2>1, <3>1
  <2>2. CASE k # 0
    <3>1. k \in 1 .. w /\ k - 1 \in 0 .. w
      BY <1>1, <1>8, <2>2
    <3>2. g[k] = q[w - k] /\ g[k - 1] = q[w - (k - 1)]
      BY <1>8, <3>1
    <3> QED
      BY <1>7, <2>2, <3>1, <3>2
  <2> QED
    BY <2>1, <2>2
<1>9. Is(g)
  BY <1>8
<1>10. Is(h)
  BY <1>9
<1> HIDE DEF h, g
<1> DEFINE P == {k \in 0 .. w : h[k] = q[w - k]}
<1>11. \A k \in 0 .. w : h[k] = IF k = 0 THEN 0 ELSE h[k - 1] * Base + s[p + w - k]
  BY <1>10
<1>12. 0 \in P
  <2>1. 0 \in 0 .. w /\ w - 0 = w
    BY <1>1
  <2>2. h[0] = 0
    BY <1>11, <2>1
  <2> QED
    BY <1>3, <2>1, <2>2
<1>13. ASSUME NEW k, k \in 0 .. w - 1, k \in P
       PROVE  k + 1 \in P
  <2>1. k + 1 \in 0 .. w /\ k + 1 \in 1 .. w /\ k + 1 # 0 /\ (k + 1) - 1 = k
    BY <1>1, <1>13
  <2>2. h[k + 1] = h[(k + 1) - 1] * Base + s[p + w - (k + 1)]
    BY <1>11, <2>1
  <2>3. q[w - (k + 1)] = q[w - ((k + 1) - 1)] * Base + s[p + w - (k + 1)]
    BY <1>7, <2>1
  <2>4. h[k] = q[w - k]
    BY <1>13
  <2> QED
    BY <2>1, <2>2, <2>3, <2>4
<1>14. \A k \in 0 .. w - 1 : k \in P => k + 1 \in P
  BY <1>13
<1>15. w \in P
  <2> HIDE DEF P
  <2>1. \A k \in 0 .. w : k \in P
    BY <1>1, <1>12, <1>14, Stepwise
  <2> QED
    BY <1>1, <2>1
<1>16. w - w = 0
  BY <1>1
<1> QED
  BY <1>5, <1>6, <1>15, <1>16

\* The least number ends with a byte that is zero, and so has the bytes of zero.
LEMMA LeastIsZero ==
  ASSUME NEW i \in Int, 2 * i = -Long
  PROVE  LittleEndian(i, 1) = LittleEndian(0, 1)
<1>1. Base \in Nat \ {0}
  BY WordAndLong
<1>2. i % Base = 0
  <2>1. PICK d \in Int, r \in 0 .. Base - 1 : d = i \div Base /\ r = i % Base /\ i = d * Base + r
    BY <1>1, Division
  <2>2. PICK m \in Nat : m = Base * Base * Base * Word
    BY <1>1, WordAndLong
  <2>3. Long = Base * m
    BY <1>1, <2>2 DEF Long, Word
  <2>4. 2 * r = Base * (-m - 2 * d)
    BY <1>1, <2>1, <2>3
  <2>5. PICK z \in Int : z = -m - 2 * d
    <3>1. -m - 2 * d \in Int
      BY <2>1, <2>2
    <3> QED
      BY <3>1
  <2>6. 0 <= 2 * r /\ 2 * r < 2 * Base /\ 2 * r = Base * z
    BY <1>1, <2>4, <2>5
  <2>7. z = 0 \/ z = 1
    <3>1. z < 2
      <4> SUFFICES ASSUME z >= 2 PROVE FALSE
        BY <2>5
      <4>1. 2 * Base <= z * Base
        BY <1>1, Scaled
      <4>2. z * Base = Base * z /\ z * Base \in Int
        BY <1>1
      <4> QED
        BY <1>1, <2>6, <4>1, <4>2
    <3>2. z > -1
      <4> SUFFICES ASSUME z <= -1 PROVE FALSE
        BY <2>5
      <4>1. z * Base <= (-1) * Base
        BY <1>1, Scaled
      <4>2. z * Base = Base * z /\ z * Base \in Int /\ (-1) * Base < 0
        BY <1>1
      <4> QED
        BY <1>1, <2>6, <4>1, <4>2
    <3> QED
      BY <3>1, <3>2
  <2>8. z # 1
    <3> SUFFICES ASSUME z = 1 PROVE FALSE
      OBVIOUS
    <3>1. Base = 2 * r /\ m = -1 - 2 * d
      BY <1>1, <2>5, <2>6
    <3>2. PICK c \in Int : c = r * Base * Base * Word
      BY <1>1, WordAndLong
    <3>3. m = 2 * c
      <4>1. PICK v \in Int : v = Base * Base * Word
        BY <1>1, WordAndLong
      <4>2. m = Base * v /\ c = r * v
        BY <1>1, <2>2, <3>2, <4>1, WordAndLong
      <4>3. (2 * r) * v = 2 * (r * v)
        OBVIOUS
      <4> QED
        BY <3>1, <4>2, <4>3
    <3> QED
      BY <3>1, <3>3
  <2>9. z = 0
    BY <2>7, <2>8
  <2>10. Base * 0 = 0
    BY <1>1
  <2> QED
    BY <2>1, <2>6, <2>9, <2>10
<1>3. 0 % Base = 0
  BY <1>1
<1>4. ASSUME NEW n, n \in Int
      PROVE  LittleEndian(n, 1) = [k \in 1 .. 1 |-> n % Base]
  <2>1. PICK q : /\ Rests(n, 1, q)
                 /\ LittleEndian(n, 1) = [k \in 1 .. 1 |-> q[k - 1] % Base]
    <3>1. 1 \in Nat
      OBVIOUS
    <3>2. \E q : /\ q \in [0 .. 1 -> Int] /\ Rests(n, 1, q)
                 /\ LittleEndian(n, 1) = [k \in 1 .. 1 |-> q[k - 1] % Base]
      BY <1>4, <3>1, RestsExist
    <3> QED
      BY <3>2
  <2>2. \A k \in 1 .. 1 : q[k - 1] = n
    BY <2>1 DEF Rests
  <2> QED
    BY <2>1, <2>2
<1> QED
  BY <1>2, <1>3, <1>4

-----------------------------------------------------------------------------
(* Encodings: where a reader finds the bytes of a value, it reads the       *)
(* value.                                                                   *)

\* Bytes that follow others are at the place after them.
LEMMA AtConcat ==
  ASSUME NEW s, NEW p, p \in Nat, NEW a, a \in Seq(Byte), NEW b, b \in Seq(Byte), At(s, p, a \o b)
  PROVE  At(s, p, a) /\ At(s, p + Len(a), b)
<1>1. Len(a) \in Nat /\ Len(b) \in Nat
  BY LenProperties
<1>2. /\ Len(a \o b) = Len(a) + Len(b)
      /\ \A k \in 1 .. Len(a) + Len(b) : (a \o b)[k] = IF k <= Len(a) THEN a[k] ELSE b[k - Len(a)]
  BY ConcatProperties
<1>3. \A k \in 1 .. Len(a) + Len(b) : s[p + (k - 1)] = (a \o b)[k]
  BY <1>2 DEF At
<1>4. ASSUME NEW k \in 1 .. Len(a)
      PROVE  s[p + (k - 1)] = a[k]
  <2>1. k \in 1 .. Len(a) + Len(b) /\ k <= Len(a)
    BY <1>1
  <2> QED
    BY <1>2, <1>3, <2>1
<1>5. ASSUME NEW k \in 1 .. Len(b)
      PROVE  s[(p + Len(a)) + (k - 1)] = b[k]
  <2>1. Len(a) + k \in 1 .. Len(a) + Len(b) /\ ~(Len(a) + k <= Len(a)) /\ (Len(a) + k) - Len(a) = k
    BY <1>1
  <2>2. s[p + ((Len(a) + k) - 1)] = (a \o b)[Len(a) + k]
    BY <1>3, <2>1
  <2>3. (a \o b)[Len(a) + k] = b[k]
    BY <1>2, <2>1
  <2>4. p + ((Len(a) + k) - 1) = (p + Len(a)) + (k - 1)
    BY <1>1
  <2> QED
    BY <2>2, <2>3, <2>4
<1> QED
  BY <1>4, <1>5 DEF At

\* A type is a byte, and tells the width of what follows.
LEMMA Types ==
  /\ \A w \in Widths :
       /\ Type("uint", w) \in 2 .. 10 /\ WidthOf("uint", Type("uint", w)) = w
       /\ Type("nint", w) \in 27 .. 31 /\ WidthOf("nint", Type("nint", w)) = w
       /\ Type("string_lib", w) \in 22 .. 26 /\ WidthOf("string_lib", Type("string_lib", w)) = w
  /\ \A w \in 1 .. 3 :
       /\ Type("array", w) \in 16 .. 18 /\ WidthOf("array", Type("array", w)) = w
       /\ Type("string", w) \in 13 .. 15 /\ WidthOf("string", Type("string", w)) = w
  /\ Type("float", 4) = 11
<1>1. \A w \in Widths :
        /\ Type("uint", w) = IF w = 8 THEN 10 ELSE 2 * w
        /\ Type("nint", w) = IF w = 8 THEN 31 ELSE 26 + w
        /\ Type("string_lib", w) = IF w = 8 THEN 26 ELSE 21 + w
        /\ Type("array", w) = 15 + w
        /\ Type("string", w) = 12 + w
  BY DEF Type
<1>2. Type("float", 4) = 11
  BY DEF Type
<1>3. ASSUME NEW w \in Widths
      PROVE  /\ Type("uint", w) \in 2 .. 10 /\ WidthOf("uint", Type("uint", w)) = w
             /\ Type("nint", w) \in 27 .. 31 /\ WidthOf("nint", Type("nint", w)) = w
             /\ Type("string_lib", w) \in 22 .. 26
             /\ WidthOf("string_lib", Type("string_lib", w)) = w
  <2>1. \A v \in Widths : Type("uint", v) = Type("uint", w) => v = w
    BY <1>1 DEF Widths
  <2>2. \A v \in Widths : Type("nint", v) = Type("nint", w) => v = w
    BY <1>1 DEF Widths
  <2>3. \A v \in Widths : Type("string_lib", v) = Type("string_lib", w) => v = w
    BY <1>1 DEF Widths
  <2>4. WidthOf("uint", Type("uint", w)) = w
    BY <2>1 DEF WidthOf, Widths
  <2>5. WidthOf("nint", Type("nint", w)) = w
    BY <2>2 DEF WidthOf, Widths
  <2>6. WidthOf("string_lib", Type("string_lib", w)) = w
    BY <2>3 DEF WidthOf, Widths
  <2>7. Type("uint", w) \in 2 .. 10 /\ Type("nint", w) \in 27 .. 31 /\ Type("string_lib", w) \in 22 .. 26
    BY <1>1 DEF Widths
  <2> QED
    BY <2>4, <2>5, <2>6, <2>7
<1>4. ASSUME NEW w \in 1 .. 3
      PROVE  /\ Type("array", w) \in 16 .. 18 /\ WidthOf("array", Type("array", w)) = w
             /\ Type("string", w) \in 13 .. 15 /\ WidthOf("string", Type("string", w)) = w
  <2>1. w \in Widths
    BY DEF Widths
  <2>2. \A v \in Widths : Type("array", v) = Type("array", w) => v = w
    BY <1>1, <2>1 DEF Widths
  <2>3. \A v \in Widths : Type("string", v) = Type("string", w) => v = w
    BY <1>1, <2>1 DEF Widths
  <2>4. WidthOf("array", Type("array", w)) = w
    BY <2>1, <2>2 DEF WidthOf, Widths
  <2>5. WidthOf("string", Type("string", w)) = w
    BY <2>1, <2>3 DEF WidthOf, Widths
  <2>6. Type("array", w) \in 16 .. 18 /\ Type("string", w) \in 13 .. 15
    BY <1>1, <2>1
  <2> QED
    BY <2>4, <2>5, <2>6
<1> QED
  BY <1>2, <1>3, <1>4

\* A number is given a width that can hold it.
LEMMA WidthHolds ==
  ASSUME NEW i \in Nat, i < Long, NEW top \in Int, top <= Word
  PROVE  Width(i, top) \in Widths /\ i < Limit(Width(i, top))
<1>1. /\ Limit(1) = Base /\ Limit(2) = Base * Base /\ Limit(3) = Base * Base * Base
      /\ Limit(4) = Word /\ Limit(8) = Long
  BY DEF Limit
<1>2. Word \in Nat /\ Base \in Nat /\ Base * Base \in Nat /\ Base * Base * Base \in Nat /\ Long \in Nat
  BY WordAndLong
<1>3. CASE i < Base
  <2>1. Width(i, top) = 1
    BY <1>3 DEF Width
  <2> QED
    BY <1>1, <1>3, <2>1 DEF Widths
<1>4. CASE ~(i < Base) /\ i < Base * Base
  <2>1. Width(i, top) = 2
    BY <1>4 DEF Width
  <2> QED
    BY <1>1, <1>4, <2>1 DEF Widths
<1>5. CASE ~(i < Base) /\ ~(i < Base * Base) /\ i < Base * Base * Base
  <2>1. Width(i, top) = 3
    BY <1>5 DEF Width
  <2> QED
    BY <1>1, <1>5, <2>1 DEF Widths
<1>6. CASE ~(i < Base) /\ ~(i < Base * Base) /\ ~(i < Base * Base * Base) /\ i < top
  <2>1. Width(i, top) = 4
    BY <1>6 DEF Width
  <2>2. i < Word
    BY <1>2, <1>6
  <2> QED
    BY <1>1, <2>1, <2>2 DEF Widths
<1>7. CASE ~(i < Base) /\ ~(i < Base * Base) /\ ~(i < Base * Base * Base) /\ ~(i < top)
  <2>1. Width(i, top) = 8
    BY <1>7 DEF Width
  <2> QED
    BY <1>1, <2>1 DEF Widths
<1> QED
  BY <1>3, <1>4, <1>5, <1>6, <1>7

\* A type and a number, one after the other, and where they are found.
LEMMA Coded ==
  ASSUME NEW t, t \in Byte, NEW b, b \in Seq(Byte)
  PROVE  /\ << <<t>>, b >> \in Seq(Seq(Byte))
         /\ FlattenSeq(<< <<t>>, b >>) = <<t>> \o b
         /\ <<t>> \o b \in Seq(Byte) /\ Len(<<t>> \o b) = 1 + Len(b)
<1>1. <<t>> \in Seq(Byte) /\ Len(<<t>>) = 1
  OBVIOUS
<1> QED
  BY <1>1, ConcatProperties, FlattenTwo

\* The type is found at the place, and the number behind it.
LEMMA CodedAt ==
  ASSUME NEW t, t \in Byte, NEW b, b \in Seq(Byte),
         NEW s, NEW p, p \in Nat, At(s, p, <<t>> \o b)
  PROVE  s[p] = t /\ At(s, p + 1, b)
<1>1. <<t>> \in Seq(Byte) /\ Len(<<t>>) = 1 /\ <<t>>[1] = t
  OBVIOUS
<1>2. At(s, p, <<t>>) /\ At(s, p + Len(<<t>>), b)
  BY <1>1, AtConcat
<1>3. s[p + (1 - 1)] = t
  BY <1>1, <1>2 DEF At
<1>4. p + (1 - 1) = p
  OBVIOUS
<1> QED
  BY <1>1, <1>2, <1>3, <1>4

\* What a reader finds there, for each type of number.
LEMMA NumberFound ==
  ASSUME NEW s, NEW p, p \in Nat, NEW w, w \in Widths, NEW i, i \in Nat, i < Limit(w),
         At(s, p + 1, LittleEndian(i, w))
  PROVE  /\ s[p] = Type("uint", w) =>
              ValueAt(s, p) = [kind |-> "number", value |-> i, next |-> p + 1 + w]
         /\ s[p] = Type("nint", w) =>
              ValueAt(s, p) = [kind |-> "number", value |-> -i, next |-> p + 1 + w]
         /\ s[p] = Type("string_lib", w) =>
              ValueAt(s, p) = [kind |-> "string_lib", value |-> i, next |-> p + 1 + w]
         /\ w \in 1 .. 3 /\ s[p] = Type("array", w) =>
              ValueAt(s, p) = [kind |-> "array", value |-> i, next |-> p + 1 + w]
<1>1. NumberAt(s, p + 1, w) = i
  <2>1. PICK o : o = p + 1
    OBVIOUS
  <2>2. o \in Nat /\ At(s, o, LittleEndian(i, w))
    BY <2>1
  <2> QED
    BY <2>1, <2>2, NumberRead
<1>2. s[p] = Type("uint", w) =>
        ValueAt(s, p) = [kind |-> "number", value |-> i, next |-> p + 1 + w]
  <2>1. Type("uint", w) \in 2 .. 10 /\ WidthOf("uint", Type("uint", w)) = w
    BY Types
  <2>2. ASSUME NEW t, t = Type("uint", w), s[p] = t
        PROVE  ValueAt(s, p) = [kind |-> "number", value |-> i, next |-> p + 1 + w]
    <3>1. t \in 2 .. 10 /\ WidthOf("uint", t) = w
      BY <2>1, <2>2
    <3>2. t <= 10
      BY <3>1
    <3>3. t # 11 /\ t \notin 13 .. 15 /\ t \notin 16 .. 18 /\ t \notin 22 .. 26 /\ t \notin 27 .. 31
      BY <3>1
    <3> QED
      BY <1>1, <2>2, <3>1, <3>2, <3>3 DEF ValueAt
  <2> QED
    BY <2>2
<1>3. s[p] = Type("nint", w) =>
        ValueAt(s, p) = [kind |-> "number", value |-> -i, next |-> p + 1 + w]
  <2>1. Type("nint", w) \in 27 .. 31 /\ WidthOf("nint", Type("nint", w)) = w
    BY Types
  <2> QED
    BY <1>1, <2>1 DEF ValueAt
<1>4. s[p] = Type("string_lib", w) =>
        ValueAt(s, p) = [kind |-> "string_lib", value |-> i, next |-> p + 1 + w]
  <2>1. /\ Type("string_lib", w) \in 22 .. 26
        /\ WidthOf("string_lib", Type("string_lib", w)) = w
    BY Types
  <2> QED
    BY <1>1, <2>1 DEF ValueAt
<1>5. w \in 1 .. 3 /\ s[p] = Type("array", w) =>
        ValueAt(s, p) = [kind |-> "array", value |-> i, next |-> p + 1 + w]
  <2>1. w \in 1 .. 3 => Type("array", w) \in 16 .. 18 /\ WidthOf("array", Type("array", w)) = w
    BY Types
  <2>2. ASSUME NEW t, t = Type("array", w), s[p] = t, w \in 1 .. 3
        PROVE  ValueAt(s, p) = [kind |-> "array", value |-> i, next |-> p + 1 + w]
    <3>1. t \in 16 .. 18 /\ WidthOf("array", t) = w
      BY <2>1, <2>2
    <3>2. ~(t <= 10) /\ t # 11 /\ t \notin 13 .. 15
      BY <3>1
    <3> QED
      BY <1>1, <2>2, <3>1, <3>2 DEF ValueAt
  <2> QED
    BY <2>2
<1> QED
  BY <1>2, <1>3, <1>4, <1>5

\* The bytes of a value are read as what it means, and the reader goes on behind them;
\* a value that means nothing has no bytes.
IsReadBack(v, s, p) ==
  LET e == FlattenSeq(Encoded(v))
  IN  \/ e = << >> /\ Meaning(v) = << >>
      \/ /\ Len(e) >= 2 /\ ValueAt(s, p).next = p + Len(e)
         /\ Meaning(v) = <<[kind |-> ValueAt(s, p).kind, value |-> ValueAt(s, p).value]>>

\* What it takes to show it.
LEMMA ReadBackIf ==
  ASSUME NEW v, NEW s, NEW p, NEW kind, NEW x, NEW n, n >= 2,
         Len(FlattenSeq(Encoded(v))) = n,
         ValueAt(s, p) = [kind |-> kind, value |-> x, next |-> p + n],
         Meaning(v) = <<[kind |-> kind, value |-> x]>>
  PROVE  IsReadBack(v, s, p)
BY DEF IsReadBack

\* A number with its type in front of it, and where the two are found.
Code(t, i, w) == << <<t>>, LittleEndian(i, w) >>

\* Its bytes.
LEMMA NumberCoded ==
  ASSUME NEW t, t \in Byte, NEW i, i \in Int, NEW w, w \in Widths
  PROVE  /\ Code(t, i, w) \in Seq(Seq(Byte))
         /\ FlattenSeq(Code(t, i, w)) = <<t>> \o LittleEndian(i, w)
         /\ LittleEndian(i, w) \in Seq(Byte)
         /\ Len(FlattenSeq(Code(t, i, w))) = 1 + w /\ 1 + w >= 2
<1>1. w \in Nat /\ w >= 1
  BY DEF Widths
<1> DEFINE b == LittleEndian(i, w)
<1>2. b \in Seq(Byte) /\ Len(b) = w
  BY <1>1, LittleEndianSeq
<1> HIDE DEF b
<1>3. << <<t>>, b >> \in Seq(Seq(Byte)) /\ FlattenSeq(<< <<t>>, b >>) = <<t>> \o b
      /\ Len(<<t>> \o b) = 1 + w
  BY <1>2, Coded
<1>4. Code(t, i, w) = << <<t>>, b >>
  BY DEF Code, b
<1>5. /\ Code(t, i, w) \in Seq(Seq(Byte)) /\ FlattenSeq(Code(t, i, w)) = <<t>> \o b
      /\ Len(FlattenSeq(Code(t, i, w))) = 1 + w
  BY <1>3, <1>4
<1> QED
  BY <1>1, <1>2, <1>5 DEF b

\* Where they are found.
LEMMA NumberCodedAt ==
  ASSUME NEW t, t \in Byte, NEW i, i \in Int, NEW w, w \in Widths,
         NEW s, NEW p, p \in Nat, At(s, p, FlattenSeq(Code(t, i, w)))
  PROVE  s[p] = t /\ At(s, p + 1, LittleEndian(i, w))
<1> DEFINE b == LittleEndian(i, w)
<1>2. FlattenSeq(Code(t, i, w)) = <<t>> \o b /\ b \in Seq(Byte)
  BY NumberCoded
<1> HIDE DEF b
<1>3. At(s, p, <<t>> \o b)
  BY <1>2
<1>4. s[p] = t /\ At(s, p + 1, b)
  BY <1>2, <1>3, CodedAt
<1> QED
  BY <1>4 DEF b

\* Less than nothing.
LEMMA MinusIs == \A z \in Int : -z = 0 - z
OBVIOUS

\* Nothing is its own negation.
LEMMA MinusZero == \A z \in Int : z = 0 => -z = 0
<1>1. ASSUME NEW z \in Int, NEW d, d = 0 - z, z = 0
      PROVE  d = 0
  BY <1>1
<1> QED
  BY <1>1, MinusIs, Zenon

\* An unsigned number is read back.
LEMMA UintRead ==
  ASSUME NEW v, NEW i, i \in 0 .. Long - 1,
         NEW s, NEW p, p \in Nat, At(s, p, FlattenSeq(PushUint(i))),
         Encoded(v) = PushUint(i), Meaning(v) = <<[kind |-> "number", value |-> i]>>
  PROVE  IsReadBack(v, s, p) /\ Encoded(v) \in Seq(Seq(Byte))
<1>1. i \in Nat /\ i < Long /\ i \in Int
  BY WordAndLong
<1>2. PICK w : w = Width(i, Word)
  OBVIOUS
<1>3. w \in Widths /\ i < Limit(w)
  BY <1>1, <1>2, WidthHolds, WordAndLong
<1>4. PICK t : t = Type("uint", w)
  OBVIOUS
<1>5. t \in Byte
  BY <1>3, <1>4, Types DEF Byte
<1>6. PICK e : e = Code(t, i, w)
  OBVIOUS
<1>7. PushUint(i) = e
  BY <1>2, <1>4, <1>6 DEF PushUint, Number, Code
<1>8. e \in Seq(Seq(Byte)) /\ Len(FlattenSeq(e)) = 1 + w /\ 1 + w >= 2
  BY <1>1, <1>3, <1>5, <1>6, <1>7, NumberCoded
<1>8b. p + 1 + w = p + (1 + w)
  BY <1>3 DEF Widths
<1>8a. s[p] = t /\ At(s, p + 1, LittleEndian(i, w))
  <2>1. At(s, p, FlattenSeq(Code(t, i, w)))
    BY <1>1, <1>3, <1>5, <1>6, <1>7
  <2> QED
    BY <1>1, <1>3, <1>5, <1>6, <1>7, <2>1, NumberCodedAt
<1>9. ValueAt(s, p) = [kind |-> "number", value |-> i, next |-> p + 1 + w]
  BY <1>1, <1>3, <1>4, <1>8a, NumberFound
<1> QED
  BY <1>7, <1>8, <1>8a, <1>8b, <1>9, ReadBackIf

\* A negative number is read back, but for the least one.
LEMMA NintRead ==
  ASSUME NEW v, NEW i, i \in 1 .. Long - 1,
         NEW s, NEW p, p \in Nat, At(s, p, FlattenSeq(Number("nint", i, Word))),
         Encoded(v) = Number("nint", i, Word), Meaning(v) = <<[kind |-> "number", value |-> -i]>>
  PROVE  IsReadBack(v, s, p) /\ Encoded(v) \in Seq(Seq(Byte))
<1>1. i \in Nat /\ i < Long /\ i \in Int
  BY WordAndLong
<1>2. PICK w : w = Width(i, Word)
  OBVIOUS
<1>3. w \in Widths /\ i < Limit(w)
  BY <1>1, <1>2, WidthHolds, WordAndLong
<1>4. PICK t : t = Type("nint", w)
  OBVIOUS
<1>5. t \in Byte
  BY <1>3, <1>4, Types DEF Byte
<1>6. PICK e : e = Code(t, i, w)
  OBVIOUS
<1>7. Number("nint", i, Word) = e
  BY <1>2, <1>4, <1>6 DEF Number, Code
<1>8. e \in Seq(Seq(Byte)) /\ Len(FlattenSeq(e)) = 1 + w /\ 1 + w >= 2
  BY <1>1, <1>3, <1>5, <1>6, <1>7, NumberCoded
<1>8b. p + 1 + w = p + (1 + w)
  BY <1>3 DEF Widths
<1>8a. s[p] = t /\ At(s, p + 1, LittleEndian(i, w))
  <2>1. At(s, p, FlattenSeq(Code(t, i, w)))
    BY <1>1, <1>3, <1>5, <1>6, <1>7
  <2> QED
    BY <1>1, <1>3, <1>5, <1>6, <1>7, <2>1, NumberCodedAt
<1>9. ValueAt(s, p) = [kind |-> "number", value |-> -i, next |-> p + 1 + w]
  BY <1>1, <1>3, <1>4, <1>8a, NumberFound
<1> QED
  BY <1>7, <1>8, <1>8a, <1>8b, <1>9, ReadBackIf

\* The least number, which is encoded as zero is but for the sign.
LEMMA LeastRead ==
  ASSUME NEW v, NEW i, i \in Int, 2 * i = -Long,
         NEW s, NEW p, p \in Nat, At(s, p, FlattenSeq(Number("nint", i, Word))),
         Encoded(v) = Number("nint", i, Word), Meaning(v) = <<[kind |-> "number", value |-> 0]>>
  PROVE  IsReadBack(v, s, p) /\ Encoded(v) \in Seq(Seq(Byte))
<1>1. Base \in Nat /\ Base > 1 /\ Long \in Nat /\ Long > 0
  BY WordAndLong
<1>2. Width(i, Word) = 1
  <2>1. i < Base
    BY <1>1
  <2> QED
    BY <2>1 DEF Width
<1>3. 1 \in Widths /\ 0 < Limit(1)
  BY <1>1 DEF Widths, Limit
<1>4. PICK t : t = Type("nint", 1)
  OBVIOUS
<1>5. t \in Byte
  BY <1>3, <1>4, Types DEF Byte
<1>6. PICK e : e = Code(t, 0, 1)
  OBVIOUS
<1>7. Number("nint", i, Word) = e
  <2>1. LittleEndian(i, 1) = LittleEndian(0, 1)
    BY LeastIsZero
  <2> QED
    BY <1>2, <1>4, <1>6, <2>1 DEF Number, Code
<1>8. e \in Seq(Seq(Byte)) /\ Len(FlattenSeq(e)) = 1 + 1 /\ 1 + 1 >= 2
  <2>1. 0 \in Int /\ 1 \in Widths
    BY <1>3
  <2> QED
    BY <1>5, <1>6, <2>1, NumberCoded
<1>8b. p + 1 + 1 = p + (1 + 1)
  OBVIOUS
<1>8a. s[p] = t /\ At(s, p + 1, LittleEndian(0, 1))
  <2>1. 0 \in Int /\ 1 \in Widths
    BY <1>3
  <2>2. At(s, p, FlattenSeq(Code(t, 0, 1)))
    BY <1>6, <1>7
  <2> QED
    BY <1>5, <2>1, <2>2, NumberCodedAt
<1>9. ValueAt(s, p) = [kind |-> "number", value |-> 0, next |-> p + 1 + 1]
  <2>1. PICK z \in Nat : z = 0
    OBVIOUS
  <2>2. z < Limit(1) /\ At(s, p + 1, LittleEndian(z, 1))
    BY <1>3, <1>8a, <2>1
  <2>3. ValueAt(s, p) = [kind |-> "number", value |-> -z, next |-> p + 1 + 1]
    BY <1>3, <1>4, <1>8a, <2>2, NumberFound
  <2>3a. z \in Int
    OBVIOUS
  <2>4. -z = 0
    BY ONLY <2>1, <2>3a, MinusZero, Zenon
  <2> QED
    BY <2>3, <2>4
<1> QED
  BY <1>7, <1>8, <1>8a, <1>8b, <1>9, ReadBackIf

\* A number of the string library is read back.
LEMMA StringIdRead ==
  ASSUME NEW v, NEW i, i \in 0 .. Long - 1,
         NEW s, NEW p, p \in Nat, At(s, p, FlattenSeq(PushStringId(i))),
         Encoded(v) = PushStringId(i), Meaning(v) = <<[kind |-> "string_lib", value |-> i]>>
  PROVE  IsReadBack(v, s, p) /\ Encoded(v) \in Seq(Seq(Byte))
<1>1. i \in Nat /\ i < Long /\ i \in Int
  BY WordAndLong
<1>2. PICK top : top = (Base - 2) * Base * Base * Base
  OBVIOUS
<1>3. top \in Int /\ top <= Word
  <2>1. PICK b \in Nat : b = Base * Base * Base
    BY WordAndLong
  <2>2. top = Base * b - 2 * b /\ Word = Base * b
    BY <1>2, <2>1, WordAndLong DEF Word
  <2> QED
    BY <2>2, WordAndLong
<1>4. PICK w : w = Width(i, top)
  OBVIOUS
<1>5. w \in Widths /\ i < Limit(w)
  BY <1>1, <1>3, <1>4, WidthHolds
<1>6. PICK t : t = Type("string_lib", w)
  OBVIOUS
<1>7. t \in Byte
  BY <1>5, <1>6, Types DEF Byte
<1>8. PICK e : e = Code(t, i, w)
  OBVIOUS
<1>9. PushStringId(i) = e
  BY <1>2, <1>4, <1>6, <1>8 DEF PushStringId, Number, Code
<1>10. e \in Seq(Seq(Byte)) /\ Len(FlattenSeq(e)) = 1 + w /\ 1 + w >= 2
  BY <1>1, <1>5, <1>7, <1>8, <1>9, NumberCoded
<1>10b. p + 1 + w = p + (1 + w)
  BY <1>5 DEF Widths
<1>10a. s[p] = t /\ At(s, p + 1, LittleEndian(i, w))
  <2>1. At(s, p, FlattenSeq(Code(t, i, w)))
    BY <1>1, <1>5, <1>7, <1>8, <1>9
  <2> QED
    BY <1>1, <1>5, <1>7, <1>8, <1>9, <2>1, NumberCodedAt
<1>11. ValueAt(s, p) = [kind |-> "string_lib", value |-> i, next |-> p + 1 + w]
  BY <1>1, <1>5, <1>6, <1>10a, NumberFound
<1> QED
  BY <1>9, <1>10, <1>10a, <1>10b, <1>11, ReadBackIf

\* What three bytes can count, and what they cannot.
LEMMA ShortWidth ==
  ASSUME NEW n, n \in Nat
  PROVE  /\ n < Base * Base * Base =>
              Width(n, Word) \in 1 .. 3 /\ Width(n, Word) \in Widths /\ n < Limit(Width(n, Word))
         /\ ~(n < Base * Base * Base) => Width(n, Word) > 3
<1>1. Base \in Nat /\ Base * Base \in Nat /\ Base * Base * Base \in Nat /\ Word \in Nat
      /\ Base > 1
  BY WordAndLong
<1>2. Limit(1) = Base /\ Limit(2) = Base * Base /\ Limit(3) = Base * Base * Base
  BY DEF Limit
<1>3. CASE n < Base * Base * Base
  <2>1. CASE n < Base
    <3>1. Width(n, Word) = 1
      BY <2>1 DEF Width
    <3> QED
      BY <1>2, <1>3, <2>1, <3>1 DEF Widths
  <2>2. CASE ~(n < Base) /\ n < Base * Base
    <3>1. Width(n, Word) = 2
      BY <2>2 DEF Width
    <3> QED
      BY <1>2, <1>3, <2>2, <3>1 DEF Widths
  <2>3. CASE ~(n < Base) /\ ~(n < Base * Base)
    <3>1. Width(n, Word) = 3
      BY <1>3, <2>3 DEF Width
    <3> QED
      BY <1>2, <1>3, <3>1 DEF Widths
  <2> QED
    BY <2>1, <2>2, <2>3
<1>4. CASE ~(n < Base * Base * Base)
  <2>1. ~(n < Base) /\ ~(n < Base * Base)
    <3>1. PICK b \in Nat : b = Base * Base
      BY <1>1
    <3>2. b >= Base
      BY ONLY <1>1, <3>1
    <3>3. b * Base >= b
      BY ONLY <1>1, <3>1
    <3>4. b * Base = Base * Base * Base
      BY <3>1
    <3> QED
      BY <1>1, <1>4, <3>1, <3>2, <3>3, <3>4
  <2>2. Width(n, Word) = 4 \/ Width(n, Word) = 8
    BY <1>4, <2>1 DEF Width
  <2> QED
    BY <1>4, <2>2
<1> QED
  BY <1>3, <1>4

\* A count is read back, unless it is too large to be pushed.
LEMMA ArrayRead ==
  ASSUME NEW v, NEW n, n \in Nat,
         NEW s, NEW p, p \in Nat, At(s, p, FlattenSeq(PushArray(n))),
         Encoded(v) = PushArray(n),
         Meaning(v) = IF n < Base * Base * Base THEN <<[kind |-> "array", value |-> n]>> ELSE << >>
  PROVE  IsReadBack(v, s, p) /\ Encoded(v) \in Seq(Seq(Byte))
<1>1. PICK w : w = Width(n, Word)
  OBVIOUS
<1>2. CASE ~(n < Base * Base * Base)
  <2>1. w > 3
    BY <1>1, <1>2, ShortWidth
  <2>2. Encoded(v) = << >>
    BY <1>1, <2>1 DEF PushArray
  <2>3. FlattenSeq(<< >>) = << >>
    BY EmptySeq DEF FlattenSeq
  <2>4. << >> \in Seq(Seq(Byte))
    BY EmptySeq
  <2> QED
    BY <1>2, <2>2, <2>3, <2>4 DEF IsReadBack
<1>3. CASE n < Base * Base * Base
  <2>1. w \in 1 .. 3 /\ w \in Widths /\ n < Limit(w) /\ n \in Int
    BY <1>1, <1>3, ShortWidth
  <2>2. PICK t : t = Type("array", w)
    OBVIOUS
  <2>3. t \in Byte
    BY <2>1, <2>2, Types DEF Byte
  <2>4. PICK e : e = Code(t, n, w)
    OBVIOUS
  <2>5. ~(w > 3)
    BY <2>1
  <2>6. PushArray(n) = e
    BY <1>1, <2>2, <2>4, <2>5 DEF PushArray, Code
  <2>7. e \in Seq(Seq(Byte)) /\ Len(FlattenSeq(e)) = 1 + w /\ 1 + w >= 2
    BY <2>1, <2>3, <2>4, <2>6, NumberCoded
  <2>7b. p + 1 + w = p + (1 + w)
    BY <2>1 DEF Widths
  <2>7a. s[p] = t /\ At(s, p + 1, LittleEndian(n, w))
    <3>1. At(s, p, FlattenSeq(Code(t, n, w)))
      BY <2>1, <2>3, <2>4, <2>6
    <3> QED
      BY <2>1, <2>3, <3>1, NumberCodedAt
  <2>8. ValueAt(s, p) = [kind |-> "array", value |-> n, next |-> p + 1 + w]
    BY <2>1, <2>2, <2>7a, NumberFound
  <2>9. Meaning(v) = <<[kind |-> "array", value |-> n]>>
    BY <1>3
  <2> QED
    BY <2>6, <2>7, <2>7a, <2>7b, <2>8, <2>9, ReadBackIf
<1> QED
  BY <1>2, <1>3

-----------------------------------------------------------------------------
(* Strings and floats.                                                      *)

\* Bytes at a place are the part of the others that begins there.
LEMMA PartAt ==
  ASSUME NEW s, NEW m \in Nat, NEW x \in Seq(Byte), At(s, m, x), NEW n \in Int, n = m + Len(x) - 1
  PROVE  SubSeq(s, m, n) = x
<1>1. Len(x) \in Nat /\ \A k \in 1 .. Len(x) : x[k] \in Byte
  BY LenProperties, ElementOfSeq
<1>2. m \in Int /\ n \in Int /\ n - m + 1 = Len(x)
  BY <1>1
<1>3. \A i \in m .. n : s[i] \in Byte
  <2>1. ASSUME NEW i, i \in m .. n
        PROVE  s[i] \in Byte
    <3>1. PICK k : k = i - m + 1
      OBVIOUS
    <3>2. k \in 1 .. Len(x) /\ m + (k - 1) = i
      BY <1>1, <1>2, <2>1, <3>1
    <3>3. s[m + (k - 1)] = x[k]
      BY <3>2 DEF At
    <3> QED
      BY <1>1, <3>2, <3>3
  <2> QED
    BY <2>1
<1>4. /\ SubSeq(s, m, n) \in Seq(Byte)
      /\ Len(SubSeq(s, m, n)) = IF m <= n THEN n - m + 1 ELSE 0
      /\ \A i \in 1 .. n - m + 1 : SubSeq(s, m, n)[i] = s[m + i - 1]
  BY <1>2, <1>3, SubSeqProperties
<1> DEFINE y == SubSeq(s, m, n)
<1>5. y \in Seq(Byte) /\ \A i \in 1 .. Len(x) : y[i] = s[m + i - 1]
  BY <1>2, <1>4
<1>6. Len(y) = Len(x)
  BY <1>1, <1>2, <1>4
<1> HIDE DEF y
<1>7. ASSUME NEW i, i \in 1 .. Len(x)
      PROVE  y[i] = x[i]
  <2>1. m + (i - 1) = m + i - 1
    BY <1>7
  <2>2. s[m + (i - 1)] = x[i]
    BY <1>7 DEF At
  <2> QED
    BY <1>5, <1>7, <2>1, <2>2
<1>8. y = x
  BY <1>5, <1>6, <1>7, SeqEqual
<1> QED
  BY <1>8 DEF y

\* What a reader finds where a string or a float begins.
LEMMA StringFound ==
  ASSUME NEW s, NEW p, NEW t, t = s[p], t \in 13 .. 15, ~(t <= 10), t # 11
  PROVE  LET w == WidthOf("string", t)
             n == NumberAt(s, p + 1, w)
         IN  ValueAt(s, p) = [kind  |-> "string", value |-> SubSeq(s, p + 1 + w, p + w + n - 1),
                              next  |-> p + 1 + (w + n)]
BY DEF ValueAt

\* A float is four bytes behind its type.
LEMMA FloatFound ==
  ASSUME NEW s, NEW p \in Nat, NEW t, t = s[p], t = 11, ~(t <= 10)
  PROVE  ValueAt(s, p) = [kind |-> "float", value |-> SubSeq(s, p + 1, p + 4), next |-> p + 1 + 4]
BY DEF ValueAt

\* A string is read back, unless it is too long to be pushed.
LEMMA StringRead ==
  ASSUME NEW v, NEW x, x \in Seq(Byte),
         NEW s, NEW p, p \in Nat, At(s, p, FlattenSeq(PushString(x))),
         Encoded(v) = PushString(x),
         Meaning(v) = IF Len(x) + 1 < Base * Base * Base THEN <<[kind |-> "string", value |-> x]>>
                      ELSE << >>
  PROVE  IsReadBack(v, s, p) /\ Encoded(v) \in Seq(Seq(Byte))
<1>0. Len(x) \in Nat
  BY LenProperties
<1> DEFINE n == Len(x) + 1
<1>1. n \in Nat /\ n - 1 = Len(x) /\ n > 0
  BY <1>0
<1>2. PICK w : w = Width(n, Word)
  OBVIOUS
<1>3. CASE ~(n < Base * Base * Base)
  <2>1. w > 3
    <3> HIDE DEF n
    <3> QED
      BY <1>1, <1>2, <1>3, ShortWidth
  <2>2. Encoded(v) = << >>
    BY <1>2, <2>1 DEF PushString
  <2>3. FlattenSeq(<< >>) = << >>
    BY EmptySeq DEF FlattenSeq
  <2>4. << >> \in Seq(Seq(Byte))
    BY EmptySeq
  <2> QED
    BY <1>3, <2>2, <2>3, <2>4 DEF IsReadBack
<1>4. CASE n < Base * Base * Base
  <2>1. w \in 1 .. 3 /\ w \in Widths /\ n < Limit(w)
    <3> HIDE DEF n
    <3> QED
      BY <1>1, <1>2, <1>4, ShortWidth
  <2>2. PICK t : t = Type("string", w)
    OBVIOUS
  <2>3. t \in 13 .. 15 /\ WidthOf("string", t) = w /\ t \in Byte
    BY <2>1, <2>2, Types DEF Byte
  <2>4. PICK b : b = LittleEndian(n, w)
    OBVIOUS
  <2>5. b \in Seq(Byte) /\ Len(b) = w
    <3>1. n \in Int /\ w \in Nat
      BY <1>1, <2>1
    <3> HIDE DEF n
    <3> QED
      BY <2>4, <3>1, LittleEndianSeq
  <2>6. Encoded(v) = << <<t>>, b, x, <<0>> >>
    <3>1. ~(w > 3)
      BY <2>1
    <3> QED
      BY <1>2, <2>2, <2>4, <3>1 DEF PushString
  <2>7. <<t>> \in Seq(Byte) /\ Len(<<t>>) = 1 /\ <<0>> \in Seq(Byte) /\ Len(<<0>>) = 1
    BY <2>3 DEF Byte
  <2>9. PICK tb : tb = <<t>> \o b
    OBVIOUS
  <2>10. tb \in Seq(Byte) /\ Len(tb) = 1 + w
    BY <2>5, <2>7, <2>9, ConcatProperties
  <2>11. PICK tbx : tbx = tb \o x
    OBVIOUS
  <2>12. tbx \in Seq(Byte) /\ Len(tbx) = (1 + w) + Len(x)
    BY <2>10, <2>11, ConcatProperties
  <2>12a. /\ << <<t>>, b, x, <<0>> >> \in Seq(Seq(Byte))
          /\ FlattenSeq(<< <<t>>, b, x, <<0>> >>) = tbx \o <<0>>
    <3>1. PICK a, d, r : a = <<t>> /\ d = <<0>> /\ r = tbx \o d
      OBVIOUS
    <3>2. a \in Seq(Byte) /\ b \in Seq(Byte) /\ x \in Seq(Byte) /\ d \in Seq(Byte)
      BY <2>5, <2>7, <3>1
    <3>3. tb = a \o b /\ tbx = tb \o x
      BY <2>9, <2>11, <3>1
    <3>4. r = tbx \o d
      BY <3>1
    <3>5. <<a, b, x, d>> \in Seq(Seq(Byte)) /\ FlattenSeq(<<a, b, x, d>>) = r
      BY ONLY <3>2, <3>3, <3>4, FlattenFour
    <3> QED
      BY <3>1, <3>5
  <2>13. Len(tbx \o <<0>>) = ((1 + w) + Len(x)) + 1
    BY <2>7, <2>12, ConcatProperties
  <2>14. At(s, p, tbx \o <<0>>)
    BY <2>6, <2>12a
  <2>15. At(s, p, tb \o x)
    BY <2>7, <2>11, <2>12, <2>14, AtConcat
  <2>16. At(s, p, tb) /\ At(s, p + (1 + w), x)
    BY <2>10, <2>15, AtConcat
  <2>17. s[p] = t /\ At(s, p + 1, b)
    BY <2>3, <2>5, <2>9, <2>16, CodedAt
  <2>18. NumberAt(s, p + 1, w) = n
    <3>1. PICK o : o = p + 1
      OBVIOUS
    <3>2. o \in Nat
      BY <3>1
    <3> HIDE DEF n
    <3> QED
      BY <1>1, <2>1, <2>4, <2>17, <3>1, <3>2, NumberRead
  <2>19. SubSeq(s, p + 1 + w, p + w + n - 1) = x
    <3>1. PICK o : o = p + 1 + w
      OBVIOUS
    <3>2. o = p + (1 + w) /\ o \in Nat
      BY <2>1, <3>1
    <3>3. p + w + n - 1 = o + Len(x) - 1
      BY <1>0, <2>1, <3>1
    <3>4. At(s, o, x)
      BY <2>16, <3>2
    <3>5. PICK q : q = p + w + n - 1
      OBVIOUS
    <3>6. q \in Int /\ q = o + Len(x) - 1
      BY <1>0, <2>1, <3>1, <3>3, <3>5
    <3>7. SubSeq(s, o, q) = x
      BY <3>2, <3>4, <3>6, PartAt
    <3> QED
      BY <3>1, <3>5, <3>7
  <2>20. ValueAt(s, p) = [kind |-> "string", value |-> x, next |-> p + 1 + (w + n)]
    <3>1. ~(t <= 10) /\ t # 11
      BY <2>3
    <3> HIDE DEF n
    <3> QED
      BY <2>3, <2>17, <2>18, <2>19, <3>1, StringFound
  <2>21. PICK len : len = ((1 + w) + Len(x)) + 1
    OBVIOUS
  <2>22. len >= 2 /\ p + 1 + (w + n) = p + len
    BY <1>0, <2>1, <2>21
  <2>23. Len(FlattenSeq(Encoded(v))) = len
    BY <2>6, <2>12a, <2>13, <2>21
  <2>24. ValueAt(s, p) = [kind |-> "string", value |-> x, next |-> p + len]
    BY <2>20, <2>22
  <2>25. Meaning(v) = <<[kind |-> "string", value |-> x]>>
    BY <1>4
  <2> QED
    BY <2>6, <2>12a, <2>22, <2>23, <2>24, <2>25, ReadBackIf
<1> QED
  BY <1>3, <1>4

\* A float is read back.
LEMMA FloatRead ==
  ASSUME NEW v, NEW f, f \in [1 .. 4 -> Byte],
         NEW s, NEW p, p \in Nat, At(s, p, FlattenSeq(PushFloat(f))),
         Encoded(v) = PushFloat(f),
         Meaning(v) = <<[kind |-> "float", value |-> f]>>
  PROVE  IsReadBack(v, s, p) /\ Encoded(v) \in Seq(Seq(Byte))
<1>1. f \in Seq(Byte) /\ Len(f) = 4
  <2>1. f = [i \in 1 .. 4 |-> f[i]] /\ \A i \in 1 .. 4 : f[i] \in Byte
    OBVIOUS
  <2>2. [i \in 1 .. 4 |-> f[i]] \in Seq(Byte) /\ Len([i \in 1 .. 4 |-> f[i]]) = 4
    BY <2>1
  <2> QED
    BY <2>1, <2>2
<1>2. 11 \in Byte
  BY DEF Byte
<1>3. PushFloat(f) = << <<11>>, f >>
  BY Types DEF PushFloat
<1>4. /\ << <<11>>, f >> \in Seq(Seq(Byte))
      /\ FlattenSeq(<< <<11>>, f >>) = <<11>> \o f
      /\ Len(<<11>> \o f) = 1 + 4
  BY <1>1, <1>2, Coded
<1>5. s[p] = 11 /\ At(s, p + 1, f)
  <2>1. PICK t : t = 11
    OBVIOUS
  <2>2. At(s, p, <<t>> \o f) /\ t \in Byte
    BY <1>2, <1>3, <1>4, <2>1
  <2>3. s[p] = t /\ At(s, p + 1, f)
    BY <1>1, <2>2, CodedAt
  <2> QED
    BY <2>1, <2>3
<1>6. SubSeq(s, p + 1, p + 4) = f
  <2>1. PICK o : o = p + 1
    OBVIOUS
  <2>2. PICK q : q = p + 4
    OBVIOUS
  <2>3. o \in Nat /\ q = o + Len(f) - 1
    BY <1>1, <2>1, <2>2
  <2>4. At(s, o, f)
    BY <1>5, <2>1
  <2>5. SubSeq(s, o, q) = f
    <3>1. f \in Seq(Byte)
      BY <1>1
    <3>2. q \in Int
      BY <2>2
    <3> QED
      BY ONLY <2>3, <2>4, <3>1, <3>2, PartAt
  <2> QED
    BY <2>1, <2>2, <2>5
<1>7. ValueAt(s, p) = [kind |-> "float", value |-> f, next |-> p + 1 + 4]
  <2>1. PICK t : t = 11
    OBVIOUS
  <2>2. ~(t <= 10) /\ t = 11 /\ s[p] = t
    BY <1>5, <2>1
  <2>3. ValueAt(s, p) = [kind |-> "float", value |-> SubSeq(s, p + 1, p + 4), next |-> p + 1 + 4]
    BY <2>2, FloatFound
  <2> QED
    BY <1>6, <2>3
<1>8. p + 1 + 4 = p + 5 /\ 5 >= 2 /\ 1 + 4 = 5
  OBVIOUS
<1>9. Len(FlattenSeq(Encoded(v))) = 5
  BY <1>3, <1>4, <1>8
<1>10. ValueAt(s, p) = [kind |-> "float", value |-> f, next |-> p + 5]
  BY <1>7, <1>8
<1> QED
  BY <1>3, <1>4, <1>8, <1>9, <1>10, ReadBackIf

\* A negative number and the least of all are pushed by their absolute value.
LEMMA IntRead ==
  ASSUME NEW v, NEW i, i \in Int, -Long <= 2 * i, 2 * i < Long,
         NEW s, NEW p, p \in Nat, At(s, p, FlattenSeq(PushInt(i))),
         Encoded(v) = PushInt(i),
         Meaning(v) = <<[kind |-> "number", value |-> IF 2 * i = -Long THEN 0 ELSE i]>>
  PROVE  IsReadBack(v, s, p) /\ Encoded(v) \in Seq(Seq(Byte))
<1>1. Long \in Nat /\ Long > 0
  BY WordAndLong
<1>2. CASE i >= 0
  <2>1. i \in 0 .. Long - 1 /\ 2 * i # -Long
    BY <1>1, <1>2
  <2>2. PushInt(i) = PushUint(i)
    BY <1>2 DEF PushInt
  <2>3. Meaning(v) = <<[kind |-> "number", value |-> i]>>
    BY <2>1
  <2> QED
    BY <2>1, <2>2, <2>3, UintRead
<1>3. CASE 2 * i = -Long
  <2>1. ~(i >= 0)
    BY <1>1, <1>3
  <2>2. PushInt(i) = Number("nint", i, Word)
    BY <1>3, <2>1 DEF PushInt
  <2>3. Meaning(v) = <<[kind |-> "number", value |-> 0]>>
    BY <1>3
  <2> QED
    BY <1>3, <2>2, <2>3, LeastRead
<1>4. CASE ~(i >= 0) /\ 2 * i # -Long
  <2>1. PICK j : j = -i
    OBVIOUS
  <2>2. j \in 1 .. Long - 1 /\ -j = i
    BY <1>1, <1>4, <2>1
  <2>3. PushInt(i) = Number("nint", j, Word)
    BY <1>4, <2>1 DEF PushInt
  <2>4. Meaning(v) = <<[kind |-> "number", value |-> -j]>>
    BY <1>4, <2>2
  <2> QED
    BY <2>2, <2>3, <2>4, NintRead
<1> QED
  BY <1>2, <1>3, <1>4

\* Whatever is pushed, its bytes are read as what it means.
LEMMA ReadsBack ==
  ASSUME NEW v, v \in Value,
         NEW s, NEW p, p \in Nat, At(s, p, FlattenSeq(Encoded(v)))
  PROVE  IsReadBack(v, s, p) /\ Encoded(v) \in Seq(Seq(Byte))
<1>1. Long \in Nat
  BY WordAndLong
<1>2. CASE v \in [kind : {"uint", "string_lib"}, value : 0 .. Long - 1]
  <2>1. v.kind \in {"uint", "string_lib"} /\ v.value \in 0 .. Long - 1 /\ v.value \in Int
        /\ v = [kind |-> v.kind, value |-> v.value]
    BY <1>2
  <2>2. CASE v.kind = "uint"
    <3>1. Encoded(v) = PushUint(v.value)
      BY <2>2 DEF Encoded
    <3>2. 2 * v.value # -Long
      BY <1>1, <2>1, WordAndLong
    <3>3. Meaning(v) = <<[kind |-> "number", value |-> v.value]>>
      BY <2>2, <3>2 DEF Meaning
    <3> QED
      BY <2>1, <3>1, <3>3, UintRead
  <2>3. CASE v.kind = "string_lib"
    <3>1. Encoded(v) = PushStringId(v.value)
      BY <2>3 DEF Encoded
    <3>2. Meaning(v) = <<[kind |-> "string_lib", value |-> v.value]>>
      BY <2>1, <2>3 DEF Meaning
    <3> QED
      BY <2>1, <3>1, <3>2, StringIdRead
  <2> QED
    BY <2>1, <2>2, <2>3
<1>3. CASE v \in [kind : {"int"}, value : {i \in Int : -Long <= 2 * i /\ 2 * i < Long}]
  <2>1. v.kind = "int" /\ v.value \in Int /\ -Long <= 2 * v.value /\ 2 * v.value < Long
    BY <1>3
  <2>2. Encoded(v) = PushInt(v.value)
    BY <2>1 DEF Encoded
  <2>3. Meaning(v) = <<[kind |-> "number", value |-> IF 2 * v.value = -Long THEN 0 ELSE v.value]>>
    BY <2>1 DEF Meaning
  <2> QED
    BY <2>1, <2>2, <2>3, IntRead
<1>4. CASE v \in [kind : {"float"}, value : [1 .. 4 -> Byte]]
  <2>1. v.kind = "float" /\ v.value \in [1 .. 4 -> Byte] /\ v = [kind |-> "float", value |-> v.value]
    BY <1>4
  <2>2. Encoded(v) = PushFloat(v.value)
    BY <2>1 DEF Encoded
  <2>3. Meaning(v) = <<[kind |-> "float", value |-> v.value]>>
    BY <2>1 DEF Meaning
  <2> QED
    BY <2>1, <2>2, <2>3, FloatRead
<1>5. CASE v \in [kind : {"array"}, value : Nat]
  <2>1. v.kind = "array" /\ v.value \in Nat /\ v = [kind |-> "array", value |-> v.value]
    BY <1>5
  <2>2. Encoded(v) = PushArray(v.value)
    BY <2>1 DEF Encoded
  <2>3. Meaning(v) = IF v.value < Base * Base * Base THEN <<[kind |-> "array", value |-> v.value]>> ELSE << >>
    BY <2>1 DEF Meaning
  <2> QED
    BY <2>1, <2>2, <2>3, ArrayRead
<1>6. CASE v \in [kind : {"string"}, value : Seq(Byte)]
  <2>1. v.kind = "string" /\ v.value \in Seq(Byte) /\ v = [kind |-> "string", value |-> v.value]
    BY <1>6
  <2>2. Encoded(v) = PushString(v.value)
    BY <2>1 DEF Encoded
  <2>3. Meaning(v) = IF Len(v.value) + 1 < Base * Base * Base THEN <<[kind |-> "string", value |-> v.value]>>
                     ELSE << >>
    BY <2>1 DEF Meaning
  <2> QED
    BY <2>1, <2>2, <2>3, StringRead
<1> QED
  BY <1>2, <1>3, <1>4, <1>5, <1>6 DEF Value

-----------------------------------------------------------------------------
(* The reader, value by value.                                              *)

\* Sequences are joined, one after the other.
Joins(T, n, ss, p) ==
  /\ p \in [0 .. n -> Seq(T)] /\ p[0] = << >>
  /\ \A k \in 1 .. n : ss[k] \in Seq(T) /\ p[k] = p[k - 1] \o ss[k]

\* Those up to one of them are the beginning of all.
LEMMA PathPrefix ==
  ASSUME NEW T, NEW n \in Nat, NEW ss, NEW p, Joins(T, n, ss, p),
         NEW k \in 0 .. n
  PROVE  /\ Len(p[k]) \in Nat /\ Len(p[n]) \in Nat /\ Len(p[k]) <= Len(p[n])
         /\ \A i \in 1 .. Len(p[k]) : p[n][i] = p[k][i]
<1>0. p \in [0 .. n -> Seq(T)] /\ \A j \in 1 .. n : ss[j] \in Seq(T) /\ p[j] = p[j - 1] \o ss[j]
  BY DEF Joins
<1>1. \A j \in 0 .. n : p[j] \in Seq(T) /\ Len(p[j]) \in Nat
  BY <1>0, LenProperties
<1> DEFINE P == {d \in 0 .. n - k : /\ Len(p[k]) <= Len(p[k + d])
                                    /\ \A i \in 1 .. Len(p[k]) : p[k + d][i] = p[k][i]}
<1>2. 0 \in P
  <2>1. k + 0 = k /\ 0 \in 0 .. n - k
    OBVIOUS
  <2> QED
    BY <1>1, <2>1
<1>3. ASSUME NEW d, d \in 0 .. (n - k) - 1, d \in P
      PROVE  d + 1 \in P
  <2>1. PICK j : j = k + d
    OBVIOUS
  <2>2. j \in 0 .. n /\ j + 1 \in 1 .. n /\ j + 1 \in 0 .. n /\ (j + 1) - 1 = j /\ k + (d + 1) = j + 1
        /\ d + 1 \in 0 .. n - k
    BY <1>3, <2>1
  <2>3. PICK a, b, c : a = p[j] /\ b = ss[j + 1] /\ c = p[j + 1]
    OBVIOUS
  <2>4. a \in Seq(T) /\ b \in Seq(T) /\ c = a \o b
    BY <1>0, <1>1, <2>2, <2>3
  <2>5. /\ Len(c) = Len(a) + Len(b) /\ Len(a) \in Nat /\ Len(b) \in Nat
        /\ \A i \in 1 .. Len(a) : c[i] = a[i]
    BY <2>4, ConcatProperties, LenProperties
  <2>6. Len(p[k]) <= Len(a) /\ \A i \in 1 .. Len(p[k]) : a[i] = p[k][i]
    BY <1>3, <2>1, <2>3
  <2>7. Len(p[k]) \in Nat
    BY <1>1
  <2>8. Len(p[k]) <= Len(c)
    BY <2>5, <2>6, <2>7
  <2>9. ASSUME NEW i, i \in 1 .. Len(p[k])
        PROVE  c[i] = p[k][i]
    <3>1. i \in 1 .. Len(a)
      BY <2>5, <2>6, <2>7, <2>9
    <3> QED
      BY <2>5, <2>6, <2>9, <3>1
  <2> QED
    BY <2>2, <2>3, <2>8, <2>9
<1> HIDE DEF P
<1>4. n - k \in Nat
  OBVIOUS
<1>4a. \A d \in 0 .. (n - k) - 1 : d \in P => d + 1 \in P
  BY <1>3
<1>5. \A d \in 0 .. n - k : d \in P
  BY <1>2, <1>4, <1>4a, Stepwise
<1>6. n - k \in 0 .. n - k /\ k + (n - k) = n /\ n \in 0 .. n
  BY <1>4
<1>7. n - k \in P
  BY <1>5, <1>6
<1>8. Len(p[k]) <= Len(p[k + (n - k)]) /\ \A i \in 1 .. Len(p[k]) : p[k + (n - k)][i] = p[k][i]
  BY <1>7 DEF P
<1> QED
  BY <1>1, <1>6, <1>8

\* A function on numbers from 1 is a sequence.
LEMMA FunctionIsSeq ==
  ASSUME NEW S, NEW n, n \in Nat, NEW f, f = [i \in 1 .. n |-> f[i]], \A i \in 1 .. n : f[i] \in S
  PROVE  f \in Seq(S) /\ Len(f) = n
<1>1. [i \in 1 .. n |-> f[i]] \in Seq(S) /\ Len([i \in 1 .. n |-> f[i]]) = n
  OBVIOUS
<1> QED
  BY <1>1

\* A step of the reader.
ReadStep(s, r) ==
  LET v == ValueAt(s, r.next)
  IN  IF r.next > Len(s) THEN r
      ELSE [next |-> v.next, values |-> Append(r.values, [kind |-> v.kind, value |-> v.value])]

\* Before the first value.
Start == [next |-> 5, values |-> <<>>]

\* The steps of the reader.
Reads(s, n, f) == f = [k \in 0 .. n |-> IF k = 0 THEN Start ELSE ReadStep(s, f[k - 1])]

\* There is what a reader does, whatever it reads.
LEMMA ReadsExist ==
  ASSUME NEW s, NEW n, n \in Nat
  PROVE  \E f : Reads(s, n, f)
<1> DEFINE P == {k \in 0 .. n : \E f : Reads(s, k, f)}
<1>1. 0 \in P
  <2> DEFINE f == [k \in 0 .. 0 |-> Start]
  <2>1. f = [k \in 0 .. 0 |-> IF k = 0 THEN Start ELSE ReadStep(s, f[k - 1])]
    <3>1. \A k \in 0 .. 0 : k = 0
      OBVIOUS
    <3> QED
      BY <3>1
  <2>2. Reads(s, 0, f)
    BY <2>1 DEF Reads
  <2> QED
    BY <2>2
<1>2. ASSUME NEW k, k \in 0 .. n - 1, k \in P
      PROVE  k + 1 \in P
  <2>1. PICK f : Reads(s, k, f)
    BY <1>2
  <2> DEFINE g == [j \in 0 .. k + 1 |-> IF j = k + 1 THEN ReadStep(s, f[k]) ELSE f[j]]
  <2>2. \A j \in 0 .. k : f[j] = IF j = 0 THEN Start ELSE ReadStep(s, f[j - 1])
    BY <2>1 DEF Reads
  <2>3. /\ g = [j \in 0 .. k + 1 |-> g[j]] /\ \A j \in 0 .. k : g[j] = f[j]
        /\ g[k + 1] = ReadStep(s, f[k])
    BY <1>2
  <2> HIDE DEF g
  <2>4. ASSUME NEW j, j \in 0 .. k + 1
        PROVE  g[j] = IF j = 0 THEN Start ELSE ReadStep(s, g[j - 1])
    <3>1. CASE j = k + 1
      <4>1. j # 0 /\ j - 1 = k /\ k \in 0 .. k
        BY <1>2, <3>1
      <4> QED
        BY <2>3, <3>1, <4>1
    <3>2. CASE j # k + 1 /\ j = 0
      <4>1. j \in 0 .. k
        BY <1>2, <3>2
      <4> QED
        BY <2>2, <2>3, <3>2, <4>1
    <3>3. CASE j # k + 1 /\ j # 0
      <4>1. j \in 0 .. k /\ j - 1 \in 0 .. k
        BY <1>2, <2>4, <3>3
      <4> QED
        BY <2>2, <2>3, <3>3, <4>1
    <3> QED
      BY <3>1, <3>2, <3>3
  <2>5. Reads(s, k + 1, g)
    BY <2>3, <2>4 DEF Reads
  <2>6. k + 1 \in 0 .. n
    BY <1>2
  <2> QED
    BY <2>5, <2>6
<1>3. \A k \in 0 .. n - 1 : k \in P => k + 1 \in P
  BY <1>2
<1> HIDE DEF P
<1>4. \A k \in 0 .. n : k \in P
  BY <1>1, <1>3, Stepwise
<1>5. n \in P
  BY <1>4
<1> QED
  BY <1>5 DEF P

\* It is what Decoded does.
LEMMA DecodedReads ==
  ASSUME NEW s, Len(s) \in Nat
  PROVE  \E f : /\ f[0] = Start /\ \A k \in 1 .. Len(s) : f[k] = ReadStep(s, f[k - 1])
                /\ Decoded(s) = f[Len(s)].values
<1> DEFINE f == CHOOSE g : Reads(s, Len(s), g)
<1>1. Reads(s, Len(s), f)
  BY ReadsExist
<1>2. Decoded(s) = f[Len(s)].values
  BY DEF Decoded, Reads, ReadStep, Start
<1> HIDE DEF f
<1>3. \A k \in 0 .. Len(s) : f[k] = IF k = 0 THEN Start ELSE ReadStep(s, f[k - 1])
  BY <1>1 DEF Reads
<1>4. 0 \in 0 .. Len(s) /\ \A k \in 1 .. Len(s) : k \in 0 .. Len(s) /\ k # 0
  OBVIOUS
<1> QED
  BY <1>2, <1>3, <1>4

\* What can be read.
ReadValue == Value \cup [kind : {"number"}, value : Int]

\* What a reader makes of a value is of the types of what it reads.
LEMMA MeaningType ==
  ASSUME NEW v, v \in Value
  PROVE  Meaning(v) \in Seq(ReadValue)
<1>1. CASE v.kind \in {"int", "uint"}
  <2>1. v.value \in Int
    BY <1>1, WordAndLong DEF Value
  <2>2. PICK x : x = IF 2 * v.value = -Long THEN 0 ELSE v.value
    OBVIOUS
  <2>3. x \in Int
    BY <2>1, <2>2
  <2>4. [kind |-> "number", value |-> x] \in ReadValue
    BY <2>3 DEF ReadValue
  <2>5. Meaning(v) = <<[kind |-> "number", value |-> x]>>
    BY <1>1, <2>2 DEF Meaning
  <2> QED
    BY <2>4, <2>5
<1>2. CASE v.kind \notin {"int", "uint"}
  <2>1. Meaning(v) = << >> \/ Meaning(v) = <<v>>
    BY <1>2 DEF Meaning
  <2>2. v \in ReadValue
    BY DEF ReadValue
  <2>3. \A x : x \in ReadValue => <<x>> \in Seq(ReadValue)
    OBVIOUS
  <2>4. << >> \in Seq(ReadValue)
    BY EmptySeq
  <2> QED
    BY <2>1, <2>2, <2>3, <2>4
<1> QED
  BY <1>1, <1>2

\* The bytes of values, one after the other, and what a reader makes of them.
BytesOf(u) == FlattenSeq([i \in 1 .. Len(u) |-> FlattenSeq(Encoded(u[i]))])
MeaningOf(u) == FlattenSeq([i \in 1 .. Len(u) |-> Meaning(u[i])])

\* A value is encoded to lists of bytes.
LEMMA EncodedType ==
  ASSUME NEW v, v \in Value
  PROVE  Encoded(v) \in Seq(Seq(Byte)) /\ FlattenSeq(Encoded(v)) \in Seq(Byte)
<1> DEFINE s == [i \in Nat |-> FlattenSeq(Encoded(v))[i + 1]]
<1>1. ASSUME NEW k, k \in 1 .. Len(FlattenSeq(Encoded(v)))
      PROVE  s[0 + (k - 1)] = FlattenSeq(Encoded(v))[k]
  <2> DEFINE e == FlattenSeq(Encoded(v))
  <2> HIDE DEF e
  <2> QED
    <3>1. k - 1 \in Nat /\ 0 + (k - 1) = k - 1 /\ (k - 1) + 1 = k
      BY <1>1
    <3>2. \A i \in Nat : s[i] = FlattenSeq(Encoded(v))[i + 1]
      OBVIOUS
    <3> HIDE DEF s
    <3>3. s[k - 1] = FlattenSeq(Encoded(v))[(k - 1) + 1]
      BY <3>1, <3>2
    <3> QED
      BY <3>1, <3>3
<1>2. At(s, 0, FlattenSeq(Encoded(v)))
  <2> HIDE DEF s
  <2> QED
    BY <1>1 DEF At
<1>3. Encoded(v) \in Seq(Seq(Byte))
  <2> HIDE DEF s
  <2>1. 0 \in Nat
    OBVIOUS
  <2> QED
    BY <1>2, <2>1, ReadsBack
<1>4. FlattenSeq(Encoded(v)) \in Seq(Byte)
  BY <1>3, FlattenAppend
<1> QED
  BY <1>3, <1>4

\* One step of the reader, where the bytes of a value begin.
ReadsOne(v, s, p, e, values) ==
  /\ ReadStep(s, [next |-> p, values |-> values])
       = [next |-> p + Len(e), values |-> values \o Meaning(v)]
  /\ Len(e) >= 2

\* A step of the reader at the bytes of a value adds what the value means.
LEMMA ReadOne ==
  ASSUME NEW v \in Value, NEW s, NEW p \in Nat, Len(s) \in Nat, p <= Len(s),
         NEW e, e = FlattenSeq(Encoded(v)), e # << >>, At(s, p, e),
         NEW values \in Seq(ReadValue)
  PROVE  ReadsOne(v, s, p, e, values)
<1>1. IsReadBack(v, s, p)
  BY ReadsBack
<1>2. /\ Len(e) >= 2 /\ ValueAt(s, p).next = p + Len(e)
      /\ Meaning(v) = <<[kind |-> ValueAt(s, p).kind, value |-> ValueAt(s, p).value]>>
  BY <1>1 DEF IsReadBack
<1>3. PICK x : x = [kind |-> ValueAt(s, p).kind, value |-> ValueAt(s, p).value]
  OBVIOUS
<1>4. ~(p > Len(s))
  OBVIOUS
<1>5. ReadStep(s, [next |-> p, values |-> values]) = [next |-> p + Len(e), values |-> Append(values, x)]
  BY <1>2, <1>3, <1>4 DEF ReadStep
<1>6. x \in ReadValue
  <2>1. Meaning(v) \in Seq(ReadValue) /\ Meaning(v) = <<x>>
    BY <1>2, <1>3, MeaningType
  <2> QED
    BY <2>1
<1>7. Append(values, x) = values \o <<x>>
  BY <1>6, AppendIsConcat
<1> QED
  BY <1>2, <1>3, <1>5, <1>7 DEF ReadsOne

\* Without bytes there is no meaning.
LEMMA ReadNone ==
  ASSUME NEW v, v \in Value, FlattenSeq(Encoded(v)) = << >>
  PROVE  Meaning(v) = << >>
<1> DEFINE s == << >>
<1>1. At(s, 0, FlattenSeq(Encoded(v)))
  <2>1. Len(<< >>) = 0 /\ \A k : k \notin 1 .. 0
    OBVIOUS
  <2> QED
    BY <2>1 DEF At
<1>2. IsReadBack(v, s, 0)
  <2>1. 0 \in Nat
    OBVIOUS
  <2> HIDE DEF s
  <2> QED
    BY <1>1, <2>1, ReadsBack
<1>3. ~(Len(<< >>) >= 2)
  OBVIOUS
<1> QED
  BY <1>2, <1>3 DEF IsReadBack

\* Where one of many sequences is, if all follow four bytes.
LEMMA PlaceOf ==
  ASSUME NEW n \in Nat, NEW ss, NEW p, Joins(Byte, n, ss, p),
         NEW k \in 1 .. n, NEW h, h \in Seq(Byte), Len(h) = 4
  PROVE  /\ At(h \o p[n], 5 + Len(p[k - 1]), ss[k])
         /\ Len(p[k]) = Len(p[k - 1]) + Len(ss[k]) /\ Len(p[k]) <= Len(p[n])
         /\ Len(p[k - 1]) \in Nat /\ Len(ss[k]) \in Nat
<1>0. p \in [0 .. n -> Seq(Byte)] /\ \A j \in 1 .. n : ss[j] \in Seq(Byte) /\ p[j] = p[j - 1] \o ss[j]
  BY DEF Joins
<1>1. k \in 0 .. n /\ k - 1 \in 0 .. n /\ n \in 0 .. n
  OBVIOUS
<1>2. PICK a, b, c, z : a = p[k - 1] /\ b = ss[k] /\ c = p[k] /\ z = p[n]
  OBVIOUS
<1>3. a \in Seq(Byte) /\ b \in Seq(Byte) /\ c = a \o b /\ z \in Seq(Byte) /\ c \in Seq(Byte)
  BY <1>0, <1>1, <1>2
<1>4. Len(c) \in Nat /\ Len(z) \in Nat /\ Len(c) <= Len(z) /\ \A i \in 1 .. Len(c) : z[i] = c[i]
  <2>1. /\ Len(p[k]) \in Nat /\ Len(p[n]) \in Nat /\ Len(p[k]) <= Len(p[n])
        /\ \A i \in 1 .. Len(p[k]) : p[n][i] = p[k][i]
    BY <1>1, PathPrefix
  <2> QED
    BY <1>2, <2>1
<1>5. /\ Len(c) = Len(a) + Len(b) /\ Len(a) \in Nat /\ Len(b) \in Nat
      /\ \A i \in 1 .. Len(a) + Len(b) : c[i] = IF i <= Len(a) THEN a[i] ELSE b[i - Len(a)]
  BY <1>3, ConcatProperties, LenProperties
<1>6. \A i \in 1 .. 4 + Len(z) : (h \o z)[i] = IF i <= 4 THEN h[i] ELSE z[i - 4]
  <2>1. \A i \in 1 .. Len(h) + Len(z) : (h \o z)[i] = IF i <= Len(h) THEN h[i] ELSE z[i - Len(h)]
    BY <1>3, ConcatProperties
  <2> QED
    BY <2>1
<1>7. ASSUME NEW j, j \in 1 .. Len(b)
      PROVE  (h \o z)[(5 + Len(a)) + (j - 1)] = b[j]
  <2>1. PICK i : i = Len(a) + j
    OBVIOUS
  <2>2. i \in 1 .. Len(c) /\ ~(i <= Len(a)) /\ i - Len(a) = j /\ i \in 1 .. Len(a) + Len(b)
    BY <1>5, <1>7, <2>1
  <2>3. PICK q : q = 4 + i
    OBVIOUS
  <2>4. q \in 1 .. 4 + Len(z) /\ ~(q <= 4) /\ q - 4 = i /\ q = (5 + Len(a)) + (j - 1)
    BY <1>4, <1>5, <1>7, <2>1, <2>2, <2>3
  <2>5. (h \o z)[q] = z[i]
    BY <1>6, <2>4
  <2>6. z[i] = c[i]
    BY <1>4, <2>2
  <2>7. c[i] = b[j]
    BY <1>5, <2>2
  <2> QED
    BY <2>4, <2>5, <2>6, <2>7
<1>8. At(h \o z, 5 + Len(a), b)
  BY <1>7 DEF At
<1> QED
  BY <1>2, <1>4, <1>5, <1>8

\* A reader of the bytes of values gets what they mean.
LEMMA DecodedIs ==
  ASSUME NEW u, u \in Seq(Value), NEW h, h \in Seq(Byte), Len(h) = 4
  PROVE  Decoded(h \o BytesOf(u)) = MeaningOf(u)
<1> DEFINE ee == [i \in 1 .. Len(u) |-> FlattenSeq(Encoded(u[i]))]
           mm == [i \in 1 .. Len(u) |-> Meaning(u[i])]
<1>1. Len(u) \in Nat /\ \A i \in 1 .. Len(u) : u[i] \in Value
  BY LenProperties, ElementOfSeq
<1>2. PICK n \in Nat : n = Len(u)
  BY <1>1
<1>3. \A i \in 1 .. n : /\ ee[i] = FlattenSeq(Encoded(u[i])) /\ ee[i] \in Seq(Byte)
                        /\ mm[i] = Meaning(u[i]) /\ mm[i] \in Seq(ReadValue)
  BY <1>1, <1>2, EncodedType, MeaningType
<1>4. ee \in Seq(Seq(Byte)) /\ Len(ee) = n
  <2>1. ee = [i \in 1 .. n |-> ee[i]]
    BY <1>2
  <2>2. \A i \in 1 .. n : ee[i] \in Seq(Byte)
    BY <1>3
  <2> HIDE DEF ee
  <2> QED
    BY <2>1, <2>2, FunctionIsSeq
<1>5. mm \in Seq(Seq(ReadValue)) /\ Len(mm) = n
  <2>1. mm = [i \in 1 .. n |-> mm[i]]
    BY <1>2
  <2>2. \A i \in 1 .. n : mm[i] \in Seq(ReadValue)
    BY <1>3
  <2> HIDE DEF mm
  <2> QED
    BY <2>1, <2>2, FunctionIsSeq
<1>6. BytesOf(u) = FlattenSeq(ee) /\ MeaningOf(u) = FlattenSeq(mm)
  BY DEF BytesOf, MeaningOf
<1> HIDE DEF ee, mm
<1>7. PICK p : /\ p \in [0 .. n -> Seq(Byte)]
               /\ p[0] = << >> /\ \A k \in 1 .. n : p[k] = p[k - 1] \o ee[k]
  <2>1. \E p \in [0 .. Len(ee) -> Seq(Byte)] :
          p[0] = << >> /\ \A k \in 1 .. Len(ee) : p[k] = p[k - 1] \o ee[k]
    <3>1. ee \in Seq(Seq(Byte))
      BY <1>4
    <3> QED
      BY ONLY <3>1, FlattenPathExists
  <2>2. Len(ee) = n
    BY <1>4
  <2> QED
    BY <2>1, <2>2
<1>8. PICK q : /\ q \in [0 .. n -> Seq(ReadValue)]
               /\ q[0] = << >> /\ \A k \in 1 .. n : q[k] = q[k - 1] \o mm[k]
  <2>1. \E f \in [0 .. Len(mm) -> Seq(ReadValue)] :
          f[0] = << >> /\ \A k \in 1 .. Len(mm) : f[k] = f[k - 1] \o mm[k]
    <3>1. mm \in Seq(Seq(ReadValue))
      BY <1>5
    <3> QED
      BY ONLY <3>1, FlattenPathExists
  <2>2. Len(mm) = n
    BY <1>5
  <2> QED
    BY <2>1, <2>2
<1>9. FlattenSeq(ee) = p[n]
  BY <1>4, <1>7, FlattenPath
<1>10. FlattenSeq(mm) = q[n]
  BY <1>5, <1>8, FlattenPath
<1>11. PICK s : s = h \o p[n]
  OBVIOUS
<1>12. \A k \in 0 .. n : p[k] \in Seq(Byte) /\ Len(p[k]) \in Nat
  BY <1>7, LenProperties
<1>13. Len(s) = 4 + Len(p[n]) /\ Len(s) \in Nat
  <2>1. p[n] \in Seq(Byte) /\ Len(p[n]) \in Nat
    BY <1>2, <1>12
  <2>2. PICK z : z = p[n]
    OBVIOUS
  <2>3. z \in Seq(Byte) /\ Len(z) \in Nat
    BY <2>1, <2>2
  <2>4. Len(h \o z) = Len(h) + Len(z)
    BY <2>3, ConcatProperties
  <2>5. s = h \o z
    BY <1>11, <2>2
  <2> QED
    BY <2>2, <2>3, <2>4, <2>5
<1>14. PICK f : /\ f[0] = Start /\ \A k \in 1 .. Len(s) : f[k] = ReadStep(s, f[k - 1])
                /\ Decoded(s) = f[Len(s)].values
  BY <1>13, DecodedReads
<1> DEFINE State(k) == [next |-> 5 + Len(p[k]), values |-> q[k]]
           P == {k \in 0 .. n : \E m : m \in Nat /\ m <= Len(p[k]) /\ f[m] = State(k)}
<1>15. 0 \in P
  <2>1. Len(p[0]) = 0 /\ 5 + 0 = 5
    BY <1>7
  <2>2. State(0) = Start
    BY <1>8, <2>1 DEF Start
  <2>3. 0 \in Nat /\ 0 <= Len(p[0]) /\ f[0] = State(0) /\ 0 \in 0 .. n
    BY <1>14, <2>1, <2>2
  <2> HIDE DEF State
  <2> QED
    BY <2>3
<1>16. ASSUME NEW k, k \in 0 .. n - 1, k \in P
       PROVE  k + 1 \in P
  <2>1. PICK i : i = k + 1
    OBVIOUS
  <2>2. i \in 1 .. n /\ i - 1 = k /\ k \in 0 .. n /\ i \in 0 .. n
    BY <1>2, <1>16, <2>1
  <2>3. PICK m : m \in Nat /\ m <= Len(p[k]) /\ f[m] = State(k)
    BY <1>16
  <2>4. PICK v : v = u[i]
    OBVIOUS
  <2>5. PICK e : e = ee[i]
    OBVIOUS
  <2>6. v \in Value /\ e = FlattenSeq(Encoded(v)) /\ mm[i] = Meaning(v) /\ e \in Seq(Byte)
    BY <1>1, <1>2, <1>3, <2>2, <2>4, <2>5
  <2>7. /\ At(s, 5 + Len(p[k]), e)
        /\ Len(p[i]) = Len(p[k]) + Len(e) /\ Len(p[i]) <= Len(p[n])
        /\ Len(p[k]) \in Nat /\ Len(e) \in Nat
    <3>1. Joins(Byte, n, ee, p)
      BY <1>3, <1>7 DEF Joins
    <3>2. /\ At(h \o p[n], 5 + Len(p[i - 1]), ee[i])
          /\ Len(p[i]) = Len(p[i - 1]) + Len(ee[i]) /\ Len(p[i]) <= Len(p[n])
          /\ Len(p[i - 1]) \in Nat /\ Len(ee[i]) \in Nat
      BY <2>2, <3>1, PlaceOf
    <3> QED
      BY <1>11, <2>2, <2>5, <3>2
  <2>8. q[i] = q[k] \o Meaning(v) /\ q[k] \in Seq(ReadValue)
    BY <1>8, <2>2, <2>6
  <2>9. CASE e = << >>
    <3>1. Len(e) = 0
      BY <2>9
    <3>2. Len(p[i]) = Len(p[k])
      BY <2>7, <3>1
    <3>3. Meaning(v) = << >>
      BY <2>6, <2>9, ReadNone
    <3>4. q[i] = q[k]
      BY <2>8, <3>3, ConcatEmptySeq
    <3>5. State(i) = State(k)
      BY <3>2, <3>4
    <3> HIDE DEF State
    <3> QED
      BY <2>1, <2>2, <2>3, <3>2, <3>5
  <2>10. CASE e # << >>
    <3>1. PICK at : at = 5 + Len(p[k])
      OBVIOUS
    <3>2. PICK values : values = q[k]
      OBVIOUS
    <3>3. e # << >> => Len(e) > 0
      BY <2>6, <2>7, EmptySeq
    <3>4. at \in Nat /\ at <= Len(s)
      BY <1>13, <2>7, <2>10, <3>1, <3>3
    <3>5. /\ ReadStep(s, [next |-> at, values |-> values])
              = [next |-> at + Len(e), values |-> values \o Meaning(v)]
          /\ Len(e) >= 2
      <4>1. Len(s) \in Nat
        BY <1>13
      <4>2. v \in Value /\ e = FlattenSeq(Encoded(v)) /\ e # << >>
        BY <2>6, <2>10
      <4>3. At(s, at, e) /\ values \in Seq(ReadValue)
        BY <2>7, <2>8, <3>1, <3>2
      <4>4. ReadsOne(v, s, at, e, values)
        BY <3>4, <4>1, <4>2, <4>3, ReadOne
      <4> QED
        BY <4>4 DEF ReadsOne
    <3>6. PICK j : j = m + 1
      OBVIOUS
    <3>7. j \in Nat /\ j <= Len(p[i]) /\ j \in 1 .. Len(s) /\ j - 1 = m
      <4>1. m \in Nat /\ m <= Len(p[k])
        BY <2>3
      <4>2. Len(e) >= 2
        BY <3>5
      <4> HIDE DEF State, P
      <4> QED
        BY <1>13, <2>7, <3>6, <4>1, <4>2
    <3>8. f[j] = ReadStep(s, f[m])
      BY <1>14, <3>7
    <3>9. at + Len(e) = 5 + Len(p[i])
      BY <2>7, <3>1
    <3>10. f[j] = State(i)
      BY <2>3, <2>8, <3>1, <3>2, <3>5, <3>8, <3>9
    <3> HIDE DEF State
    <3> QED
      BY <2>1, <2>2, <3>7, <3>10
  <2> QED
    BY <2>9, <2>10
<1>17. \A k \in 0 .. n - 1 : k \in P => k + 1 \in P
  BY <1>16
<1>18. \A k \in 0 .. n : k \in P
  <2> HIDE DEF P
  <2> QED
    BY <1>2, <1>15, <1>17, Stepwise
<1>19. PICK m : m \in Nat /\ m <= Len(p[n]) /\ f[m] = State(n)
  BY <1>2, <1>18
<1>20. PICK r : r = State(n)
  OBVIOUS
<1>21. ReadStep(s, r) = r
  <2>1. r.next = 5 + Len(p[n])
    BY <1>20
  <2>2. 5 + Len(p[n]) > Len(s)
    BY <1>2, <1>12, <1>13
  <2> HIDE DEF State
  <2> QED
    BY <2>1, <2>2 DEF ReadStep
<1>22. r.values = q[n]
  BY <1>20
<1> DEFINE Q == {d \in 0 .. Len(s) - m : f[m + d] = r}
<1>23. 0 \in Q /\ Len(s) - m \in Nat
  <2>1. m + 0 = m /\ Len(s) - m \in Nat
    BY <1>2, <1>12, <1>13, <1>19
  <2> HIDE DEF State
  <2> QED
    BY <1>19, <1>20, <2>1
<1>24. ASSUME NEW d, d \in 0 .. (Len(s) - m) - 1, d \in Q
       PROVE  d + 1 \in Q
  <2>1. PICK j : j = m + (d + 1)
    OBVIOUS
  <2>2. j \in 1 .. Len(s) /\ j - 1 = m + d /\ d + 1 \in 0 .. Len(s) - m
    BY <1>13, <1>19, <1>24, <2>1
  <2>3. f[j] = ReadStep(s, f[m + d])
    BY <1>14, <2>2
  <2>4. f[m + d] = r
    BY <1>24
  <2> QED
    BY <1>21, <2>1, <2>2, <2>3, <2>4
<1>25. \A d \in 0 .. (Len(s) - m) - 1 : d \in Q => d + 1 \in Q
  BY <1>24
<1>26. \A d \in 0 .. Len(s) - m : d \in Q
  <2> HIDE DEF Q
  <2> QED
    BY <1>23, <1>25, Stepwise
<1>27. f[Len(s)] = r
  <2>1. Len(s) - m \in 0 .. Len(s) - m /\ m + (Len(s) - m) = Len(s)
    BY <1>13, <1>19, <1>23
  <2> QED
    BY <1>26, <2>1
<1> QED
  BY <1>6, <1>9, <1>10, <1>11, <1>14, <1>22, <1>27

-----------------------------------------------------------------------------
(* The buffers.                                                             *)

\* The bytes in buffers.
DataOf(ps) == [i \in DOMAIN ps |-> ps[i].data]

\* The bytes of each buffer.
LEMMA DataProperties ==
  ASSUME NEW ps \in Seq(Part)
  PROVE  /\ DataOf(ps) \in Seq(Seq(Byte)) /\ Len(DataOf(ps)) = Len(ps) /\ Len(ps) \in Nat
         /\ \A i \in 1 .. Len(ps) : DataOf(ps)[i] = ps[i].data /\ ps[i].data \in Seq(Byte)
<1>1. Len(ps) \in Nat /\ DOMAIN ps = 1 .. Len(ps) /\ \A i \in 1 .. Len(ps) : ps[i] \in Part
  BY LenProperties, ElementOfSeq
<1>2. \A i \in 1 .. Len(ps) : ps[i].data \in Seq(Byte)
  BY <1>1 DEF Part
<1> DEFINE d == DataOf(ps)
<1>3. d = [i \in 1 .. Len(ps) |-> d[i]] /\ \A i \in 1 .. Len(ps) : d[i] = ps[i].data
  BY <1>1 DEF DataOf
<1>4. \A i \in 1 .. Len(ps) : d[i] \in Seq(Byte)
  BY <1>2, <1>3
<1> HIDE DEF d
<1>5. d \in Seq(Seq(Byte)) /\ Len(d) = Len(ps)
  <2>1. PICK n \in Nat : n = Len(ps)
    BY <1>1
  <2>2. d = [i \in 1 .. n |-> d[i]] /\ \A i \in 1 .. n : d[i] \in Seq(Byte)
    BY <1>3, <1>4, <2>1
  <2>3. d \in Seq(Seq(Byte)) /\ Len(d) = n
    BY ONLY <2>2, FunctionIsSeq
  <2> QED
    BY <2>1, <2>3
<1> QED
  BY <1>1, <1>2, <1>3, <1>5 DEF d

\* The bytes with one more buffer.
LEMMA DataOfAppend ==
  ASSUME NEW ps \in Seq(Part), NEW part \in Part
  PROVE  DataOf(Append(ps, part)) = Append(DataOf(ps), part.data)
<1> DEFINE qs == Append(ps, part)
<1>1. /\ qs \in Seq(Part) /\ Len(qs) = Len(ps) + 1 /\ qs[Len(ps) + 1] = part
      /\ \A i \in 1 .. Len(ps) : qs[i] = ps[i]
      /\ Len(ps) \in Nat
  BY AppendProperties, LenProperties
<1> HIDE DEF qs
<1> DEFINE d == DataOf(ps)
           e == DataOf(qs)
           a == part.data
<1>2. /\ d \in Seq(Seq(Byte)) /\ Len(d) = Len(ps)
      /\ \A i \in 1 .. Len(ps) : d[i] = ps[i].data
  BY DataProperties
<1>3. /\ e \in Seq(Seq(Byte)) /\ Len(e) = Len(qs)
      /\ \A i \in 1 .. Len(qs) : e[i] = qs[i].data
  BY <1>1, DataProperties
<1>4. a \in Seq(Byte)
  BY DEF Part
<1>5. e[Len(ps) + 1] = a /\ \A i \in 1 .. Len(ps) : e[i] = d[i]
  <2>1. Len(ps) + 1 \in 1 .. Len(qs) /\ \A i \in 1 .. Len(ps) : i \in 1 .. Len(qs)
    BY <1>1
  <2> HIDE DEF d, e
  <2> QED
    BY <1>1, <1>2, <1>3, <2>1
<1> HIDE DEF d, e, a
<1>6. /\ Append(d, a) \in Seq(Seq(Byte)) /\ Len(Append(d, a)) = Len(d) + 1
      /\ Append(d, a)[Len(d) + 1] = a /\ \A i \in 1 .. Len(d) : Append(d, a)[i] = d[i]
  BY <1>2, <1>4, AppendProperties
<1> DEFINE f == Append(d, a)
<1> HIDE DEF f
<1>7. \A i \in 1 .. Len(e) : e[i] = f[i]
  <2> SUFFICES ASSUME NEW i \in 1 .. Len(e) PROVE e[i] = f[i]
    OBVIOUS
  <2>1. i \in 1 .. Len(ps) \/ i = Len(ps) + 1
    BY <1>1, <1>3
  <2> QED
    BY <1>2, <1>5, <1>6, <2>1 DEF f
<1>8. e = f
  <2>1. Len(e) = Len(f) /\ e \in Seq(Seq(Byte)) /\ f \in Seq(Seq(Byte))
    BY <1>1, <1>2, <1>3, <1>6 DEF f
  <2> QED
    BY <1>7, <2>1, SeqEqual
<1> QED
  BY <1>8 DEF d, e, f, a, qs

\* The bytes of one buffer are replaced.
DataReplaced(ps, j, a, qs) == qs = [ps EXCEPT ![j].data = a]

\* The bytes when those of one buffer are replaced.
LEMMA DataOfExcept ==
  ASSUME NEW ps \in Seq(Part), NEW j \in 1 .. Len(ps), NEW a \in Seq(Byte),
         NEW qs, DataReplaced(ps, j, a, qs)
  PROVE  /\ qs \in Seq(Part) /\ Len(qs) = Len(ps)
         /\ \A i \in 1 .. Len(ps) :
              qs[i].size = ps[i].size /\ qs[i].data = IF i = j THEN a ELSE ps[i].data
         /\ DataOf(qs) = [DataOf(ps) EXCEPT ![j] = a]
<1>1. Len(ps) \in Nat /\ DOMAIN ps = 1 .. Len(ps) /\ \A i \in 1 .. Len(ps) : ps[i] \in Part
  BY LenProperties, ElementOfSeq
<1>b. qs = [ps EXCEPT ![j].data = a]
  BY DEF DataReplaced
<1>2. \A i \in 1 .. Len(ps) : /\ ps[i].size \in Nat /\ ps[i].data \in Seq(Byte)
                              /\ ps[i] = [size |-> ps[i].size, data |-> ps[i].data]
  BY <1>1 DEF Part
<1>3. \A i \in 1 .. Len(ps) : qs[i] = IF i = j THEN [ps[j] EXCEPT !.data = a] ELSE ps[i]
  BY <1>1, <1>b
<1>4. [ps[j] EXCEPT !.data = a] = [size |-> ps[j].size, data |-> a]
  <2>1. ASSUME NEW x \in Part
        PROVE  [x EXCEPT !.data = a] = [size |-> x.size, data |-> a]
    <3>1. PICK k, d : k = x.size /\ d = x.data
      OBVIOUS
    <3>2. x = [size |-> k, data |-> d]
      BY <3>1 DEF Part
    <3>3. [[size |-> k, data |-> d] EXCEPT !.data = a] = [size |-> k, data |-> a]
      OBVIOUS
    <3> QED
      BY <3>1, <3>2, <3>3
  <2>2. ps[j] \in Part
    BY <1>1
  <2> QED
    BY <2>1, <2>2
<1>5. \A i \in 1 .. Len(ps) : qs[i] = [size |-> ps[i].size, data |-> IF i = j THEN a ELSE ps[i].data]
  BY <1>2, <1>3, <1>4
<1>6. ASSUME NEW i \in 1 .. Len(ps)
      PROVE  qs[i] \in Part
  <2>1. PICK x, y : x = ps[i].size /\ y = IF i = j THEN a ELSE ps[i].data
    OBVIOUS
  <2>2. x \in Nat /\ y \in Seq(Byte)
    BY <1>2, <2>1
  <2>3. qs[i] = [size |-> x, data |-> y]
    BY <1>5, <2>1
  <2> QED
    BY <2>2, <2>3 DEF Part
<1>7. qs \in Seq(Part) /\ Len(qs) = Len(ps)
  <2>1. qs = [i \in 1 .. Len(ps) |-> qs[i]]
    BY <1>1, <1>b
  <2>2. PICK n \in Nat : n = Len(ps)
    BY <1>1
  <2>3. qs = [i \in 1 .. n |-> qs[i]] /\ \A i \in 1 .. n : qs[i] \in Part
    BY <1>6, <2>1, <2>2
  <2>4. qs \in Seq(Part) /\ Len(qs) = n
    BY ONLY <2>3, FunctionIsSeq
  <2> QED
    BY <2>2, <2>4
<1>a. ASSUME NEW i \in 1 .. Len(ps)
      PROVE  qs[i].size = ps[i].size /\ qs[i].data = IF i = j THEN a ELSE ps[i].data
  <2>1. PICK x, y : x = ps[i].size /\ y = IF i = j THEN a ELSE ps[i].data
    OBVIOUS
  <2>2. PICK r : r = qs[i]
    OBVIOUS
  <2>3. r = [size |-> x, data |-> y]
    BY <1>5, <2>1, <2>2
  <2>4. r.size = x /\ r.data = y
    BY ONLY <2>3
  <2> QED
    BY <2>1, <2>2, <2>4
<1> DEFINE d == DataOf(ps)
           e == DataOf(qs)
           f == [d EXCEPT ![j] = a]
<1>8. /\ d \in Seq(Seq(Byte)) /\ Len(d) = Len(ps)
      /\ \A i \in 1 .. Len(ps) : d[i] = ps[i].data
  BY DataProperties
<1>9. /\ e \in Seq(Seq(Byte)) /\ Len(e) = Len(ps)
      /\ \A i \in 1 .. Len(ps) : e[i] = IF i = j THEN a ELSE ps[i].data
  <2>1. \A i \in 1 .. Len(qs) : e[i] = qs[i].data
    BY <1>7, DataProperties
  <2>2. e \in Seq(Seq(Byte)) /\ Len(e) = Len(qs)
    BY <1>7, DataProperties
  <2> HIDE DEF e
  <2> QED
    BY <1>a, <1>7, <2>1, <2>2
<1> HIDE DEF d, e
<1>10. /\ f \in Seq(Seq(Byte)) /\ Len(f) = Len(d)
       /\ \A i \in 1 .. Len(d) : f[i] = IF i = j THEN a ELSE d[i]
  BY <1>8, ExceptSeq
<1> HIDE DEF f
<1>11. \A i \in 1 .. Len(e) : e[i] = f[i]
  BY <1>8, <1>9, <1>10
<1>12. e = f
  <2>1. Len(e) = Len(f) /\ e \in Seq(Seq(Byte)) /\ f \in Seq(Seq(Byte))
    BY <1>8, <1>9, <1>10
  <2> QED
    BY <1>11, <2>1, SeqEqual
<1> QED
  BY <1>a, <1>7, <1>12 DEF d, e, f

\* What is pushed by push_memory comes behind what is there.
LEMMA DataGrows ==
  ASSUME NEW ps \in Seq(Part), ps # << >>, NEW m \in Seq(Byte)
  PROVE  FlattenSeq(DataOf([ps EXCEPT ![Len(ps)].data = ps[Len(ps)].data \o m]))
           = FlattenSeq(DataOf(ps)) \o m
<1>1. Len(ps) \in 1 .. Len(ps) /\ Len(ps) \in Nat
  BY LenProperties, EmptySeq
<1> DEFINE d == DataOf(ps)
<1>2. d \in Seq(Seq(Byte)) /\ Len(d) = Len(ps) /\ d[Len(ps)] = ps[Len(ps)].data /\ d[Len(ps)] \in Seq(Byte)
  BY <1>1, DataProperties
<1>3. PICK b : b = ps[Len(ps)].data \o m
  OBVIOUS
<1>4. b \in Seq(Byte)
  BY <1>2, <1>3, ConcatProperties
<1>5. DataOf([ps EXCEPT ![Len(ps)].data = b]) = [DataOf(ps) EXCEPT ![Len(ps)] = b]
  <2>1. PICK qs : qs = [ps EXCEPT ![Len(ps)].data = b]
    OBVIOUS
  <2>2. DataOf(qs) = [DataOf(ps) EXCEPT ![Len(ps)] = b]
    <3>1. DataReplaced(ps, Len(ps), b, qs)
      BY <2>1 DEF DataReplaced
    <3> QED
      BY <1>1, <1>4, <3>1, DataOfExcept
  <2> QED
    BY <2>1, <2>2
<1> HIDE DEF d
<1>6. d # << >> /\ Last(d) = d[Len(d)]
  BY <1>1, <1>2, EmptySeq DEF Last
<1>7. FlattenSeq([d EXCEPT ![Len(d)] = Last(d) \o m]) = FlattenSeq(d) \o m
  BY <1>2, <1>6, FlattenLast
<1>8. Last(d) \o m = b
  BY <1>2, <1>3, <1>6
<1> QED
  BY <1>2, <1>3, <1>5, <1>7, <1>8 DEF d

\* What write() copies are the bytes of the buffers.
LEMMA WrittenIs ==
  Written = FlattenSeq(DataOf(parts)) /\ Written' = FlattenSeq(DataOf(parts'))
BY DEF Written, DataOf

\* The bytes with one more value.
LEMMA BytesOfAppend ==
  ASSUME NEW u \in Seq(Value), NEW v \in Value
  PROVE  /\ BytesOf(<< >>) = << >> /\ BytesOf(u) \in Seq(Byte)
         /\ BytesOf(Append(u, v)) = BytesOf(u) \o FlattenSeq(Encoded(v))
<1> DEFINE E(x) == FlattenSeq(Encoded(x))
           w == Append(u, v)
           ee == [i \in 1 .. Len(u) |-> E(u[i])]
           ff == [i \in 1 .. Len(w) |-> E(w[i])]
<1>1. Len(u) \in Nat /\ \A i \in 1 .. Len(u) : u[i] \in Value
  BY LenProperties, ElementOfSeq
<1>2. /\ Len(w) = Len(u) + 1 /\ w[Len(u) + 1] = v
      /\ \A i \in 1 .. Len(u) : w[i] = u[i]
  BY AppendProperties
<1> HIDE DEF w
<1>3. \A x \in Value : E(x) \in Seq(Byte)
  BY EncodedType
<1> HIDE DEF E
<1>4. PICK n \in Nat : n = Len(u)
  BY <1>1
<1>5. \A i \in 1 .. n : ee[i] = E(u[i]) /\ ee[i] \in Seq(Byte)
  BY <1>1, <1>3, <1>4
<1>6. /\ \A i \in 1 .. n : ff[i] = E(u[i])
      /\ ff[n + 1] = E(v)
  <2>1. n + 1 \in 1 .. Len(w) /\ \A i \in 1 .. n : i \in 1 .. Len(w)
    BY <1>2, <1>4
  <2> QED
    BY <1>2, <1>4, <2>1
<1>7. ee = [i \in 1 .. n |-> ee[i]] /\ ff = [i \in 1 .. n + 1 |-> ff[i]]
  BY <1>2, <1>4
<1> HIDE DEF ee, ff
<1>8. \A i \in 1 .. n : ee[i] \in Seq(Byte)
  BY <1>5
<1>9. ee \in Seq(Seq(Byte)) /\ Len(ee) = n
  <2>1. ee = [i \in 1 .. n |-> ee[i]]
    BY <1>7
  <2> QED
    BY ONLY <1>8, <2>1, FunctionIsSeq
<1>10. \A i \in 1 .. n + 1 : ff[i] \in Seq(Byte)
  <2> SUFFICES ASSUME NEW i \in 1 .. n + 1 PROVE ff[i] \in Seq(Byte)
    OBVIOUS
  <2>1. i \in 1 .. n \/ i = n + 1
    OBVIOUS
  <2> QED
    BY <1>3, <1>5, <1>6, <2>1
<1>11. ff \in Seq(Seq(Byte)) /\ Len(ff) = n + 1
  <2>1. ff = [i \in 1 .. n + 1 |-> ff[i]] /\ n + 1 \in Nat
    BY <1>7
  <2>2. PICK m \in Nat : m = n + 1
    BY <2>1
  <2>3. ff = [i \in 1 .. m |-> ff[i]] /\ \A i \in 1 .. m : ff[i] \in Seq(Byte)
    BY <1>10, <2>1, <2>2
  <2>4. ff \in Seq(Seq(Byte)) /\ Len(ff) = m
    BY ONLY <2>3, FunctionIsSeq
  <2> QED
    BY <2>2, <2>4
<1>12. E(v) \in Seq(Byte)
  BY <1>3
<1>13. PICK gg : gg = Append(ee, E(v))
  OBVIOUS
<1>14. /\ gg \in Seq(Seq(Byte)) /\ Len(gg) = Len(ee) + 1 /\ gg[Len(ee) + 1] = E(v)
       /\ \A i \in 1 .. Len(ee) : gg[i] = ee[i]
  BY <1>9, <1>12, <1>13, AppendProperties
<1>15. ff = gg
  <2>1. Len(ff) = Len(gg)
    BY <1>9, <1>11, <1>14
  <2>2. ASSUME NEW i \in 1 .. Len(ff)
        PROVE  ff[i] = gg[i]
    <3>1. i \in 1 .. n \/ i = n + 1
      BY <1>11
    <3> QED
      BY <1>5, <1>6, <1>9, <1>14, <3>1
  <2> QED
    BY <1>11, <1>14, <2>1, <2>2, SeqEqual
<1>16. FlattenSeq(gg) = FlattenSeq(ee) \o E(v) /\ FlattenSeq(ee) \in Seq(Byte)
  BY <1>9, <1>12, <1>13, FlattenAppend
<1>17. BytesOf(u) = FlattenSeq(ee)
  BY DEF BytesOf, ee, E
<1>18. BytesOf(w) = FlattenSeq(ff)
  BY DEF BytesOf, ff, E
<1>19. BytesOf(<< >>) = << >>
  <2>1. [i \in 1 .. Len(<< >>) |-> FlattenSeq(Encoded(<< >>[i]))] = << >>
    OBVIOUS
  <2>2. FlattenSeq(<< >>) = << >>
    BY EmptySeq DEF FlattenSeq
  <2> QED
    BY <2>1, <2>2 DEF BytesOf
<1> QED
  BY <1>15, <1>16, <1>17, <1>18, <1>19 DEF w, E

\* What follows sequences of the same length, in equal sequences, is equal.
LEMMA Cancel ==
  ASSUME NEW T, NEW a \in Seq(T), NEW b \in Seq(T), NEW x \in Seq(T), NEW y \in Seq(T),
         Len(a) = Len(b), a \o x = b \o y
  PROVE  x = y
<1>1. Len(a) \in Nat /\ Len(x) \in Nat /\ Len(y) \in Nat
  BY LenProperties
<1>2. /\ Len(a \o x) = Len(a) + Len(x)
      /\ \A i \in 1 .. Len(a) + Len(x) : (a \o x)[i] = IF i <= Len(a) THEN a[i] ELSE x[i - Len(a)]
  BY ConcatProperties
<1>3. /\ Len(b \o y) = Len(b) + Len(y)
      /\ \A i \in 1 .. Len(b) + Len(y) : (b \o y)[i] = IF i <= Len(b) THEN b[i] ELSE y[i - Len(b)]
  BY ConcatProperties
<1>4. PICK z : z = a \o x
  OBVIOUS
<1>5. Len(x) = Len(y)
  BY <1>1, <1>2, <1>3
<1>6. ASSUME NEW i \in 1 .. Len(x)
      PROVE  x[i] = y[i]
  <2>1. PICK j : j = Len(a) + i
    OBVIOUS
  <2>2. j \in 1 .. Len(a) + Len(x) /\ ~(j <= Len(a)) /\ j - Len(a) = i
    BY <1>1, <2>1
  <2>3. z[j] = x[i]
    BY <1>2, <1>4, <2>2
  <2>4. z[j] = y[i]
    BY <1>3, <1>4, <1>5, <2>2
  <2> QED
    BY <2>3, <2>4
<1> QED
  BY <1>5, <1>6, SeqEqual

-----------------------------------------------------------------------------
\* The bytes of the buffers and what is still to be put there are those of the values,
\* behind four bytes, which are the size once it is set.
BytesKept ==
  \E h : /\ h \in Seq(Byte) /\ Len(h) = 4
         /\ Written \o FlattenSeq(pending) = h \o BytesOf(pushed)
         /\ closed => h = LittleEndian(size, 4)

\* The invariant of a message: its buffers, its size and its bytes.
EncodingInv ==
  /\ EncodingTypeOK /\ PartsFit /\ Len(parts[1].data) >= 4
  /\ size = Len(Written) % Word
  /\ closed => pending = << >>
  /\ BytesKept

\* What the invariant says of the buffers.
LEMMA Buffers ==
  ASSUME EncodingTypeOK
  PROVE  /\ parts \in Seq(Part) /\ parts # << >> /\ Len(parts) \in Nat /\ Len(parts) \in 1 .. Len(parts)
         /\ 1 \in 1 .. Len(parts)
         /\ DOMAIN parts = 1 .. Len(parts) /\ Last(parts) = parts[Len(parts)]
         /\ \A i \in 1 .. Len(parts) : /\ parts[i] \in Part /\ parts[i].size \in Nat
                                       /\ parts[i].data \in Seq(Byte) /\ Len(parts[i].data) \in Nat
         /\ Written \in Seq(Byte) /\ Len(Written) \in Nat
         /\ DataOf(parts) \in Seq(Seq(Byte)) /\ DataOf(parts) # << >> /\ DataOf(parts)[1] = parts[1].data
<1>1. parts \in Seq(Part) /\ parts # << >>
  BY DEF EncodingTypeOK
<1>2. Len(parts) \in Nat /\ Len(parts) # 0 /\ DOMAIN parts = 1 .. Len(parts)
  BY <1>1, LenProperties, EmptySeq
<1>3. Len(parts) \in 1 .. Len(parts) /\ 1 \in 1 .. Len(parts)
  BY <1>2
<1>4. \A i \in 1 .. Len(parts) : parts[i] \in Part
  BY <1>1, ElementOfSeq
<1>5. \A i \in 1 .. Len(parts) : parts[i].size \in Nat /\ parts[i].data \in Seq(Byte)
  BY <1>4 DEF Part
<1>6. \A i \in 1 .. Len(parts) : Len(parts[i].data) \in Nat
  BY <1>5, LenProperties
<1>7. /\ DataOf(parts) \in Seq(Seq(Byte)) /\ Len(DataOf(parts)) = Len(parts)
      /\ \A i \in 1 .. Len(parts) : DataOf(parts)[i] = parts[i].data
  BY <1>1, DataProperties
<1>8. Written \in Seq(Byte) /\ Len(Written) \in Nat
  <2>1. FlattenSeq(DataOf(parts)) \in Seq(Byte)
    <3>1. DataOf(parts) \in Seq(Seq(Byte))
      BY <1>7
    <3> QED
      BY ONLY <3>1, FlattenAppend
  <2>2. Written \in Seq(Byte)
    BY <2>1, WrittenIs
  <2> QED
    BY <2>2, LenProperties
<1>9. Last(parts) = parts[Len(parts)]
  BY DEF Last
<1>10. DataOf(parts) # << >> /\ DataOf(parts)[1] = parts[1].data
  <2>1. Len(DataOf(parts)) # 0
    BY <1>2, <1>7
  <2>2. Len(<< >>) = 0
    OBVIOUS
  <2> QED
    BY <1>3, <1>7, <2>1, <2>2
<1> QED
  BY <1>1, <1>2, <1>3, <1>4, <1>5, <1>6, <1>7, <1>8, <1>9, <1>10

\* What push_memory does to the buffers.
Grown(m) ==
  /\ parts' \in Seq(Part) /\ parts' # << >> /\ pos' \in Nat
  /\ Written' = Written \o m
  /\ PartsFit' /\ Len(parts'[1].data) >= 4

\* What fits comes into the last buffer.
LEMMA GrowsInPlace ==
  ASSUME EncodingTypeOK, PartsFit, Len(parts[1].data) >= 4,
         NEW m \in Seq(Byte), Fits(Len(m)),
         parts' = [parts EXCEPT ![Len(parts)].data = @ \o m], pos' = pos + Len(m)
  PROVE  Grown(m)
<1> DEFINE n == Len(parts)
           d == parts[n].data
<1>1. /\ parts \in Seq(Part) /\ n \in Nat /\ n \in 1 .. n /\ 1 \in 1 .. n /\ parts # << >>
      /\ DOMAIN parts = 1 .. n /\ Last(parts) = parts[n]
      /\ \A i \in 1 .. n : parts[i].size \in Nat /\ Len(parts[i].data) \in Nat
      /\ \A i \in 1 .. n : parts[i].data \in Seq(Byte)
  BY Buffers
<1>2. pos = Len(d) /\ \A i \in 1 .. n : Len(parts[i].data) <= parts[i].size
  BY <1>1 DEF PartsFit
<1>3. pos + Len(m) <= parts[n].size /\ Len(m) \in Nat
  BY <1>1, LenProperties DEF Fits
<1>4. PICK b : b = d \o m
  OBVIOUS
<1>5. b \in Seq(Byte) /\ Len(b) = Len(d) + Len(m)
  <2>1. d \in Seq(Byte)
    BY <1>1
  <2> QED
    BY <1>4, <2>1, ConcatProperties
<1>6. parts' = [parts EXCEPT ![n].data = b]
  BY <1>4
<1>7. /\ parts' \in Seq(Part) /\ Len(parts') = n
      /\ \A i \in 1 .. n :
           parts'[i].size = parts[i].size /\ parts'[i].data = IF i = n THEN b ELSE parts[i].data
  <2>1. DataReplaced(parts, n, b, parts')
    BY <1>6 DEF DataReplaced
  <2>2. parts \in Seq(Part) /\ n \in 1 .. Len(parts) /\ b \in Seq(Byte)
    BY <1>1, <1>5
  <2>3. PICK j, qs : j = n /\ qs = parts'
    OBVIOUS
  <2>4. /\ qs \in Seq(Part) /\ Len(qs) = Len(parts)
        /\ \A i \in 1 .. Len(parts) :
             qs[i].size = parts[i].size /\ qs[i].data = IF i = j THEN b ELSE parts[i].data
    <3>1. DataReplaced(parts, j, b, qs) /\ j \in 1 .. Len(parts)
      BY <2>1, <2>2, <2>3
    <3> QED
      BY ONLY <2>2, <3>1, DataOfExcept
  <2> QED
    BY <2>3, <2>4
<1>8. /\ DOMAIN parts' = 1 .. n /\ parts' # << >> /\ Last(parts') = parts'[n]
  <2>1. DOMAIN parts' = 1 .. n
    BY <1>7, LenProperties
  <2>2. Len(<< >>) = 0 /\ n # 0
    BY <1>1
  <2> QED
    BY <1>7, <2>1, <2>2 DEF Last
<1>10. pos' \in Nat /\ pos' = Len(b)
  BY <1>1, <1>2, <1>3, <1>5
<1>11. Written' = Written \o m
  <2>1. FlattenSeq(DataOf([parts EXCEPT ![Len(parts)].data = parts[Len(parts)].data \o m]))
          = FlattenSeq(DataOf(parts)) \o m
    BY <1>1, DataGrows
  <2>2. parts' = [parts EXCEPT ![Len(parts)].data = parts[Len(parts)].data \o m]
    BY <1>4, <1>6
  <2> QED
    BY <2>1, <2>2, WrittenIs
<1>12. PartsFit'
  <2>1. \A i \in 1 .. n : Len(parts'[i].data) <= parts'[i].size
    BY <1>2, <1>3, <1>5, <1>7
  <2>2. Last(parts').data = b
    BY <1>1, <1>7, <1>8
  <2> QED
    BY <1>8, <1>10, <2>1, <2>2 DEF PartsFit
<1>13. Len(parts'[1].data) >= 4
  <2>1. Len(b) >= Len(d)
    BY <1>1, <1>3, <1>5
  <2>2. CASE n = 1
    BY <1>1, <1>5, <1>7, <2>1, <2>2
  <2>3. CASE n # 1
    BY <1>1, <1>7, <2>3
  <2> QED
    BY <2>2, <2>3
<1> QED
  BY <1>7, <1>8, <1>10, <1>11, <1>12, <1>13 DEF Grown

\* What does not fit comes into a buffer of its own.
LEMMA GrowsByPart ==
  ASSUME EncodingTypeOK, PartsFit, Len(parts[1].data) >= 4,
         NEW m \in Seq(Byte), NewPart(m)
  PROVE  Grown(m)
<1> DEFINE n == Len(parts)
           k == Larger(PartSize, Len(m))
           part == [size |-> k, data |-> m]
<1>1. /\ parts \in Seq(Part) /\ n \in Nat /\ n \in 1 .. n /\ 1 \in 1 .. n
      /\ DOMAIN parts = 1 .. n
      /\ \A i \in 1 .. n : parts[i].size \in Nat /\ Len(parts[i].data) \in Nat
      /\ DataOf(parts) \in Seq(Seq(Byte))
  BY Buffers
<1>2. \A i \in 1 .. n : Len(parts[i].data) <= parts[i].size
  BY <1>1 DEF PartsFit
<1>3. Len(m) \in Nat /\ PartSize \in Nat
  BY LenProperties, PartAssumption
<1>4. k \in Nat /\ Len(m) <= k
  BY <1>3 DEF Larger
<1>5. part \in Part
  BY <1>4 DEF Part
<1>6. part.size = k /\ part.data = m
  OBVIOUS
<1>7. parts' = Append(parts, part) /\ pos' = Len(m)
  BY DEF NewPart
<1> HIDE DEF part, k
<1>8. /\ parts' \in Seq(Part) /\ Len(parts') = n + 1 /\ parts'[n + 1] = part
      /\ \A i \in 1 .. n : parts'[i] = parts[i]
  BY <1>1, <1>5, <1>7, AppendProperties
<1>9. DOMAIN parts' = 1 .. n + 1 /\ parts' # << >> /\ Last(parts') = part
  <2>1. DOMAIN parts' = 1 .. n + 1
    BY <1>8, LenProperties
  <2>2. Len(<< >>) = 0 /\ n + 1 # 0
    BY <1>1
  <2> QED
    BY <1>8, <2>1, <2>2 DEF Last
<1>10. Written' = Written \o m
  <2>1. DataOf(Append(parts, part)) = Append(DataOf(parts), m)
    BY <1>1, <1>5, <1>6, DataOfAppend
  <2>2. FlattenSeq(Append(DataOf(parts), m)) = FlattenSeq(DataOf(parts)) \o m
    <3>1. DataOf(parts) \in Seq(Seq(Byte)) /\ m \in Seq(Byte)
      BY <1>1
    <3> QED
      BY ONLY <3>1, FlattenAppend
  <2> QED
    BY <1>7, <2>1, <2>2, WrittenIs
<1>11. PartsFit'
  <2>1. ASSUME NEW i \in 1 .. n + 1
        PROVE  Len(parts'[i].data) <= parts'[i].size
    <3>1. i \in 1 .. n \/ i = n + 1
      BY <1>1
    <3> QED
      BY <1>2, <1>4, <1>6, <1>8, <3>1
  <2> QED
    BY <1>6, <1>7, <1>9, <2>1 DEF PartsFit
<1>12. Len(parts'[1].data) >= 4
  BY <1>1, <1>8
<1> QED
  BY <1>3, <1>7, <1>8, <1>9, <1>10, <1>11, <1>12 DEF Grown

\* A call of push_memory keeps the invariant.
LEMMA PushMemoryKeeps ==
  ASSUME EncodingInv, PushMemory
  PROVE  EncodingInv'
<1> DEFINE m == Head(pending)
           t == Tail(pending)
<1>1. EncodingTypeOK /\ PartsFit /\ Len(parts[1].data) >= 4
  BY DEF EncodingInv
<1>2. pending \in Seq(Seq(Byte)) /\ pending # << >> /\ pushed \in Seq(Value) /\ size \in 0 .. Word - 1
  BY <1>1 DEF EncodingTypeOK, PushMemory
<1>3. /\ m \in Seq(Byte) /\ t \in Seq(Seq(Byte)) /\ FlattenSeq(t) \in Seq(Byte)
      /\ FlattenSeq(pending) = m \o FlattenSeq(t)
  BY <1>2, FlattenHead
<1>4. pending' = t /\ pushed' = pushed /\ closed' = closed /\ size' = (size + Len(m)) % Word
  BY DEF PushMemory
<1>5. \/ /\ Fits(Len(m)) /\ parts' = [parts EXCEPT ![Len(parts)].data = @ \o m]
         /\ pos' = pos + Len(m)
      \/ NewPart(m)
  BY DEF PushMemory
<1> HIDE DEF m, t
<1>6. Grown(m)
  <2>1. CASE NewPart(m)
    BY <1>1, <1>3, <2>1, GrowsByPart
  <2>2. CASE Fits(Len(m)) /\ parts' = [parts EXCEPT ![Len(parts)].data = @ \o m]
             /\ pos' = pos + Len(m)
    BY <1>1, <1>3, <2>2, GrowsInPlace
  <2> QED
    BY <1>5, <2>1, <2>2
<1>7. closed = FALSE /\ closed \in BOOLEAN
  BY <1>1, <1>2 DEF EncodingInv, EncodingTypeOK
<1>8. Written \in Seq(Byte) /\ Len(Written) \in Nat /\ Len(m) \in Nat
  BY <1>1, <1>3, Buffers, LenProperties
<1>9. size' = Len(Written') % Word /\ size' \in 0 .. Word - 1
  <2>1. Word \in Nat \ {0}
    BY WordAndLong
  <2>2. PICK k : k = Len(Written)
    OBVIOUS
  <2>3. PICK j : j = Len(m)
    OBVIOUS
  <2>4. k \in Int /\ j \in Int /\ k + j \in Int
    BY <1>8, <2>2, <2>3
  <2>5. size = k % Word
    BY <2>2 DEF EncodingInv
  <2>6. ((k % Word) + j) % Word = (k + j) % Word
    BY <2>1, <2>4, AddedUp
  <2>7. Len(Written') = k + j
    <3>1. Len(Written \o m) = Len(Written) + Len(m)
      BY <1>3, <1>8, ConcatProperties
    <3> QED
      BY <1>6, <2>2, <2>3, <3>1 DEF Grown
  <2>8. size' = (k + j) % Word
    BY <1>4, <2>3, <2>5, <2>6
  <2> QED
    BY <2>1, <2>4, <2>7, <2>8, Division
<1>10. EncodingTypeOK'
  BY <1>2, <1>3, <1>4, <1>6, <1>7, <1>9 DEF EncodingTypeOK, Grown
<1>11. BytesKept'
  <2>1. PICK h : /\ h \in Seq(Byte) /\ Len(h) = 4
                 /\ Written \o FlattenSeq(pending) = h \o BytesOf(pushed)
    BY DEF EncodingInv, BytesKept
  <2>2. Written' \o FlattenSeq(t) = Written \o FlattenSeq(pending)
    <3>1. PICK w, f : w = Written /\ f = FlattenSeq(t)
      OBVIOUS
    <3>2. w \in Seq(Byte) /\ m \in Seq(Byte) /\ f \in Seq(Byte)
      BY <1>3, <1>8, <3>1
    <3>3. (w \o m) \o f = w \o (m \o f)
      BY ONLY <3>2, ConcatAssociative
    <3> QED
      BY <1>3, <1>6, <3>1, <3>3 DEF Grown
  <2> QED
    BY <1>4, <1>7, <2>1, <2>2 DEF BytesKept
<1> QED
  BY <1>4, <1>6, <1>7, <1>9, <1>10, <1>11 DEF EncodingInv, Grown

-----------------------------------------------------------------------------
(* Messages begin and end.                                                  *)

\* A message of no values.
LEMMA EmptyMessage ==
  ASSUME NEW ps, ps = << [size |-> PartSize, data |-> <<0, 0, 0, 0>>] >>
  PROVE  /\ ps \in Seq(Part) /\ ps # << >> /\ DOMAIN ps = {1} /\ Last(ps) = ps[1]
         /\ ps[1].size = PartSize /\ ps[1].data = <<0, 0, 0, 0>>
         /\ FlattenSeq(DataOf(ps)) = <<0, 0, 0, 0>>
<1> DEFINE z == <<0, 0, 0, 0>>
<1>1. z \in Seq(Byte) /\ Len(z) = 4
  BY DEF Byte
<1> HIDE DEF z
<1> DEFINE part == [size |-> PartSize, data |-> z]
<1>2. part \in Part /\ part.size = PartSize /\ part.data = z
  BY <1>1, PartAssumption DEF Part
<1>3. ps = <<part>>
  BY DEF z
<1> HIDE DEF part
<1>4. ps \in Seq(Part) /\ ps # << >> /\ DOMAIN ps = {1} /\ Last(ps) = ps[1] /\ ps[1] = part /\ Len(ps) = 1
  BY <1>2, <1>3 DEF Last
<1>5. DataOf(ps) = <<z>>
  BY <1>2, <1>4 DEF DataOf
<1>6. FlattenSeq(<<z>>) = z
  <2>1. << >> \in Seq(Seq(Byte)) /\ <<z>> = Append(<< >>, z)
    BY <1>1, EmptySeq
  <2>2. FlattenSeq(<< >>) = << >> /\ FlattenSeq(<<z>>) = FlattenSeq(<< >>) \o z
    BY <1>1, <2>1, FlattenAppend
  <2> QED
    BY <1>1, <2>2, ConcatEmptySeq
<1> QED
  BY <1>2, <1>4, <1>5, <1>6 DEF z

\* No values have no bytes.
LEMMA NoValues ==
  /\ BytesOf(<< >>) = << >> /\ FlattenSeq(<< >>) = << >>
  /\ << >> \in Seq(Seq(Byte)) /\ << >> \in Seq(Value)
  /\ 4 % Word = 4 /\ 4 \in 0 .. Word - 1
  /\ <<0, 0, 0, 0>> \in Seq(Byte) /\ Len(<<0, 0, 0, 0>>) = 4
  /\ <<0, 0, 0, 0>> \o << >> = <<0, 0, 0, 0>>
<1>1. BytesOf(<< >>) = << >> /\ FlattenSeq(<< >>) = << >>
  <2>1. [i \in 1 .. Len(<< >>) |-> FlattenSeq(Encoded(<< >>[i]))] = << >>
    OBVIOUS
  <2>2. FlattenSeq(<< >>) = << >>
    BY EmptySeq DEF FlattenSeq
  <2> QED
    BY <2>1, <2>2 DEF BytesOf
<1>2. << >> \in Seq(Seq(Byte)) /\ << >> \in Seq(Value)
  BY EmptySeq
<1>3. Word > 4 /\ Word \in Nat
  <2>1. PICK b \in Nat : b = Base * Base * Base
    BY WordAndLong
  <2>2. b > 16
    <3>1. MaxReq \in Nat /\ 2 * MaxReq + 16 < b
      BY <2>1, MessagesAssumption
    <3> QED
      BY ONLY <3>1
  <2> QED
    BY <2>1, <2>2, WordAndLong
<1>4. 4 % Word = 4 /\ 4 \in 0 .. Word - 1
  <2>1. 4 = 0 * Word + 4 /\ 4 \in 0 .. Word - 1 /\ Word \in Nat \ {0} /\ 0 \in Int /\ 4 \in Int
    BY <1>3
  <2> QED
    BY ONLY <2>1, Quotient
<1>5. <<0, 0, 0, 0>> \in Seq(Byte) /\ Len(<<0, 0, 0, 0>>) = 4
  BY DEF Byte
<1>6. <<0, 0, 0, 0>> \o << >> = <<0, 0, 0, 0>>
  BY <1>5, ConcatEmptySeq
<1> QED
  BY <1>1, <1>2, <1>4, <1>5, <1>6

\* A new message has four bytes and no value.
LEMMA EncodingStarts == EncodingInit => EncodingInv
<1> SUFFICES ASSUME EncodingInit PROVE EncodingInv
  OBVIOUS
<1>1. /\ parts = << [size |-> PartSize, data |-> <<0, 0, 0, 0>>] >> /\ pos = 4 /\ size = 4
      /\ pending = << >> /\ pushed = << >> /\ closed = FALSE
  BY DEF EncodingInit
<1> DEFINE z == <<0, 0, 0, 0>>
<1>2. /\ parts \in Seq(Part) /\ parts # << >> /\ DOMAIN parts = {1} /\ Last(parts) = parts[1]
      /\ parts[1].size = PartSize /\ parts[1].data = z /\ Written = z
  BY <1>1, EmptyMessage, WrittenIs
<1>3. z \in Seq(Byte) /\ Len(z) = 4 /\ z \o << >> = z
  BY NoValues
<1> HIDE DEF z
<1>4. EncodingTypeOK
  BY <1>1, <1>2, NoValues DEF EncodingTypeOK
<1>5. PartsFit /\ Len(parts[1].data) >= 4
  <2>1. Len(parts[1].data) = 4 /\ parts[1].size = PartSize /\ PartSize >= 4 /\ PartSize \in Nat
    BY <1>2, <1>3, PartAssumption
  <2>2. \A i \in DOMAIN parts : Len(parts[i].data) <= parts[i].size
    BY <1>2, <2>1
  <2>3. pos = Len(Last(parts).data)
    BY <1>1, <1>2, <2>1
  <2> QED
    BY <2>1, <2>2, <2>3 DEF PartsFit
<1>6. size = Len(Written) % Word
  BY <1>1, <1>2, <1>3, NoValues
<1>7. BytesKept
  <2>1. Written \o FlattenSeq(pending) = z \o BytesOf(pushed)
    BY <1>1, <1>2, NoValues
  <2> QED
    BY <1>1, <1>3, <2>1 DEF BytesKept
<1> QED
  BY <1>1, <1>4, <1>5, <1>6, <1>7 DEF EncodingInv

\* So has the next one.
LEMMA NewMessageKeeps ==
  ASSUME EncodingInv, NewMessage
  PROVE  EncodingInv'
<1>1. /\ parts' = << [size |-> PartSize, data |-> <<0, 0, 0, 0>>] >> /\ pos' = 4 /\ size' = 4
      /\ pending' = << >> /\ pushed' = << >> /\ closed' = FALSE
  BY DEF NewMessage
<1> DEFINE z == <<0, 0, 0, 0>>
<1>2. /\ parts' \in Seq(Part) /\ parts' # << >> /\ DOMAIN parts' = {1} /\ Last(parts') = parts'[1]
      /\ parts'[1].size = PartSize /\ parts'[1].data = z /\ Written' = z
  BY <1>1, EmptyMessage, WrittenIs
<1>3. z \in Seq(Byte) /\ Len(z) = 4 /\ z \o << >> = z
  BY NoValues
<1> HIDE DEF z
<1>4. EncodingTypeOK'
  BY <1>1, <1>2, NoValues DEF EncodingTypeOK
<1>5. PartsFit' /\ Len(parts'[1].data) >= 4
  <2>1. Len(parts'[1].data) = 4 /\ parts'[1].size = PartSize /\ PartSize >= 4 /\ PartSize \in Nat
    BY <1>2, <1>3, PartAssumption
  <2>2. \A i \in DOMAIN parts' : Len(parts'[i].data) <= parts'[i].size
    BY <1>2, <2>1
  <2>3. pos' = Len(Last(parts').data)
    BY <1>1, <1>2, <2>1
  <2> QED
    BY <2>1, <2>2, <2>3 DEF PartsFit
<1>6. size' = Len(Written') % Word
  BY <1>1, <1>2, <1>3, NoValues
<1>7. BytesKept'
  <2>1. Written' \o FlattenSeq(pending') = z \o BytesOf(pushed')
    BY <1>1, <1>2, NoValues
  <2> QED
    BY <1>1, <1>3, <2>1 DEF BytesKept
<1> QED
  BY <1>1, <1>4, <1>5, <1>6, <1>7 DEF EncodingInv

\* The bytes of a value wait to be pushed.
LEMMA PushValueKeeps ==
  ASSUME EncodingInv, NEW v \in Value, PushValue(v)
  PROVE  EncodingInv'
<1>1. /\ pending = << >> /\ closed = FALSE /\ pending' = Encoded(v) /\ pushed' = Append(pushed, v)
      /\ parts' = parts /\ pos' = pos /\ size' = size /\ closed' = closed
      /\ EncodingTypeOK /\ pushed \in Seq(Value)
  BY DEF PushValue, EncodingInv, EncodingTypeOK
<1>2. Encoded(v) \in Seq(Seq(Byte)) /\ FlattenSeq(Encoded(v)) \in Seq(Byte)
  BY EncodedType
<1>3. EncodingTypeOK'
  <2>1. pushed' \in Seq(Value)
    BY <1>1, AppendProperties
  <2> QED
    BY <1>1, <1>2, <2>1 DEF EncodingTypeOK
<1>4. Written' = Written
  BY <1>1 DEF Written
<1>5. BytesKept'
  <2>1. PICK h : /\ h \in Seq(Byte) /\ Len(h) = 4
                 /\ Written \o FlattenSeq(pending) = h \o BytesOf(pushed)
    BY DEF EncodingInv, BytesKept
  <2>2. Written \in Seq(Byte)
    BY <1>1, Buffers
  <2>3. Written \o FlattenSeq(pending) = Written
    BY <1>1, <2>2, NoValues, ConcatEmptySeq
  <2>4. PICK b, e : b = BytesOf(pushed) /\ e = FlattenSeq(Encoded(v))
    OBVIOUS
  <2>5. b \in Seq(Byte) /\ e \in Seq(Byte) /\ BytesOf(pushed') = b \o e
    BY <1>1, <1>2, <2>4, BytesOfAppend
  <2>6. (h \o b) \o e = h \o (b \o e)
    <3>1. h \in Seq(Byte) /\ b \in Seq(Byte) /\ e \in Seq(Byte)
      BY <2>1, <2>5
    <3> QED
      BY ONLY <3>1, ConcatAssociative
  <2>7. Written' \o FlattenSeq(pending') = h \o BytesOf(pushed')
    BY <1>1, <1>4, <2>1, <2>3, <2>4, <2>5, <2>6
  <2> QED
    BY <1>1, <2>1, <2>7 DEF BytesKept
<1> QED
  BY <1>1, <1>3, <1>4, <1>5 DEF EncodingInv, PartsFit

\* The size comes in place of the first four bytes.
LEMMA SetSizeKeeps ==
  ASSUME EncodingInv, SetSize
  PROVE  EncodingInv'
<1> DEFINE d == parts[1].data
           r == SubSeq(d, 5, Len(d))
           z == LittleEndian(size, 4)
           ds == DataOf(parts)
           n == Len(parts)
<1>1. /\ pending = << >> /\ pending' = pending /\ pushed' = pushed /\ size' = size /\ pos' = pos
      /\ closed' = TRUE /\ EncodingTypeOK /\ PartsFit /\ Len(d) >= 4
      /\ pushed \in Seq(Value) /\ size \in 0 .. Word - 1
  BY DEF SetSize, EncodingInv, EncodingTypeOK
<1>2. /\ parts \in Seq(Part) /\ parts # << >> /\ n \in Nat /\ n \in 1 .. n /\ 1 \in 1 .. n
      /\ DOMAIN parts = 1 .. n /\ Last(parts) = parts[n]
      /\ \A i \in 1 .. n : parts[i].size \in Nat /\ Len(parts[i].data) \in Nat
      /\ d \in Seq(Byte) /\ Written \in Seq(Byte)
      /\ ds \in Seq(Seq(Byte)) /\ ds # << >> /\ ds[1] = d
  BY <1>1, Buffers
<1>3. z \in Seq(Byte) /\ Len(z) = 4
  <2>1. size \in Int /\ 4 \in Nat
    BY <1>1, WordAndLong
  <2> QED
    BY <2>1, LittleEndianSeq
<1>4. PICK a : /\ a \in Seq(Byte) /\ r \in Seq(Byte) /\ a \o r = d /\ Len(a) = 4
  <2>1. 4 \in 0 .. Len(d) /\ 4 + 1 = 5
    BY <1>1, <1>2
  <2>2. PICK k \in 0 .. Len(d) : k = 4
    BY <2>1
  <2>3. /\ SubSeq(d, 1, k) \in Seq(Byte) /\ SubSeq(d, k + 1, Len(d)) \in Seq(Byte)
        /\ SubSeq(d, 1, k) \o SubSeq(d, k + 1, Len(d)) = d /\ Len(SubSeq(d, 1, k)) = k
    BY <1>2, SplitAt
  <2>4. k + 1 = 5
    BY <2>2
  <2> QED
    BY <2>2, <2>3, <2>4
<1>5. PICK b : b = z \o r
  OBVIOUS
<1>6. b \in Seq(Byte) /\ Len(b) = Len(d) /\ Len(b) >= 4
  <2>1. r \in Seq(Byte)
    BY <1>4
  <2>2. Len(b) = Len(z) + Len(r) /\ b \in Seq(Byte)
    <3> HIDE DEF z, r
    <3> QED
      BY <1>3, <1>5, <2>1, ConcatProperties
  <2>3. Len(d) = Len(a) + Len(r)
    <3> HIDE DEF d, r
    <3> QED
      BY <1>4, ConcatProperties
  <2> QED
    BY <1>1, <1>3, <1>4, <2>2, <2>3
<1>7. DataReplaced(parts, 1, b, parts')
  BY <1>5 DEF SetSize, DataReplaced
<1> HIDE DEF z, r
<1>8. /\ parts' \in Seq(Part) /\ Len(parts') = n
      /\ \A i \in 1 .. n :
           parts'[i].size = parts[i].size /\ parts'[i].data = IF i = 1 THEN b ELSE parts[i].data
      /\ DataOf(parts') = [ds EXCEPT ![1] = b]
  <2>1. PICK j, qs : j = 1 /\ qs = parts'
    OBVIOUS
  <2>2. DataReplaced(parts, j, b, qs) /\ j \in 1 .. Len(parts) /\ parts \in Seq(Part) /\ b \in Seq(Byte)
    BY <1>2, <1>6, <1>7, <2>1
  <2>3. /\ qs \in Seq(Part) /\ Len(qs) = Len(parts)
        /\ \A i \in 1 .. Len(parts) :
             qs[i].size = parts[i].size /\ qs[i].data = IF i = j THEN b ELSE parts[i].data
        /\ DataOf(qs) = [DataOf(parts) EXCEPT ![j] = b]
    BY ONLY <2>2, DataOfExcept
  <2> QED
    BY <2>1, <2>3
<1>9. DOMAIN parts' = 1 .. n /\ parts' # << >> /\ Last(parts') = parts'[n]
  <2>1. DOMAIN parts' = 1 .. n
    BY <1>8, LenProperties
  <2>2. Len(<< >>) = 0 /\ n # 0
    BY <1>2
  <2> QED
    BY <1>8, <2>1, <2>2 DEF Last
<1>10. \A i \in 1 .. n : Len(parts'[i].data) = Len(parts[i].data)
  BY <1>6, <1>8
<1>11. PartsFit' /\ Len(parts'[1].data) >= 4
  <2>1. pos = Len(parts[n].data) /\ \A i \in 1 .. n : Len(parts[i].data) <= parts[i].size
    BY <1>1, <1>2 DEF PartsFit
  <2>2. \A i \in 1 .. n : Len(parts'[i].data) <= parts'[i].size
    BY <1>8, <1>10, <2>1
  <2>3. pos' = Len(Last(parts').data)
    BY <1>1, <1>2, <1>9, <1>10, <2>1
  <2>4. Len(parts'[1].data) >= 4
    BY <1>1, <1>2, <1>10
  <2> QED
    BY <1>9, <2>2, <2>3, <2>4 DEF PartsFit
<1> DEFINE f == FlattenSeq(Tail(ds))
<1>12. f \in Seq(Byte) /\ FlattenSeq(ds) = d \o f
  <2>1. Head(ds) = d
    BY <1>2
  <2> HIDE DEF ds
  <2> QED
    BY <1>2, <2>1, FlattenHead
<1>13. FlattenSeq([ds EXCEPT ![1] = b]) = b \o f
  <2> HIDE DEF ds
  <2> QED
    BY <1>2, <1>6, FlattenFirst
<1> HIDE DEF f, ds, d
<1>14. PICK g : g = r \o f
  OBVIOUS
<1>15. g \in Seq(Byte) /\ d \o f = a \o g /\ b \o f = z \o g
  <2>1. a \in Seq(Byte) /\ r \in Seq(Byte) /\ f \in Seq(Byte) /\ z \in Seq(Byte)
    BY <1>3, <1>4, <1>12
  <2>2. (a \o r) \o f = a \o (r \o f)
    BY ONLY <2>1, ConcatAssociative
  <2>3. (z \o r) \o f = z \o (r \o f)
    BY ONLY <2>1, ConcatAssociative
  <2>4. g \in Seq(Byte)
    BY <1>14, <2>1, ConcatProperties
  <2> QED
    BY <1>4, <1>5, <1>14, <2>2, <2>3, <2>4
<1>16. Written = a \o g /\ Written' = z \o g
  BY <1>8, <1>12, <1>13, <1>15, WrittenIs DEF ds
<1>17. Len(Written') = Len(Written)
  <2>1. Len(a \o g) = Len(a) + Len(g) /\ Len(z \o g) = Len(z) + Len(g)
    BY <1>3, <1>4, <1>15, ConcatProperties
  <2> QED
    BY <1>3, <1>4, <1>16, <2>1
<1>18. PICK h : /\ h \in Seq(Byte) /\ Len(h) = 4
                /\ Written \o FlattenSeq(pending) = h \o BytesOf(pushed)
  BY DEF EncodingInv, BytesKept
<1>19. Written = h \o BytesOf(pushed)
  BY <1>1, <1>2, <1>18, NoValues, ConcatEmptySeq
<1>20. BytesOf(pushed) \in Seq(Byte)
  <2>1. Uint(0) \in Value
    BY WordAndLong DEF Uint, Value
  <2> QED
    BY <1>1, <2>1, BytesOfAppend
<1>21. g = BytesOf(pushed)
  <2>1. PICK y : y = BytesOf(pushed)
    OBVIOUS
  <2>2. /\ a \in Seq(Byte) /\ h \in Seq(Byte) /\ g \in Seq(Byte) /\ y \in Seq(Byte)
        /\ Len(a) = Len(h) /\ a \o g = h \o y
    BY <1>4, <1>15, <1>16, <1>18, <1>19, <1>20, <2>1
  <2>3. g = y
    BY ONLY <2>2, Cancel
  <2> QED
    BY <2>1, <2>3
<1>22. BytesKept'
  <2>1. Written' \o FlattenSeq(pending') = z \o BytesOf(pushed')
    <3>1. z \o g \in Seq(Byte)
      BY <1>3, <1>15, ConcatProperties
    <3> QED
      BY <1>1, <1>16, <1>21, <3>1, NoValues, ConcatEmptySeq
  <2>2. z = LittleEndian(size', 4)
    BY <1>1 DEF z
  <2> QED
    BY <1>3, <2>1, <2>2 DEF BytesKept
<1>23. EncodingTypeOK'
  BY <1>1, <1>8, <1>9 DEF EncodingTypeOK
<1> QED
  BY <1>1, <1>11, <1>17, <1>22, <1>23 DEF EncodingInv

-----------------------------------------------------------------------------
(* What the reader of a message gets.                                       *)

\* Whoever reads the bytes of the values gets them back.
LEMMA RoundTripFollows == EncodingInv => RoundTrip
<1> SUFFICES ASSUME EncodingInv, pending = << >>
             PROVE  Decoded(Written) = FlattenSeq([i \in DOMAIN pushed |-> Meaning(pushed[i])])
  BY DEF RoundTrip
<1>1. EncodingTypeOK /\ pushed \in Seq(Value)
  BY DEF EncodingInv, EncodingTypeOK
<1>2. PICK h : h \in Seq(Byte) /\ Len(h) = 4 /\ Written \o FlattenSeq(pending) = h \o BytesOf(pushed)
  BY DEF EncodingInv, BytesKept
<1>3. Written = h \o BytesOf(pushed)
  <2>1. Written \in Seq(Byte)
    BY <1>1, Buffers
  <2> QED
    BY <1>2, <2>1, NoValues, ConcatEmptySeq
<1>4. Decoded(Written) = MeaningOf(pushed)
  BY <1>1, <1>2, <1>3, DecodedIs
<1>5. DOMAIN pushed = 1 .. Len(pushed)
  BY <1>1, LenProperties
<1> QED
  BY <1>4, <1>5 DEF MeaningOf

\* Whoever reads the first four bytes gets the size.
LEMMA SizeExactFollows == EncodingInv => SizeExact
<1> SUFFICES ASSUME EncodingInv, closed
             PROVE  NumberAt(Written, 1, 4) = size
  BY DEF SizeExact, EncodingInv
<1>1. EncodingTypeOK /\ pushed \in Seq(Value) /\ pending = << >> /\ size \in 0 .. Word - 1
  BY DEF EncodingInv, EncodingTypeOK
<1>2. PICK h : /\ h \in Seq(Byte) /\ Len(h) = 4 /\ h = LittleEndian(size, 4)
               /\ Written \o FlattenSeq(pending) = h \o BytesOf(pushed)
  BY DEF EncodingInv, BytesKept
<1>3. PICK b : b = BytesOf(pushed)
  OBVIOUS
<1>4. b \in Seq(Byte)
  <2>1. Uint(0) \in Value
    BY WordAndLong DEF Uint, Value
  <2> QED
    BY <1>1, <1>3, <2>1, BytesOfAppend
<1>5. Written = h \o b
  <2>1. Written \in Seq(Byte)
    BY <1>1, Buffers
  <2> QED
    BY <1>1, <1>2, <1>3, <2>1, NoValues, ConcatEmptySeq
<1>6. At(Written, 1, h)
  <2>1. \A k \in 1 .. Len(h) + Len(b) : (h \o b)[k] = IF k <= Len(h) THEN h[k] ELSE b[k - Len(h)]
    BY <1>2, <1>4, ConcatProperties
  <2>2. Len(b) \in Nat
    BY <1>4, LenProperties
  <2>3. ASSUME NEW k \in 1 .. Len(h)
        PROVE  Written[1 + (k - 1)] = h[k]
    <3>1. k \in 1 .. Len(h) + Len(b) /\ k <= Len(h) /\ 1 + (k - 1) = k
      BY <1>2, <2>2
    <3> QED
      BY <1>5, <2>1, <3>1
  <2> QED
    BY <2>3 DEF At
<1>7. 4 \in Widths /\ size < Limit(4) /\ size \in Nat
  BY <1>1, WordAndLong DEF Widths, Limit
<1>8. PICK w, p : w = 4 /\ p = 1
  OBVIOUS
<1>9. At(Written, p, LittleEndian(size, w)) /\ p \in Nat /\ w \in Widths /\ size < Limit(w)
  BY <1>2, <1>6, <1>7, <1>8
<1>10. NumberAt(Written, p, w) = size
  BY ONLY <1>7, <1>9, NumberRead
<1> QED
  BY <1>8, <1>10

-----------------------------------------------------------------------------
\* Values that a reader gets back, each of them.
Reading(v) == Meaning(v)[1]
Kept == {v \in Value : Meaning(v) = <<Reading(v)>>}

\* A message of such values is read back value by value.
LEMMA MeaningKept ==
  ASSUME NEW u \in Seq(Kept)
  PROVE  /\ MeaningOf(u) \in Seq(ReadValue) /\ Len(MeaningOf(u)) = Len(u)
         /\ \A i \in 1 .. Len(u) : MeaningOf(u)[i] = Reading(u[i])
<1>1. Len(u) \in Nat /\ \A i \in 1 .. Len(u) : u[i] \in Kept
  BY LenProperties, ElementOfSeq
<1>2. PICK n \in Nat : n = Len(u)
  BY <1>1
<1> DEFINE x == [i \in 1 .. n |-> Reading(u[i])]
<1>3. ASSUME NEW v \in Kept
      PROVE  Reading(v) \in ReadValue /\ Meaning(v) = <<Reading(v)>>
  <2>1. v \in Value /\ Meaning(v) = <<Reading(v)>>
    BY DEF Kept
  <2>2. Meaning(v) \in Seq(ReadValue)
    BY <2>1, MeaningType
  <2>3. PICK y : y = Reading(v)
    OBVIOUS
  <2>4. <<y>> \in Seq(ReadValue)
    BY <2>1, <2>2, <2>3
  <2>5. y \in ReadValue
    BY ONLY <2>4
  <2> QED
    BY <2>1, <2>3, <2>5
<1>4. \A i \in 1 .. n : x[i] = Reading(u[i]) /\ x[i] \in ReadValue /\ Meaning(u[i]) = <<x[i]>>
  BY <1>1, <1>2, <1>3
<1>5. x = [i \in 1 .. n |-> x[i]]
  OBVIOUS
<1> HIDE DEF x
<1>6. x \in Seq(ReadValue) /\ Len(x) = n
  <2>1. \A i \in 1 .. n : x[i] \in ReadValue
    BY <1>4
  <2> QED
    BY ONLY <1>5, <2>1, FunctionIsSeq
<1>7. FlattenSeq([i \in 1 .. Len(x) |-> <<x[i]>>]) = x
  BY <1>6, FlattenSingles
<1>8. [i \in 1 .. Len(x) |-> <<x[i]>>] = [i \in 1 .. Len(u) |-> Meaning(u[i])]
  BY <1>2, <1>4, <1>6
<1>9. MeaningOf(u) = x
  BY <1>7, <1>8 DEF MeaningOf
<1> QED
  BY <1>2, <1>4, <1>6, <1>9

\* The numbers in messages are within the limits of their types.
LEMMA Bounds ==
  /\ 16 < Base * Base * Base /\ Base * Base * Base \in Nat
  /\ 48 < Long /\ Long \in Nat
<1>1. PICK b \in Nat : b = Base * Base * Base
  BY WordAndLong
<1>2. 16 < b
  <2>1. MaxReq \in Nat /\ 2 * MaxReq + 16 < b
    BY <1>1, MessagesAssumption
  <2> QED
    BY ONLY <2>1
<1>3. Word \in Nat /\ Word > 16
  BY <1>1, <1>2, WordAndLong
<1>4. Long > 48
  <2>1. Word * Word >= 17 * Word
    BY ONLY <1>3
  <2> QED
    BY <1>3, <2>1 DEF Long
<1> QED
  BY <1>1, <1>2, <1>4, WordAndLong

\* An unsigned number is read back as itself.
LEMMA UintKept ==
  ASSUME NEW i \in 0 .. Long - 1
  PROVE  Uint(i) \in Kept /\ Reading(Uint(i)) = [kind |-> "number", value |-> i]
<1>1. Uint(i) \in Value
  BY DEF Uint, Value
<1>2. 2 * i # -Long
  BY Bounds
<1>3. Meaning(Uint(i)) = <<[kind |-> "number", value |-> i]>>
  BY <1>2 DEF Uint, Meaning
<1> QED
  BY <1>1, <1>3 DEF Kept, Reading

\* So is the number of the values.
LEMMA HeaderKept ==
  ASSUME NEW n \in Nat, n < Base * Base * Base
  PROVE  Header(n) \in Kept /\ Reading(Header(n)) = [kind |-> "array", value |-> n]
<1>1. Header(n) \in Value
  BY DEF Header, Value
<1>2. Meaning(Header(n)) = <<[kind |-> "array", value |-> n]>>
  BY DEF Header, Meaning
<1> QED
  BY <1>1, <1>2 DEF Kept, Reading

\* The numbers of the types.
LEMMA TypeNumbers == \A t \in MessageType : MessageTypes[t] \in 2 .. 48
BY DEF MessageType, MessageTypes

\* The values of the messages are read back.
LEMMA PlainKept ==
  Un \in Kept /\ In \in Kept /\ Fl \in Kept /\ St \in Kept /\ [kind |-> "string_lib", value |-> 1] \in Kept
<1>1. Un \in Kept
  BY Bounds, UintKept DEF Un
<1>2. In \in Kept
  <2>1. In \in Value
    <3>1. -1 \in Int /\ -Long <= 2 * (-1) /\ 2 * (-1) < Long
      BY Bounds
    <3> QED
      BY <3>1 DEF In, Value
  <2>2. 2 * (-1) # -Long
    BY Bounds
  <2>3. Meaning(In) = <<[kind |-> "number", value |-> -1]>>
    BY <2>2 DEF In, Meaning
  <2> QED
    BY <2>1, <2>3 DEF Kept, Reading
<1>3. Fl \in Kept
  <2>1. <<0, 1, 0, 1>> \in [1 .. 4 -> Byte]
    BY DEF Byte
  <2>2. Fl \in Value
    BY <2>1 DEF Fl, Value
  <2>3. Meaning(Fl) = <<Fl>>
    BY DEF Fl, Meaning
  <2> QED
    BY <2>2, <2>3 DEF Kept, Reading
<1>4. St \in Kept
  <2>1. <<1, 1>> \in Seq(Byte) /\ Len(<<1, 1>>) + 1 < Base * Base * Base
    BY Bounds DEF Byte
  <2>2. St \in Value
    BY <2>1 DEF St, Value
  <2>3. St.kind = "string" /\ St.value = <<1, 1>>
    BY DEF St
  <2>4. Meaning(St) = <<St>>
    BY <2>1, <2>3 DEF Meaning
  <2> QED
    BY <2>2, <2>4 DEF Kept, Reading
<1>5. [kind |-> "string_lib", value |-> 1] \in Kept
  <2>1. [kind |-> "string_lib", value |-> 1] \in Value
    BY Bounds DEF Value
  <2>2. Meaning([kind |-> "string_lib", value |-> 1]) = <<[kind |-> "string_lib", value |-> 1]>>
    BY DEF Meaning
  <2> QED
    BY <2>1, <2>2 DEF Kept, Reading
<1> QED
  BY <1>1, <1>2, <1>3, <1>4, <1>5

\* What a function pushes, before a name is given: everything in it is read back.
Given == Kept \cup {Nm}

\* What a name may be given as.
Names == {St, [kind |-> "string_lib", value |-> 1]}

\* With names given, all values are read back, and the others are the same.
LEMMA NamedKept ==
  ASSUME NEW values \in Seq(Given), NEW given \in Names
  PROVE  /\ Named(values, given) \in Seq(Kept) /\ Len(Named(values, given)) = Len(values)
         /\ \A i \in 1 .. Len(values) : values[i] \in Kept => Named(values, given)[i] = values[i]
<1>1. Len(values) \in Nat /\ DOMAIN values = 1 .. Len(values) /\ \A i \in 1 .. Len(values) : values[i] \in Given
  BY LenProperties, ElementOfSeq
<1>2. given \in Kept
  BY PlainKept DEF Names
<1>3. \A v \in Kept : v.kind # "name"
  BY DEF Kept, Value
<1>4. Nm.kind = "name"
  BY DEF Nm
<1> DEFINE w == Named(values, given)
<1>5. w = [i \in 1 .. Len(values) |-> w[i]]
      /\ \A i \in 1 .. Len(values) : w[i] = IF values[i].kind = "name" THEN given ELSE values[i]
  BY <1>1 DEF Named
<1> HIDE DEF w
<1>6. ASSUME NEW i \in 1 .. Len(values)
      PROVE  w[i] \in Kept /\ (values[i] \in Kept => w[i] = values[i])
  <2>1. values[i] \in Kept \/ values[i] = Nm
    BY <1>1 DEF Given
  <2> QED
    BY <1>2, <1>3, <1>4, <1>5, <2>1
<1>7. w \in Seq(Kept) /\ Len(w) = Len(values)
  <2>1. PICK n \in Nat : n = Len(values)
    BY <1>1
  <2>2. w = [i \in 1 .. n |-> w[i]] /\ \A i \in 1 .. n : w[i] \in Kept
    BY <1>5, <1>6, <2>1
  <2>3. w \in Seq(Kept) /\ Len(w) = n
    BY ONLY <2>2, FunctionIsSeq
  <2> QED
    BY <2>1, <2>3
<1> QED
  BY <1>6, <1>7 DEF w

\* The stats of a component, behind b values, are the last ones.
StatsAt(u, b, p) ==
  /\ Len(u) = b + 2 * Len(p) + 1
  /\ \A i \in 1 .. Len(p) : u[b + 2 * i - 1] = Uint(p[i])
  /\ u[Len(u)] = Uint(Level(p))

\* A message of a type, of which all or nothing has been pushed.
MessageShape(u, t, p) ==
  /\ u \in Seq(Kept) /\ Len(u) >= 2 /\ Len(u) - 1 < Base * Base * Base
  /\ u[1] = Header(Len(u) - 1) /\ u[2] = TypeValue(t)
  /\ t \in HasStats => StatsAt(u, Before(t) + 1, p)

\* The inductive invariant: a message of a function is, in what was pushed and what is still
\* to be pushed, whole at any time.
MessagesKept ==
  /\ EncodingInv /\ MessagesTypeOK
  /\ closed => todo = << >>
  /\ type = "none" => todo = << >>
  /\ type # "none" => MessageShape(pushed \o todo, type, points)

\* The points of stats are numbers of 32 bits, and there are few enough of them.
LEMMA StatsType ==
  ASSUME NEW p \in Stats \cup {<< >>}
  PROVE  /\ p \in Seq(0 .. Word - 1) /\ Len(p) \in Nat
         /\ \A i \in 1 .. Len(p) : p[i] \in 0 .. Word - 1 /\ p[i] \in 0 .. Long - 1
         /\ 2 * Len(p) + 10 < Base * Base * Base
<1>1. p \in Seq(0 .. Word - 1) /\ 2 * Len(p) + 10 < Base * Base * Base
  <2>1. CASE p \in Stats
    BY <2>1, MessagesAssumption
  <2>2. CASE p = << >>
    <3>1. Len(<< >>) = 0 /\ << >> \in Seq(0 .. Word - 1)
      BY EmptySeq
    <3>2. 2 * 0 + 10 < Base * Base * Base
      BY Bounds
    <3> QED
      BY <2>2, <3>1, <3>2
  <2> QED
    BY <2>1, <2>2
<1>2. Len(p) \in Nat /\ \A i \in 1 .. Len(p) : p[i] \in 0 .. Word - 1
  BY <1>1, LenProperties, ElementOfSeq
<1> QED
  BY <1>1, <1>2, WordAndLong

\* In a message of a type that has stats, what precedes them.
LEMMA BeforeType == \A t \in HasStats : Before(t) \in 3 .. 9
BY DEF HasStats, Before

\* A reader knows from the header and the type what the values are.
LEMMA Understood ==
  MessagesKept => AtHeader /\ StatsUnderstood
<1> SUFFICES ASSUME MessagesKept, closed, type # "none"
             PROVE  /\ Decoded(Written)[1] = [kind |-> "array", value |-> Len(Decoded(Written)) - 1]
                    /\ Decoded(Written)[2] = [kind |-> "number", value |-> MessageTypes[type]]
                    /\ type \in HasStats =>
                         /\ PointsRead(Decoded(Written), type) = points
                         /\ Last(Decoded(Written)).value = Level(points)
  BY DEF AtHeader, StatsUnderstood, HasStats
<1>1. EncodingInv /\ MessagesTypeOK /\ pending = << >> /\ todo = << >>
      /\ MessageShape(pushed \o todo, type, points)
  BY DEF MessagesKept, EncodingInv
<1>2. pushed \in Seq(Value) /\ type \in MessageType /\ points \in Stats \cup {<< >>}
  BY <1>1 DEF MessagesTypeOK, EncodingTypeOK
<1>3. pushed \o todo = pushed
  BY <1>1, <1>2, ConcatEmptySeq
<1> DEFINE u == pushed
           k == Len(u)
<1>4. /\ u \in Seq(Kept) /\ k >= 2 /\ k - 1 < Base * Base * Base
      /\ u[1] = Header(k - 1) /\ u[2] = TypeValue(type)
      /\ type \in HasStats => StatsAt(u, Before(type) + 1, points)
  BY <1>1, <1>3 DEF MessageShape
<1>5. PICK read : read = Decoded(Written)
  OBVIOUS
<1>6. read = MeaningOf(u)
  <2>1. RoundTrip
    BY <1>1, RoundTripFollows
  <2>2. DOMAIN pushed = 1 .. Len(pushed)
    BY <1>2, LenProperties
  <2> QED
    BY <1>1, <1>5, <2>1, <2>2 DEF RoundTrip, MeaningOf
<1>7. read \in Seq(ReadValue) /\ Len(read) = k /\ \A i \in 1 .. k : read[i] = Reading(u[i])
  BY <1>4, <1>6, MeaningKept
<1>8. k \in Nat
  BY <1>2, LenProperties
<1>9. read[1] = [kind |-> "array", value |-> k - 1]
  <2>1. PICK n : n = k - 1
    OBVIOUS
  <2>2. n \in Nat /\ n < Base * Base * Base /\ 1 \in 1 .. k
    BY <1>4, <1>8, <2>1
  <2>3. Reading(Header(n)) = [kind |-> "array", value |-> n]
    BY <2>2, HeaderKept
  <2> QED
    BY <1>4, <1>7, <2>1, <2>2, <2>3
<1>10. read[2] = [kind |-> "number", value |-> MessageTypes[type]]
  <2>1. MessageTypes[type] \in 0 .. Long - 1
    <3>1. PICK j : j = MessageTypes[type]
      OBVIOUS
    <3>2. j \in 2 .. 48
      BY <1>2, <3>1, TypeNumbers
    <3>3. j \in 0 .. Long - 1
      BY <3>2, Bounds
    <3> QED
      BY <3>1, <3>3
  <2>2. Reading(Uint(MessageTypes[type])) = [kind |-> "number", value |-> MessageTypes[type]]
    BY <2>1, UintKept
  <2>3. 2 \in 1 .. k
    BY <1>4, <1>8
  <2> QED
    BY <1>4, <1>7, <2>2, <2>3 DEF TypeValue
<1>11. ASSUME type \in HasStats
       PROVE  PointsRead(read, type) = points /\ Last(read).value = Level(points)
  <2>1. PICK b : b = Before(type) + 1
    OBVIOUS
  <2>2. b \in 4 .. 10
    <3>1. Before(type) \in 3 .. 9
      BY <1>11, BeforeType
    <3> QED
      BY <2>1, <3>1
  <2>3. StatsAt(u, b, points)
    BY <1>4, <1>11, <2>1
  <2>4. PICK l : l = Len(points)
    OBVIOUS
  <2>5. /\ points \in Seq(0 .. Word - 1) /\ l \in Nat
        /\ \A i \in 1 .. l : points[i] \in 0 .. Long - 1
    BY <1>2, <2>4, StatsType
  <2>6. /\ k = b + 2 * l + 1
        /\ \A i \in 1 .. l : u[b + 2 * i - 1] = Uint(points[i])
        /\ u[k] = Uint(Level(points))
    BY <2>3, <2>4 DEF StatsAt
  <2>7. Head(read).value = k - 1
    <3>1. Head(read) = read[1]
      <4>1. read # << >>
        BY <1>4, <1>7, EmptySeq
      <4> QED
        BY <1>7, <4>1, HeadTailProperties
    <3> QED
      BY <1>9, <3>1
  <2>8. (Head(read).value - b) \div 2 = l
    <3>1. (b + 2 * l + 1) - 1 - b = 2 * l
      BY <2>2, <2>5
    <3>2. (2 * l) \div 2 = l
      BY <2>5
    <3>3. (k - 1) - b = 2 * l
      BY <2>2, <2>5, <2>6
    <3> QED
      BY <2>7, <3>2, <3>3
  <2>9. ASSUME NEW i \in 1 .. l
        PROVE  read[b + 2 * i - 1].value = points[i]
    <3>1. PICK j : j = b + 2 * i - 1
      OBVIOUS
    <3>2. j \in 1 .. k
      BY <2>2, <2>5, <2>6, <3>1
    <3>3. read[j] = Reading(Uint(points[i]))
      BY <1>7, <2>6, <3>1, <3>2
    <3>4. points[i] \in 0 .. Long - 1
      BY <2>5
    <3>5. Reading(Uint(points[i])) = [kind |-> "number", value |-> points[i]]
      BY <3>4, UintKept
    <3> QED
      BY <3>1, <3>3, <3>5
  <2>10. PointsRead(read, type) = [i \in 1 .. l |-> points[i]]
    <3>1. [i \in 1 .. l |-> read[b + 2 * i - 1].value] = [i \in 1 .. l |-> points[i]]
      BY <2>9
    <3> QED
      BY <2>1, <2>8, <3>1 DEF PointsRead
  <2>11. points = [i \in 1 .. l |-> points[i]]
    BY <2>4, <2>5
  <2>12. Last(read).value = Level(points)
    <3>1. Last(read) = read[k]
      BY <1>7 DEF Last
    <3>2. Level(points) \in 0 .. Long - 1
      <4>1. CASE points \in Stats
        <5>1. Level(points) \in 0 .. Word - 1
          BY <4>1, MessagesAssumption
        <5> QED
          BY <5>1, WordAndLong
      <4>2. CASE points = << >>
        <5>1. Level(<< >>) = 0
          <6>1. Level(<< >>) = Total(<< >>)
            BY DEF Level, Total
          <6> QED
            BY <6>1, TotalProperties
        <5> QED
          BY <4>2, <5>1, WordAndLong
      <4> QED
        BY <1>2, <4>1, <4>2
    <3>3. Reading(Uint(Level(points))) = [kind |-> "number", value |-> Level(points)]
      BY <3>2, UintKept
    <3>4. k \in 1 .. k
      BY <1>4, <1>8
    <3> QED
      BY <1>7, <2>6, <3>1, <3>3, <3>4
  <2> QED
    BY <2>10, <2>11, <2>12
<1> QED
  BY <1>5, <1>7, <1>9, <1>10, <1>11

\* n times the same values are n times as many.
LEMMA TimesType ==
  ASSUME NEW T, NEW n \in Nat, NEW values \in Seq(T)
  PROVE  Times(n, values) \in Seq(T) /\ Len(Times(n, values)) = n * Len(values)
<1> DEFINE ss == [i \in 1 .. n |-> values]
           l == Len(values)
<1>1. l \in Nat
  BY LenProperties
<1>2. ss = [i \in 1 .. n |-> ss[i]] /\ \A i \in 1 .. n : ss[i] \in Seq(T) /\ ss[i] = values
  OBVIOUS
<1>3. FlattenSeq(ss) = Times(n, values)
  BY DEF Times
<1> HIDE DEF ss
<1>4. ss \in Seq(Seq(T)) /\ Len(ss) = n
  <2>1. ss = [i \in 1 .. n |-> ss[i]] /\ \A i \in 1 .. n : ss[i] \in Seq(T)
    BY <1>2
  <2> QED
    BY ONLY <2>1, FunctionIsSeq
<1>5. PICK p : /\ p \in [0 .. n -> Seq(T)]
               /\ p[0] = << >> /\ \A k \in 1 .. n : p[k] = p[k - 1] \o ss[k]
  <2>1. \E p \in [0 .. Len(ss) -> Seq(T)] :
          p[0] = << >> /\ \A k \in 1 .. Len(ss) : p[k] = p[k - 1] \o ss[k]
    <3>1. ss \in Seq(Seq(T))
      BY <1>4
    <3> QED
      BY ONLY <3>1, FlattenPathExists
  <2> QED
    BY <1>4, <2>1
<1>6. FlattenSeq(ss) = p[n]
  BY <1>4, <1>5, FlattenPath
<1> DEFINE P == {k \in 0 .. n : Len(p[k]) = k * l}
<1>7. 0 \in P
  <2>1. Len(p[0]) = 0 /\ 0 * l = 0
    BY <1>1, <1>5
  <2> QED
    BY <2>1
<1>8. ASSUME NEW k \in 0 .. n - 1, k \in P
      PROVE  k + 1 \in P
  <2>1. PICK i : i = k + 1
    OBVIOUS
  <2>2. i \in 1 .. n /\ i - 1 = k /\ k \in 0 .. n /\ i \in 0 .. n
    BY <2>1
  <2>3. PICK a, b : a = p[k] /\ b = p[i]
    OBVIOUS
  <2>4. a \in Seq(T) /\ b = a \o values
    BY <1>2, <1>5, <2>2, <2>3
  <2>5. Len(b) = Len(a) + l
    BY <2>4, ConcatProperties
  <2>6. Len(a) = k * l
    BY <1>8, <2>3
  <2>7. i * l = k * l + l
    BY <1>1, <2>1
  <2> QED
    BY <2>1, <2>2, <2>3, <2>5, <2>6, <2>7
<1>9. \A k \in 0 .. n - 1 : k \in P => k + 1 \in P
  BY <1>8
<1>10. n \in P
  <2> HIDE DEF P
  <2>1. \A k \in 0 .. n : k \in P
    BY <1>7, <1>9, Stepwise
  <2> QED
    BY <2>1
<1>11. p[n] \in Seq(T)
  BY <1>5
<1> QED
  BY <1>3, <1>6, <1>10, <1>11

\* Points and value of each stat, and the level.
LEMMA StatsOfType ==
  ASSUME NEW p \in Stats
  PROVE  /\ StatsOf(p) \in Seq(Kept) /\ Len(StatsOf(p)) = 2 * Len(p) + 1
         /\ \A i \in 1 .. Len(p) : StatsOf(p)[2 * i - 1] = Uint(p[i])
         /\ StatsOf(p)[2 * Len(p) + 1] = Uint(Level(p))
<1>1. PICK n \in Nat : n = Len(p)
  BY StatsType
<1>2. DOMAIN p = 1 .. n /\ \A i \in 1 .. n : p[i] \in 0 .. Long - 1
  BY <1>1, StatsType, LenProperties
<1> DEFINE ss == [i \in 1 .. n |-> <<Uint(p[i]), Fl>>]
           level == Uint(Level(p))
<1>3. level \in Kept
  <2>1. PICK j : j = Level(p)
    OBVIOUS
  <2>2. j \in 0 .. Word - 1
    BY <2>1, MessagesAssumption
  <2>3. j \in 0 .. Long - 1
    BY <2>2, WordAndLong
  <2> QED
    BY <2>1, <2>3, UintKept
<1>4. \A i \in 1 .. n : Uint(p[i]) \in Kept
  BY <1>2, UintKept
<1>5. ASSUME NEW i \in 1 .. n
      PROVE  ss[i] \in Seq(Kept) /\ Len(ss[i]) = 2 /\ ss[i][1] = Uint(p[i])
  <2>1. PICK a : a = Uint(p[i])
    OBVIOUS
  <2>2. a \in Kept /\ Fl \in Kept
    BY <1>4, <2>1, PlainKept
  <2>3. <<a, Fl>> \in Seq(Kept) /\ Len(<<a, Fl>>) = 2 /\ <<a, Fl>>[1] = a
    BY <2>2
  <2> QED
    BY <2>1, <2>3
<1>6. ss = [i \in 1 .. n |-> ss[i]]
  OBVIOUS
<1>7. StatsOf(p) = FlattenSeq(ss) \o <<level>>
  BY <1>2 DEF StatsOf
<1> HIDE DEF ss, level
<1>8. ss \in Seq(Seq(Kept)) /\ Len(ss) = n
  <2>1. ss = [i \in 1 .. n |-> ss[i]] /\ \A i \in 1 .. n : ss[i] \in Seq(Kept)
    BY <1>5, <1>6
  <2> QED
    BY ONLY <2>1, FunctionIsSeq
<1>9. PICK q : /\ q \in [0 .. n -> Seq(Kept)]
               /\ q[0] = << >> /\ \A k \in 1 .. n : q[k] = q[k - 1] \o ss[k]
  <2>1. \E q \in [0 .. Len(ss) -> Seq(Kept)] :
          q[0] = << >> /\ \A k \in 1 .. Len(ss) : q[k] = q[k - 1] \o ss[k]
    <3>1. ss \in Seq(Seq(Kept))
      BY <1>8
    <3> QED
      BY ONLY <3>1, FlattenPathExists
  <2> QED
    BY <1>8, <2>1
<1>10. FlattenSeq(ss) = q[n]
  BY <1>8, <1>9, FlattenPath
<1> DEFINE P == {k \in 0 .. n : Len(q[k]) = 2 * k /\ \A i \in 1 .. k : q[k][2 * i - 1] = Uint(p[i])}
<1>11. 0 \in P
  <2>1. Len(q[0]) = 0 /\ 2 * 0 = 0 /\ \A i : i \notin 1 .. 0
    BY <1>9
  <2> QED
    BY <2>1
<1>12. ASSUME NEW k \in 0 .. n - 1, k \in P
       PROVE  k + 1 \in P
  <2>1. PICK i : i = k + 1
    OBVIOUS
  <2>2. i \in 1 .. n /\ i - 1 = k /\ k \in 0 .. n /\ i \in 0 .. n
    BY <2>1
  <2>3. PICK a, b, c : a = q[k] /\ b = ss[i] /\ c = q[i]
    OBVIOUS
  <2>4. a \in Seq(Kept) /\ b \in Seq(Kept) /\ c = a \o b /\ Len(b) = 2 /\ b[1] = Uint(p[i])
    BY <1>5, <1>9, <2>2, <2>3
  <2>5. Len(a) = 2 * k /\ \A j \in 1 .. k : a[2 * j - 1] = Uint(p[j])
    BY <1>12, <2>3
  <2>6. /\ Len(c) = Len(a) + Len(b)
        /\ \A j \in 1 .. Len(a) + Len(b) : c[j] = IF j <= Len(a) THEN a[j] ELSE b[j - Len(a)]
    BY <2>4, ConcatProperties
  <2>7. Len(c) = 2 * i
    BY <2>1, <2>4, <2>5, <2>6
  <2>8. ASSUME NEW j \in 1 .. i
        PROVE  c[2 * j - 1] = Uint(p[j])
    <3>1. PICK m : m = 2 * j - 1
      OBVIOUS
    <3>2. CASE j <= k
      <4>1. m \in 1 .. Len(a) + Len(b) /\ m <= Len(a) /\ j \in 1 .. k
        BY <2>1, <2>4, <2>5, <3>1, <3>2
      <4>2. c[m] = a[m]
        BY <2>6, <4>1
      <4>3. a[2 * j - 1] = Uint(p[j])
        BY <2>5, <4>1
      <4> QED
        BY <3>1, <4>2, <4>3
    <3>3. CASE j = i
      <4>1. m \in 1 .. Len(a) + Len(b) /\ ~(m <= Len(a)) /\ m - Len(a) = 1
        BY <2>1, <2>4, <2>5, <3>1, <3>3
      <4>2. c[m] = b[1]
        BY <2>6, <4>1
      <4> QED
        BY <2>4, <3>1, <3>3, <4>2
    <3>4. j <= k \/ j = i
      BY <2>1
    <3> QED
      BY <3>2, <3>3, <3>4
  <2>9. i \in P
    BY <2>2, <2>3, <2>7, <2>8
  <2> QED
    BY <2>1, <2>9
<1>13. \A k \in 0 .. n - 1 : k \in P => k + 1 \in P
  BY <1>12
<1>14. n \in P
  <2> HIDE DEF P
  <2>1. \A k \in 0 .. n : k \in P
    BY <1>11, <1>13, Stepwise
  <2> QED
    BY <2>1
<1>15. PICK f, g : f = q[n] /\ g = <<level>>
  OBVIOUS
<1>16. f \in Seq(Kept) /\ Len(f) = 2 * n /\ \A i \in 1 .. n : f[2 * i - 1] = Uint(p[i])
  BY <1>9, <1>14, <1>15
<1>17. g \in Seq(Kept) /\ Len(g) = 1 /\ g[1] = level
  BY <1>3, <1>15
<1>18. StatsOf(p) = f \o g
  BY <1>7, <1>10, <1>15
<1>19. /\ f \o g \in Seq(Kept) /\ Len(f \o g) = 2 * n + 1
       /\ \A i \in 1 .. 2 * n + 1 : (f \o g)[i] = IF i <= 2 * n THEN f[i] ELSE g[i - 2 * n]
  <2>1. /\ f \o g \in Seq(Kept) /\ Len(f \o g) = Len(f) + Len(g)
        /\ \A i \in 1 .. Len(f) + Len(g) : (f \o g)[i] = IF i <= Len(f) THEN f[i] ELSE g[i - Len(f)]
    BY <1>16, <1>17, ConcatProperties
  <2> QED
    BY <1>16, <1>17, <2>1
<1>20. \A i \in 1 .. n : 2 * i - 1 \in 1 .. 2 * n + 1 /\ 2 * i - 1 <= 2 * n
  OBVIOUS
<1>21. 2 * n + 1 \in 1 .. 2 * n + 1 /\ ~(2 * n + 1 <= 2 * n) /\ (2 * n + 1) - 2 * n = 1
  OBVIOUS
<1>22. \A i \in 1 .. n : (f \o g)[2 * i - 1] = Uint(p[i])
  BY <1>16, <1>19, <1>20
<1>23. (f \o g)[2 * n + 1] = level
  BY <1>17, <1>19, <1>21
<1> QED
  BY <1>1, <1>18, <1>19, <1>22, <1>23 DEF level

\* A message that a function makes has the header of its values, its type, and stats
\* where a reader looks for them.
LEMMA MadePoints ==
  ASSUME MessagesKept, NEW n, NEW t \in MessageType, NEW values \in Seq(Given),
         NEW p \in Stats \cup {<< >>},
         MakePoints(n, t, values, p), n = Len(values) + 1, n < Base * Base * Base,
         t \in HasStats => /\ StatsAt(values, Before(t) - 1, p)
                           /\ \A i \in 1 .. Len(p) : values[Before(t) + 2 * i - 2] \in Kept
                           /\ values[Len(values)] \in Kept
  PROVE  MessagesKept'
<1> DEFINE l == Len(values)
<1>1. PICK given \in Names : todo' = <<Header(n), TypeValue(t)>> \o Named(values, given)
  BY DEF MakePoints, Names
<1>2. /\ type = "none" /\ pushed = << >> /\ closed = FALSE /\ type' = t /\ points' = p
      /\ parts' = parts /\ pos' = pos /\ size' = size /\ pending' = pending /\ pushed' = pushed
      /\ closed' = closed
      /\ EncodingInv /\ MessagesTypeOK /\ EncodingTypeOK /\ closed \in BOOLEAN
  BY DEF MakePoints, encoding, MessagesKept, MessagesTypeOK, EncodingTypeOK
<1>3. PICK w : w = Named(values, given)
  OBVIOUS
<1>4. /\ w \in Seq(Kept) /\ Len(w) = l /\ l \in Nat
      /\ \A i \in 1 .. l : values[i] \in Kept => w[i] = values[i]
  BY <1>3, NamedKept, LenProperties
<1>5. PICK a, b : a = Header(n) /\ b = TypeValue(t)
  OBVIOUS
<1>6. n \in Nat /\ a \in Kept /\ b \in Kept
  <2>1. n \in Nat
    BY <1>4
  <2>2. PICK j : j = MessageTypes[t]
    OBVIOUS
  <2>3. j \in 2 .. 48
    BY <2>2, TypeNumbers
  <2>4. j \in 0 .. Long - 1
    BY <2>3, Bounds
  <2>5. b \in Kept
    BY <1>5, <2>2, <2>4, UintKept DEF TypeValue
  <2> QED
    BY <1>5, <2>1, <2>5, HeaderKept
<1>7. PICK h : h = <<a, b>>
  OBVIOUS
<1>8. h \in Seq(Kept) /\ Len(h) = 2 /\ h[1] = a /\ h[2] = b
  BY <1>6, <1>7
<1>9. PICK u : u = h \o w
  OBVIOUS
<1>10. /\ u \in Seq(Kept) /\ Len(u) = 2 + l /\ u[1] = a /\ u[2] = b
       /\ \A i \in 1 .. l : u[2 + i] = w[i]
  <2>1. /\ u \in Seq(Kept) /\ Len(u) = Len(h) + Len(w)
        /\ \A i \in 1 .. Len(h) + Len(w) : u[i] = IF i <= Len(h) THEN h[i] ELSE w[i - Len(h)]
    <3>1. h \in Seq(Kept) /\ w \in Seq(Kept)
      BY <1>4, <1>8
    <3>2. /\ h \o w \in Seq(Kept) /\ Len(h \o w) = Len(h) + Len(w)
          /\ \A i \in 1 .. Len(h) + Len(w) : (h \o w)[i] = IF i <= Len(h) THEN h[i] ELSE w[i - Len(h)]
      BY ONLY <3>1, ConcatProperties
    <3> QED
      BY ONLY <1>9, <3>2
  <2>2. \A i \in 1 .. 2 + l : u[i] = IF i <= 2 THEN h[i] ELSE w[i - 2]
    BY <1>4, <1>8, <2>1
  <2>3. 1 \in 1 .. 2 + l /\ 2 \in 1 .. 2 + l
    BY <1>4
  <2>4. \A i \in 1 .. l : 2 + i \in 1 .. 2 + l /\ ~(2 + i <= 2) /\ (2 + i) - 2 = i
    BY <1>4
  <2>5. u[1] = a /\ u[2] = b
    BY <1>8, <2>2, <2>3
  <2>6. \A i \in 1 .. l : u[2 + i] = w[i]
    BY <2>2, <2>4
  <2> QED
    BY <1>4, <1>8, <2>1, <2>5, <2>6
<1>11. todo' = u /\ pushed' \o todo' = u
  <2>1. todo' = u
    BY <1>1, <1>3, <1>5, <1>7, <1>9
  <2>2. << >> \o u = u
    BY <1>10, ConcatEmptySeq
  <2> QED
    BY <1>2, <2>1, <2>2
<1>12. ASSUME t \in HasStats
       PROVE  StatsAt(u, Before(t) + 1, p)
  <2>1. PICK c : c = Before(t)
    OBVIOUS
  <2>2. c \in 3 .. 9
    BY <1>12, <2>1, BeforeType
  <2>3. PICK k : k = Len(p)
    OBVIOUS
  <2>4. k \in Nat
    BY <2>3, StatsType
  <2>5. /\ l = (c - 1) + 2 * k + 1
        /\ \A i \in 1 .. k : values[(c - 1) + 2 * i - 1] = Uint(p[i])
        /\ values[l] = Uint(Level(p))
        /\ \A i \in 1 .. k : values[c + 2 * i - 2] \in Kept
        /\ values[l] \in Kept
    <3>1. StatsAt(values, c - 1, p)
      BY <1>12, <2>1
    <3>2. /\ l = (c - 1) + 2 * k + 1
          /\ \A i \in 1 .. k : values[(c - 1) + 2 * i - 1] = Uint(p[i])
          /\ values[l] = Uint(Level(p))
      BY ONLY <3>1, <2>3 DEF StatsAt
    <3>3. \A i \in 1 .. k : values[c + 2 * i - 2] \in Kept
      BY <1>12, <2>1, <2>3
    <3>4. values[l] \in Kept
      BY <1>12
    <3> QED
      BY <3>2, <3>3, <3>4
  <2>6. Len(u) = (c + 1) + 2 * k + 1
    BY <1>10, <2>2, <2>4, <2>5
  <2>7. ASSUME NEW i \in 1 .. k
        PROVE  u[(c + 1) + 2 * i - 1] = Uint(p[i])
    <3>1. PICK j : j = c + 2 * i - 2
      OBVIOUS
    <3>2. j \in 1 .. l /\ j = (c - 1) + 2 * i - 1 /\ 2 + j = (c + 1) + 2 * i - 1
      BY <2>2, <2>4, <2>5, <3>1
    <3>3. values[j] = Uint(p[i]) /\ values[j] \in Kept
      BY <2>5, <3>1, <3>2
    <3>4. u[2 + j] = values[j]
      BY <1>4, <1>10, <3>2, <3>3
    <3> QED
      BY <3>2, <3>3, <3>4
  <2>8. u[Len(u)] = Uint(Level(p))
    <3>1. l \in 1 .. l /\ Len(u) = 2 + l
      BY <1>10, <2>2, <2>4, <2>5
    <3>2. u[2 + l] = values[l]
      BY <1>4, <1>10, <2>5, <3>1
    <3> QED
      BY <2>5, <3>1, <3>2
  <2> QED
    BY <2>1, <2>3, <2>6, <2>7, <2>8 DEF StatsAt
<1>13. MessageShape(u, t, p)
  <2>1. Len(u) >= 2 /\ Len(u) - 1 = n
    BY <1>4, <1>10
  <2>2. u[1] = Header(Len(u) - 1) /\ u[2] = TypeValue(t)
    BY <1>5, <1>10, <2>1
  <2> QED
    BY <1>10, <1>12, <2>1, <2>2 DEF MessageShape
<1>14. EncodingInv'
  BY <1>2 DEF EncodingInv, EncodingTypeOK, PartsFit, BytesKept, Written
<1>15. MessagesTypeOK'
  <2>1. u \in Seq(Value)
    <3>1. Kept \subseteq Value
      BY DEF Kept
    <3> QED
      BY <1>10, <3>1, SeqMonotonic
  <2> QED
    BY <1>2, <1>11, <1>14, <2>1 DEF MessagesTypeOK, EncodingInv
<1>16. t # "none"
  BY DEF MessageType, MessageTypes
<1> QED
  BY <1>2, <1>11, <1>13, <1>14, <1>15, <1>16 DEF MessagesKept

-----------------------------------------------------------------------------
(* The functions that make messages.                                        *)

\* A message of a type without stats.
LEMMA Made ==
  ASSUME MessagesKept, NEW n, NEW t \in MessageType, t \notin HasStats, NEW values \in Seq(Given),
         Make(n, t, values), n = Len(values) + 1, n < Base * Base * Base
  PROVE  MessagesKept'
<1>1. << >> \in Stats \cup {<< >>} /\ MakePoints(n, t, values, << >>)
  BY DEF Make
<1> QED
  BY <1>1, MadePoints

\* A message that ends with stats.
LEMMA StatsMade ==
  ASSUME MessagesKept, NEW n, NEW t \in HasStats, NEW front \in Seq(Given), NEW p \in Stats,
         Len(front) = Before(t) - 1, n = Before(t) + 1 + Len(p) * 2,
         MakePoints(n, t, front \o StatsOf(p), p)
  PROVE  MessagesKept'
<1>1. PICK b, k, s : b = Before(t) /\ k = Len(p) /\ s = StatsOf(p)
  OBVIOUS
<1>2. b \in 3 .. 9 /\ k \in Nat
  BY <1>1, BeforeType, StatsType
<1>2a. t \in MessageType /\ 2 * k + 10 < Base * Base * Base
  <2>1. 2 * k + 10 < Base * Base * Base
    BY <1>1, StatsType
  <2>2. t \in MessageType
    BY DEF HasStats, MessageType, MessageTypes
  <2> QED
    BY <2>1, <2>2
<1>3. /\ s \in Seq(Kept) /\ Len(s) = 2 * k + 1
      /\ \A i \in 1 .. k : s[2 * i - 1] = Uint(p[i])
      /\ s[2 * k + 1] = Uint(Level(p))
  BY <1>1, StatsOfType
<1>4. s \in Seq(Given) /\ \A i \in 1 .. 2 * k + 1 : s[i] \in Kept
  <2>1. Kept \subseteq Given
    BY DEF Given
  <2>2. s \in Seq(Given)
    BY <1>3, <2>1, SeqMonotonic
  <2>3. \A i \in 1 .. Len(s) : s[i] \in Kept
    BY <1>3, ElementOfSeq
  <2> QED
    BY <1>3, <2>2, <2>3
<1>5. PICK v : v = front \o s
  OBVIOUS
<1>6. /\ v \in Seq(Given) /\ Len(v) = b + 2 * k
      /\ \A i \in 1 .. 2 * k + 1 : v[(b - 1) + i] = s[i]
  <2>1. /\ front \o s \in Seq(Given) /\ Len(front \o s) = Len(front) + Len(s)
        /\ \A i \in 1 .. Len(front) + Len(s) :
             (front \o s)[i] = IF i <= Len(front) THEN front[i] ELSE s[i - Len(front)]
    BY ONLY <1>4, front \in Seq(Given), ConcatProperties
  <2>2. Len(front) = b - 1
    BY <1>1
  <2>3. Len(v) = b + 2 * k
    <3>1. Len(v) = Len(front) + Len(s)
      BY <1>5, <2>1
    <3> QED
      BY ONLY <1>2, <1>3, <2>2, <3>1
  <2>4. \A i \in 1 .. b + 2 * k : v[i] = IF i <= b - 1 THEN front[i] ELSE s[i - (b - 1)]
    <3>1. Len(front) + Len(s) = b + 2 * k
      BY <1>2, <1>3, <2>2
    <3> QED
      BY <1>5, <2>1, <2>2, <3>1
  <2>5. ASSUME NEW i \in 1 .. 2 * k + 1
        PROVE  v[(b - 1) + i] = s[i]
    <3>1. PICK j : j = (b - 1) + i
      OBVIOUS
    <3>2. j \in 1 .. b + 2 * k /\ ~(j <= b - 1) /\ j - (b - 1) = i
      BY <1>2, <3>1
    <3> QED
      BY <2>4, <3>1, <3>2
  <2> QED
    BY <1>5, <2>1, <2>3, <2>5
<1>7. StatsAt(v, b - 1, p)
  <2>1. Len(v) = (b - 1) + 2 * k + 1
    <3>1. Len(v) = b + 2 * k
      BY <1>6
    <3> QED
      BY ONLY <1>2, <3>1
  <2>2. ASSUME NEW i \in 1 .. k
        PROVE  v[(b - 1) + 2 * i - 1] = Uint(p[i])
    <3>1. PICK j : j = 2 * i - 1
      OBVIOUS
    <3>2. j \in 1 .. 2 * k + 1 /\ (b - 1) + j = (b - 1) + 2 * i - 1
      BY <1>2, <3>1
    <3> QED
      BY <1>3, <1>6, <3>1, <3>2
  <2>3. v[Len(v)] = Uint(Level(p))
    <3>1. 2 * k + 1 \in 1 .. 2 * k + 1 /\ (b - 1) + (2 * k + 1) = b + 2 * k
      BY <1>2
    <3>2. v[(b - 1) + (2 * k + 1)] = s[2 * k + 1]
      BY <1>6, <3>1
    <3> QED
      BY <1>3, <1>6, <3>1, <3>2
  <2> QED
    BY <1>1, <2>1, <2>2, <2>3 DEF StatsAt
<1>8. ASSUME NEW i \in 1 .. k
      PROVE  v[b + 2 * i - 2] \in Kept
  <2>1. PICK j : j = 2 * i - 1
    OBVIOUS
  <2>2. j \in 1 .. 2 * k + 1 /\ (b - 1) + j = b + 2 * i - 2
    BY <1>2, <2>1
  <2> QED
    BY <1>4, <1>6, <2>2
<1>9. v[Len(v)] \in Kept
  <2>1. 2 * k + 1 \in 1 .. 2 * k + 1 /\ (b - 1) + (2 * k + 1) = b + 2 * k
    BY <1>2
  <2>2. v[(b - 1) + (2 * k + 1)] = s[2 * k + 1]
    BY <1>6, <2>1
  <2> QED
    BY <1>4, <1>6, <2>1, <2>2
<1>10. n = Len(v) + 1 /\ n < Base * Base * Base
  <2>1. n = b + 1 + k * 2 /\ Len(v) = b + 2 * k
    BY <1>1, <1>6
  <2>2. n = Len(v) + 1 /\ n \in Nat /\ n <= 2 * k + 10
    BY ONLY <1>2, <2>1
  <2>3. PICK c \in Nat : c = Base * Base * Base
    BY Bounds
  <2>4. 2 * k + 10 < c
    BY <1>2a, <2>3
  <2>5. n < c
    BY ONLY <1>2, <2>2, <2>3, <2>4
  <2> QED
    BY <2>2, <2>3, <2>5
<1>11. MakePoints(n, t, v, p) /\ p \in Stats \cup {<< >>}
  BY <1>1, <1>5
<1>12. /\ StatsAt(v, Before(t) - 1, p)
       /\ \A i \in 1 .. Len(p) : v[Before(t) + 2 * i - 2] \in Kept
       /\ v[Len(v)] \in Kept
  BY <1>1, <1>7, <1>8, <1>9
<1> QED
  BY <1>2a, <1>6, <1>10, <1>11, <1>12, MadePoints

\* What the messages are put together from.
LEMMA GivenValues ==
  /\ Un \in Given /\ In \in Given /\ Fl \in Given /\ St \in Given /\ Nm \in Given /\ Time = Un
  /\ Pos \in Seq(Given) /\ Len(Pos) = 3
<1>1. Un \in Given /\ In \in Given /\ Fl \in Given /\ St \in Given /\ Nm \in Given /\ Time = Un
  BY PlainKept DEF Given, Time
<1> QED
  BY <1>1 DEF Pos

\* A list of values of which a message says that it has n values, with its type.
ListOf(n, values) == n \in 1 .. 16 /\ values \in Seq(Given) /\ n = Len(values) + 1

\* A type of which the values are listed.
TypeWithoutStats(t) == t \in MessageType /\ t \notin HasStats

\* A message of listed values.
LEMMA ListMade ==
  ASSUME MessagesKept, NEW n, NEW t, NEW values,
         ListOf(n, values), TypeWithoutStats(t), Make(n, t, values)
  PROVE  MessagesKept'
<1>1. n \in 1 .. 16 /\ values \in Seq(Given) /\ n = Len(values) + 1
  BY DEF ListOf
<1>2. n < Base * Base * Base
  <2>1. PICK c \in Nat : c = Base * Base * Base
    BY Bounds
  <2> QED
    BY <1>1, <2>1, Bounds
<1> QED
  BY <1>1, <1>2, Made DEF TypeWithoutStats

\* The messages about players of which the values are listed.
LEMMA PlayerListMade ==
  ASSUME MessagesKept,
         \/ PlayerDie \/ PlayerLearnEngram \/ PlayerUpdateInventoryWithQuality
         \/ PlayerUpdateInventory \/ PlayerHarvest2 \/ PlayerLogout
         \/ PlayerPasiveOnline \/ PlayerLevelUp \/ PlayerOnline
  PROVE  MessagesKept'
<1>1. Time \in Given /\ Un \in Given /\ In \in Given /\ Fl \in Given /\ St \in Given /\ Nm \in Given
  BY GivenValues
<1>2. ListOf(3, <<Time, Un>>)
  BY <1>1 DEF ListOf
<1>3. ListOf(4, <<Time, Un, Nm>>)
  BY <1>1 DEF ListOf
<1>4. ListOf(9, <<Time, Un, Nm, Un, Nm, Un, Nm, In>>)
  BY <1>1 DEF ListOf
<1>5. ListOf(7, <<Time, Un, Nm, In, Un, Un>>)
  BY <1>1 DEF ListOf
<1>6. ListOf(6, <<Time, Un, Nm, Un, Un>>)
  BY <1>1 DEF ListOf
<1>7. ListOf(6, <<Time, Un, St, Un, St>>)
  BY <1>1 DEF ListOf
<1>8. ListOf(4, <<Time, Un, Un>>)
  BY <1>1 DEF ListOf
<1>9. ListOf(6, <<Time, Un, Un, Un, Fl>>)
  BY <1>1 DEF ListOf
<1>10. ListOf(2, <<Un>>)
  BY <1>1 DEF ListOf
<1>11. \A t \in {"player_die", "player_learn_engram",
            "player_update_inventory_with_quality", "player_update_inventory",
            "player_harvest2", "player_logout", "player_pasive_online",
            "player_level_up", "player_online"} :
         TypeWithoutStats(t)
  BY DEF TypeWithoutStats, MessageType, MessageTypes, HasStats
<1>12. CASE PlayerDie
  <2>1. Make(3, "player_die", <<Time, Un>>)
    BY <1>12 DEF PlayerDie
  <2> QED
    BY <1>2, <1>11, <2>1, ListMade
<1>13. CASE PlayerLearnEngram
  <2>1. Make(4, "player_learn_engram", <<Time, Un, Nm>>)
    BY <1>13 DEF PlayerLearnEngram
  <2> QED
    BY <1>3, <1>11, <2>1, ListMade
<1>14. CASE PlayerUpdateInventoryWithQuality
  <2>1. Make(9, "player_update_inventory_with_quality", <<Time, Un, Nm, Un, Nm, Un, Nm, In>>)
    BY <1>14 DEF PlayerUpdateInventoryWithQuality
  <2> QED
    BY <1>4, <1>11, <2>1, ListMade
<1>15. CASE PlayerUpdateInventory
  <2>1. Make(7, "player_update_inventory", <<Time, Un, Nm, In, Un, Un>>)
    BY <1>15 DEF PlayerUpdateInventory
  <2> QED
    BY <1>5, <1>11, <2>1, ListMade
<1>16. CASE PlayerHarvest2
  <2>1. Make(6, "player_harvest2", <<Time, Un, Nm, Un, Un>>)
    BY <1>16 DEF PlayerHarvest2
  <2> QED
    BY <1>6, <1>11, <2>1, ListMade
<1>17. CASE PlayerLogout
  <2>1. Make(6, "player_logout", <<Time, Un, St, Un, St>>)
    BY <1>17 DEF PlayerLogout
  <2> QED
    BY <1>7, <1>11, <2>1, ListMade
<1>18. CASE PlayerPasiveOnline
  <2>1. Make(4, "player_pasive_online", <<Time, Un, Un>>)
    BY <1>18 DEF PlayerPasiveOnline
  <2> QED
    BY <1>8, <1>11, <2>1, ListMade
<1>19. CASE PlayerLevelUp
  <2>1. Make(6, "player_level_up", <<Time, Un, Un, Un, Fl>>)
    BY <1>19 DEF PlayerLevelUp
  <2> QED
    BY <1>9, <1>11, <2>1, ListMade
<1>20. CASE PlayerOnline
  <2>1. Make(2, "player_online", <<Un>>)
    BY <1>20 DEF PlayerOnline
  <2> QED
    BY <1>10, <1>11, <2>1, ListMade
<1> QED
  BY <1>12, <1>13, <1>14, <1>15, <1>16, <1>17, <1>18, <1>19, <1>20

\* The others of which the values are listed.
LEMMA OtherListMade ==
  ASSUME MessagesKept,
         \/ ServerPing \/ TribeCreate \/ TribeRemove \/ TribeLog \/ TribeRemovePlayer
         \/ TribeAddPlayer \/ TribeChangeName \/ TribeSetOwner \/ DinoWake \/ DinoDie
         \/ DinoLevelUp \/ DinoChangeName \/ ServerConfig
  PROVE  MessagesKept'
<1>1. Time \in Given /\ Un \in Given /\ In \in Given /\ Fl \in Given /\ St \in Given /\ Nm \in Given
  BY GivenValues
<1>2. ListOf(3, <<Time, Un>>)
  BY <1>1 DEF ListOf
<1>3. ListOf(5, <<Time, Un, Un, St>>)
  BY <1>1 DEF ListOf
<1>4. ListOf(4, <<Time, Un, St>>)
  BY <1>1 DEF ListOf
<1>5. ListOf(4, <<Time, Un, Un>>)
  BY <1>1 DEF ListOf
<1>6. ListOf(7, <<Time, Un, Un, Un, Un, Fl>>)
  BY <1>1 DEF ListOf
<1>7. ListOf(3, <<St, Fl>>)
  BY <1>1 DEF ListOf
<1>8. \A t \in {"server_ping", "tribe_create", "tribe_remove", "tribe_log",
            "tribe_remove_player", "tribe_add_player", "tribe_change_name",
            "tribe_set_owner", "dino_wake", "dino_die", "dino_level_up",
            "dino_change_name", "server_config_param"} :
         TypeWithoutStats(t)
  BY DEF TypeWithoutStats, MessageType, MessageTypes, HasStats
<1>9. CASE ServerPing
  <2>1. Make(3, "server_ping", <<Time, Un>>)
    BY <1>9 DEF ServerPing
  <2> QED
    BY <1>2, <1>8, <2>1, ListMade
<1>10. CASE TribeCreate
  <2>1. Make(5, "tribe_create", <<Time, Un, Un, St>>)
    BY <1>10 DEF TribeCreate
  <2> QED
    BY <1>3, <1>8, <2>1, ListMade
<1>11. CASE TribeRemove
  <2>1. Make(3, "tribe_remove", <<Time, Un>>)
    BY <1>11 DEF TribeRemove
  <2> QED
    BY <1>2, <1>8, <2>1, ListMade
<1>12. CASE TribeLog
  <2>1. Make(4, "tribe_log", <<Time, Un, St>>)
    BY <1>12 DEF TribeLog
  <2> QED
    BY <1>4, <1>8, <2>1, ListMade
<1>13. CASE TribeRemovePlayer
  <2>1. Make(4, "tribe_remove_player", <<Time, Un, Un>>)
    BY <1>13 DEF TribeRemovePlayer
  <2> QED
    BY <1>5, <1>8, <2>1, ListMade
<1>14. CASE TribeAddPlayer
  <2>1. Make(4, "tribe_add_player", <<Time, Un, Un>>)
    BY <1>14 DEF TribeAddPlayer
  <2> QED
    BY <1>5, <1>8, <2>1, ListMade
<1>15. CASE TribeChangeName
  <2>1. Make(4, "tribe_change_name", <<Time, Un, St>>)
    BY <1>15 DEF TribeChangeName
  <2> QED
    BY <1>4, <1>8, <2>1, ListMade
<1>16. CASE TribeSetOwner
  <2>1. Make(4, "tribe_set_owner", <<Time, Un, Un>>)
    BY <1>16 DEF TribeSetOwner
  <2> QED
    BY <1>5, <1>8, <2>1, ListMade
<1>17. CASE DinoWake
  <2>1. Make(3, "dino_wake", <<Time, Un>>)
    BY <1>17 DEF DinoWake
  <2> QED
    BY <1>2, <1>8, <2>1, ListMade
<1>18. CASE DinoDie
  <2>1. Make(3, "dino_die", <<Time, Un>>)
    BY <1>18 DEF DinoDie
  <2> QED
    BY <1>2, <1>8, <2>1, ListMade
<1>19. CASE DinoLevelUp
  <2>1. Make(7, "dino_level_up", <<Time, Un, Un, Un, Un, Fl>>)
    BY <1>19 DEF DinoLevelUp
  <2> QED
    BY <1>6, <1>8, <2>1, ListMade
<1>20. CASE DinoChangeName
  <2>1. Make(4, "dino_change_name", <<Time, Un, St>>)
    BY <1>20 DEF DinoChangeName
  <2> QED
    BY <1>4, <1>8, <2>1, ListMade
<1>21. CASE ServerConfig
  <2>1. Make(3, "server_config_param", <<St, Fl>>)
    BY <1>21 DEF ServerConfig
  <2> QED
    BY <1>7, <1>8, <2>1, ListMade
<1> QED
  BY <1>9, <1>10, <1>11, <1>12, <1>13, <1>14, <1>15, <1>16, <1>17, <1>18, <1>19, <1>20, <1>21

\* A login, of three types, and the start of the server.
LEMMA LoginAndStartMade ==
  ASSUME MessagesKept, PlayerLogin \/ ServerStart
  PROVE  MessagesKept'
<1>1. \A t \in {"player_login", "player_create", "stop_work", "server_start"} : TypeWithoutStats(t)
  BY DEF TypeWithoutStats, MessageType, MessageTypes, HasStats
<1>2. CASE PlayerLogin
  <2>1. PICK t \in {"player_login", "player_create", "stop_work"} : Make(6, t, <<Time, Un, St, Un, St>>)
    BY <1>2 DEF PlayerLogin
  <2>2. Time \in Given /\ Un \in Given /\ St \in Given
    BY GivenValues
  <2>3. ListOf(6, <<Time, Un, St, Un, St>>)
    BY <2>2 DEF ListOf
  <2> QED
    BY <1>1, <2>1, <2>3, ListMade
<1>3. CASE ServerStart
  <2>1. Make(1, "server_start", << >>)
    BY <1>3 DEF ServerStart
  <2>2. ListOf(1, << >>)
    BY EmptySeq DEF ListOf
  <2> QED
    BY <1>1, <2>1, <2>2, ListMade
<1> QED
  BY <1>2, <1>3

\* The messages with a place.
LEMMA PlaceMade ==
  ASSUME MessagesKept, BuildStructure \/ PlayerSetPos \/ PlayerSetPosAndActivity
  PROVE  MessagesKept'
<1>1. Time \in Given /\ Un \in Given /\ Nm \in Given /\ Pos \in Seq(Given) /\ Len(Pos) = 3
  BY GivenValues
<1>2. PICK a, b : a = <<Time, Un, Nm>> /\ b = <<Time, Un>>
  OBVIOUS
<1>3. a \in Seq(Given) /\ Len(a) = 3 /\ b \in Seq(Given) /\ Len(b) = 2
  BY <1>1, <1>2
<1>4. /\ a \o Pos \in Seq(Given) /\ Len(a \o Pos) = Len(a) + Len(Pos)
      /\ b \o Pos \in Seq(Given) /\ Len(b \o Pos) = Len(b) + Len(Pos)
  BY ONLY <1>1, <1>3, ConcatProperties
<1>5. ListOf(7, a \o Pos) /\ ListOf(6, b \o Pos)
  BY <1>1, <1>3, <1>4 DEF ListOf
<1>6. \A t \in {"build_structure", "player_set_pos", "player_set_pos_and_activity"} : TypeWithoutStats(t)
  BY DEF TypeWithoutStats, MessageType, MessageTypes, HasStats
<1>7. CASE BuildStructure
  <2>1. Make(7, "build_structure", a \o Pos)
    BY <1>2, <1>7 DEF BuildStructure
  <2> QED
    BY <1>5, <1>6, <2>1, ListMade
<1>8. CASE PlayerSetPos
  <2>1. Make(6, "player_set_pos", b \o Pos)
    BY <1>2, <1>8 DEF PlayerSetPos
  <2> QED
    BY <1>5, <1>6, <2>1, ListMade
<1>9. CASE PlayerSetPosAndActivity
  <2>1. PICK c, d : c = <<Un, Un>> /\ d = b \o Pos
    OBVIOUS
  <2>2. c \in Seq(Given) /\ Len(c) = 2 /\ d \in Seq(Given) /\ Len(d) = 5
    BY <1>1, <1>3, <1>4, <2>1
  <2>3. d \o c \in Seq(Given) /\ Len(d \o c) = Len(d) + Len(c)
    BY ONLY <2>2, ConcatProperties
  <2>4. ListOf(8, d \o c)
    BY <2>2, <2>3 DEF ListOf
  <2>5. Make(8, "player_set_pos_and_activity", d \o c)
    BY <1>2, <1>9, <2>1 DEF PlayerSetPosAndActivity
  <2> QED
    BY <1>6, <2>4, <2>5, ListMade
<1> QED
  BY <1>7, <1>8, <1>9

\* An item with all that it requires.
LEMMA RequirementsMade ==
  ASSUME MessagesKept, NEW req \in 0 .. MaxReq, PlayerUpdateInventory2(req)
  PROVE  MessagesKept'
<1>1. Time \in Given /\ Un \in Given /\ Nm \in Given /\ In \in Given
  BY GivenValues
<1>2. MaxReq \in Nat /\ req \in Nat /\ 16 + 2 * req < Base * Base * Base
  <2>1. MaxReq \in Nat /\ 2 * MaxReq + 16 < Base * Base * Base
    BY MessagesAssumption
  <2>2. PICK c \in Nat : c = Base * Base * Base
    BY Bounds
  <2> QED
    BY <2>1, <2>2
<1>3. Uint(req) \in Given
  <2>1. req < Word
    <3>1. PICK c, w \in Nat : c = Base * Base * Base /\ w = Word
      BY WordAndLong
    <3> QED
      BY <1>2, <3>1, WordAndLong
  <2>2. req \in 0 .. Long - 1
    BY <1>2, <2>1, WordAndLong
  <2> QED
    BY <2>2, UintKept DEF Given
<1>4. PICK a, one, both : a = <<Time, Un, Nm, In, Un, Un>> /\ one = <<In>> /\ both = <<In, Nm>>
  OBVIOUS
<1>5. /\ a \in Seq(Given) /\ Len(a) = 6
      /\ one \in Seq(Given) /\ Len(one) = 1
      /\ both \in Seq(Given) /\ Len(both) = 2
  BY <1>1, <1>4
<1>6. PICK b, c, d : b = Times(8, one) /\ c = <<Uint(req)>> /\ d = Times(req, both)
  OBVIOUS
<1>7. b \in Seq(Given) /\ Len(b) = 8
  <2>1. Times(8, one) \in Seq(Given) /\ Len(Times(8, one)) = 8 * Len(one)
    BY <1>5, TimesType
  <2> QED
    BY <1>5, <1>6, <2>1
<1>8. d \in Seq(Given) /\ Len(d) = req * 2
  <2>1. Times(req, both) \in Seq(Given) /\ Len(Times(req, both)) = req * Len(both)
    BY <1>2, <1>5, TimesType
  <2> QED
    BY <1>5, <1>6, <2>1
<1>9. c \in Seq(Given) /\ Len(c) = 1
  <2>1. PICK u : u = Uint(req)
    OBVIOUS
  <2>2. <<u>> \in Seq(Given) /\ Len(<<u>>) = 1
    BY <1>3, <2>1
  <2> QED
    BY <1>6, <2>1, <2>2
<1>10. PICK e : e = a \o b
  OBVIOUS
<1>11. e \in Seq(Given) /\ Len(e) = 14
  <2>1. a \o b \in Seq(Given) /\ Len(a \o b) = Len(a) + Len(b)
    BY ONLY <1>5, <1>7, ConcatProperties
  <2> QED
    BY <1>5, <1>7, <1>10, <2>1
<1>12. PICK f : f = e \o c
  OBVIOUS
<1>13. f \in Seq(Given) /\ Len(f) = 15
  <2>1. e \o c \in Seq(Given) /\ Len(e \o c) = Len(e) + Len(c)
    BY ONLY <1>9, <1>11, ConcatProperties
  <2> QED
    BY <1>9, <1>11, <1>12, <2>1
<1>14. PICK g : g = f \o d
  OBVIOUS
<1>15. g \in Seq(Given) /\ Len(g) = 15 + req * 2
  <2>1. f \o d \in Seq(Given) /\ Len(f \o d) = Len(f) + Len(d)
    BY ONLY <1>8, <1>13, ConcatProperties
  <2> QED
    BY <1>8, <1>13, <1>14, <2>1
<1>16. PICK n : n = 7 + 8 + 1 + req * 2
  OBVIOUS
<1>17. n = Len(g) + 1 /\ n < Base * Base * Base
  <2>1. n = 16 + 2 * req
    BY <1>2, <1>16
  <2> QED
    BY <1>2, <1>15, <2>1
<1>18. Make(n, "player_update_inventory2", g)
  <2>1. g = a \o b \o c \o d
    BY <1>10, <1>12, <1>14
  <2>2. Make(7 + 8 + 1 + req * 2, "player_update_inventory2", a \o b \o c \o d)
    BY <1>4, <1>6 DEF PlayerUpdateInventory2
  <2> QED
    BY <1>16, <2>1, <2>2
<1>19. "player_update_inventory2" \in MessageType /\ "player_update_inventory2" \notin HasStats
  BY DEF MessageType, MessageTypes, HasStats
<1> QED
  BY <1>15, <1>17, <1>18, <1>19, Made

\* The messages with the points of a status component.
LEMMA PointsMade ==
  ASSUME MessagesKept, NEW p \in Stats,
         PlayerAllStats(p) \/ DinoKnockdown(p) \/ DinoTame(p) \/ DinoSpawnWild(p)
  PROVE  MessagesKept'
<1>1. Time \in Given /\ Un \in Given /\ Nm \in Given /\ Pos \in Seq(Given) /\ Len(Pos) = 3
  BY GivenValues
<1>2. PICK a, b, c, d : /\ a = <<Time, Un>> /\ b = <<Time, Un, Un, Un, Nm>>
                        /\ c = <<Time, Un, Un, Un>> /\ d = <<Time, Un, Nm>>
  OBVIOUS
<1>3. /\ a \in Seq(Given) /\ Len(a) = 2 /\ b \in Seq(Given) /\ Len(b) = 5
      /\ c \in Seq(Given) /\ Len(c) = 4 /\ d \in Seq(Given) /\ Len(d) = 3
  BY <1>1, <1>2
<1>4. /\ b \o Pos \in Seq(Given) /\ Len(b \o Pos) = Len(b) + Len(Pos)
      /\ d \o Pos \in Seq(Given) /\ Len(d \o Pos) = Len(d) + Len(Pos)
  BY ONLY <1>1, <1>3, ConcatProperties
<1>5. PICK e, f : e = b \o Pos /\ f = d \o Pos
  OBVIOUS
<1>6. e \in Seq(Given) /\ Len(e) = 8 /\ f \in Seq(Given) /\ Len(f) = 6
  BY <1>1, <1>3, <1>4, <1>5
<1>7. /\ Before("player_all_stats") = 3 /\ Before("dino_knockdown") = 9
      /\ Before("dino_tame") = 5 /\ Before("dino_spawn_wild") = 7
      /\ {"player_all_stats", "dino_knockdown", "dino_tame", "dino_spawn_wild"} = HasStats
  BY DEF Before, HasStats
<1>8. PICK s : s = StatsOf(p)
  OBVIOUS
<1>9. PICK k : k = Len(p) * 2
  OBVIOUS
<1>10. CASE PlayerAllStats(p)
  <2>1. MakePoints(4 + k, "player_all_stats", a \o s, p)
    BY <1>2, <1>8, <1>9, <1>10 DEF PlayerAllStats
  <2>2. Len(a) = Before("player_all_stats") - 1 /\ 4 + k = Before("player_all_stats") + 1 + Len(p) * 2
    BY <1>3, <1>7, <1>9
  <2> QED
    BY <1>3, <1>7, <1>8, <2>1, <2>2, StatsMade
<1>11. CASE DinoKnockdown(p)
  <2>1. MakePoints(10 + k, "dino_knockdown", e \o s, p)
    BY <1>2, <1>5, <1>8, <1>9, <1>11 DEF DinoKnockdown
  <2>2. Len(e) = Before("dino_knockdown") - 1 /\ 10 + k = Before("dino_knockdown") + 1 + Len(p) * 2
    BY <1>6, <1>7, <1>9
  <2> QED
    BY <1>6, <1>7, <1>8, <2>1, <2>2, StatsMade
<1>12. CASE DinoTame(p)
  <2>1. MakePoints(6 + k, "dino_tame", c \o s, p)
    BY <1>2, <1>8, <1>9, <1>12 DEF DinoTame
  <2>2. Len(c) = Before("dino_tame") - 1 /\ 6 + k = Before("dino_tame") + 1 + Len(p) * 2
    BY <1>3, <1>7, <1>9
  <2> QED
    BY <1>3, <1>7, <1>8, <2>1, <2>2, StatsMade
<1>13. CASE DinoSpawnWild(p)
  <2>1. MakePoints(8 + k, "dino_spawn_wild", f \o s, p)
    BY <1>2, <1>5, <1>8, <1>9, <1>13 DEF DinoSpawnWild
  <2>2. Len(f) = Before("dino_spawn_wild") - 1 /\ 8 + k = Before("dino_spawn_wild") + 1 + Len(p) * 2
    BY <1>6, <1>7, <1>9
  <2> QED
    BY <1>6, <1>7, <1>8, <2>1, <2>2, StatsMade
<1> QED
  BY <1>10, <1>11, <1>12, <1>13

\* Every function makes a message that a reader understands.
LEMMA FunctionMade ==
  ASSUME MessagesKept, Function
  PROVE  MessagesKept'
<1>1. CASE \E req \in 0 .. MaxReq : PlayerUpdateInventory2(req)
  BY <1>1, RequirementsMade
<1>2. CASE \E p \in Stats : PlayerAllStats(p) \/ DinoKnockdown(p) \/ DinoTame(p) \/ DinoSpawnWild(p)
  BY <1>2, PointsMade
<1>3. CASE BuildStructure \/ PlayerSetPos \/ PlayerSetPosAndActivity
  BY <1>3, PlaceMade
<1>4. CASE PlayerLogin \/ ServerStart
  BY <1>4, LoginAndStartMade
<1>5. CASE \/ PlayerDie \/ PlayerLearnEngram \/ PlayerUpdateInventoryWithQuality
           \/ PlayerUpdateInventory \/ PlayerHarvest2 \/ PlayerLogout \/ PlayerPasiveOnline
           \/ PlayerLevelUp \/ PlayerOnline
  BY <1>5, PlayerListMade
<1>6. CASE \/ ServerPing \/ TribeCreate \/ TribeRemove \/ TribeLog \/ TribeRemovePlayer
           \/ TribeAddPlayer \/ TribeChangeName \/ TribeSetOwner \/ DinoWake \/ DinoDie
           \/ DinoLevelUp \/ DinoChangeName \/ ServerConfig
  BY <1>6, OtherListMade
<1> QED
  BY <1>1, <1>2, <1>3, <1>4, <1>5, <1>6 DEF Function

-----------------------------------------------------------------------------
(* The making of a message keeps the invariant.                             *)

\* At first no message is made.
LEMMA MessagesStart == MessagesInit => MessagesKept
<1> SUFFICES ASSUME MessagesInit PROVE MessagesKept
  OBVIOUS
<1>1. EncodingInit /\ todo = << >> /\ type = "none" /\ points = << >>
  BY DEF MessagesInit
<1>2. EncodingInv
  BY <1>1, EncodingStarts
<1>3. << >> \in Seq(Value)
  BY EmptySeq
<1> QED
  BY <1>1, <1>2, <1>3 DEF MessagesKept, MessagesTypeOK, EncodingInv

\* The values that are pushed and those that are to be pushed stay what they are.
LEMMA PushNextKeeps ==
  ASSUME MessagesKept, PushNext
  PROVE  MessagesKept'
<1>1. /\ todo # << >> /\ PushValue(Head(todo)) /\ todo' = Tail(todo)
      /\ type' = type /\ points' = points
  BY DEF PushNext
<1>2. /\ EncodingInv /\ pushed \in Seq(Value) /\ todo \in Seq(Value)
      /\ type \in MessageType \cup {"none"} /\ points \in Stats \cup {<< >>}
  BY DEF MessagesKept, MessagesTypeOK, EncodingTypeOK
<1>3. pushed' = Append(pushed, Head(todo)) /\ closed' = closed /\ ~closed
  BY <1>1 DEF PushValue
<1>4. /\ Tail(todo) \in Seq(Value) /\ Head(todo) \in Value
      /\ Append(pushed, Head(todo)) \o Tail(todo) = pushed \o todo
  BY ONLY <1>1, <1>2, MoveHead
<1>5. EncodingInv'
  BY <1>1, <1>2, <1>4, PushValueKeeps
<1>6. type # "none" /\ MessageShape(pushed \o todo, type, points)
  BY <1>1 DEF MessagesKept
<1>7. MessageShape(pushed' \o todo', type', points')
  BY <1>1, <1>3, <1>4, <1>6
<1> QED
  BY <1>1, <1>2, <1>3, <1>4, <1>5, <1>6, <1>7 DEF MessagesKept, MessagesTypeOK, EncodingInv

\* A value of no function is pushed.
LEMMA PushAnyKeeps ==
  ASSUME MessagesKept, NEW v \in Values, PushAny(v)
  PROVE  MessagesKept'
<1>1. /\ type = "none" /\ PushValue(v) /\ todo' = todo /\ type' = type /\ points' = points
      /\ ~closed /\ closed' = closed
  BY DEF PushAny, PushValue
<1>2. v \in Value
  BY MessagesAssumption
<1>3. EncodingInv /\ todo = << >> /\ MessagesTypeOK
  BY <1>1 DEF MessagesKept
<1>4. EncodingInv'
  BY <1>1, <1>2, <1>3, PushValueKeeps
<1> QED
  BY <1>1, <1>3, <1>4 DEF MessagesKept, MessagesTypeOK, EncodingInv

\* Bytes of a value are pushed.
LEMMA PushBytesKeeps ==
  ASSUME MessagesKept, PushBytes
  PROVE  MessagesKept'
<1>1. PushMemory /\ todo' = todo /\ type' = type /\ points' = points
      /\ pushed' = pushed /\ closed' = closed
  BY DEF PushBytes, PushMemory
<1>2. EncodingInv /\ MessagesTypeOK
  BY DEF MessagesKept
<1>3. EncodingInv'
  BY <1>1, <1>2, PushMemoryKeeps
<1> QED
  BY <1>1, <1>2, <1>3 DEF MessagesKept, MessagesTypeOK, EncodingInv

\* A message is closed once all of its values are pushed.
LEMMA CloseKeeps ==
  ASSUME MessagesKept, Close
  PROVE  MessagesKept'
<1>1. SetSize /\ todo = << >> /\ todo' = todo /\ type' = type /\ points' = points
      /\ pushed' = pushed
  BY DEF Close, SetSize
<1>2. EncodingInv /\ MessagesTypeOK
  BY DEF MessagesKept
<1>3. EncodingInv'
  BY <1>1, <1>2, SetSizeKeeps
<1> QED
  BY <1>1, <1>2, <1>3 DEF MessagesKept, MessagesTypeOK, EncodingInv

\* The next message is begun.
LEMMA AnotherKeeps ==
  ASSUME MessagesKept, Another
  PROVE  MessagesKept'
<1>1. NewMessage /\ closed /\ todo' = todo /\ type' = "none" /\ points' = << >>
  BY DEF Another, NewMessage
<1>2. EncodingInv /\ MessagesTypeOK /\ todo = << >>
  BY <1>1 DEF MessagesKept
<1>3. EncodingInv'
  BY <1>1, <1>2, NewMessageKeeps
<1> QED
  BY <1>1, <1>2, <1>3 DEF MessagesKept, MessagesTypeOK, EncodingInv

\* A stutter changes nothing.
LEMMA MessagesStay ==
  ASSUME MessagesKept, UNCHANGED messagesVars
  PROVE  MessagesKept'
<1>1. /\ parts' = parts /\ pos' = pos /\ size' = size /\ pending' = pending /\ pushed' = pushed
      /\ closed' = closed /\ todo' = todo /\ type' = type /\ points' = points
  BY DEF messagesVars, encoding
<1>2. EncodingInv'
  BY <1>1 DEF MessagesKept, EncodingInv, EncodingTypeOK, PartsFit, BytesKept, Written
<1> QED
  BY <1>1, <1>2 DEF MessagesKept, MessagesTypeOK, EncodingInv

\* Each step keeps the invariant.
LEMMA MessagesStep == MessagesKept /\ [MessagesNext]_messagesVars => MessagesKept'
<1> SUFFICES ASSUME MessagesKept, [MessagesNext]_messagesVars
             PROVE  MessagesKept'
  OBVIOUS
<1>1. CASE Function
  BY <1>1, FunctionMade
<1>2. CASE PushNext
  BY <1>2, PushNextKeeps
<1>3. CASE \E v \in Values : PushAny(v)
  BY <1>3, PushAnyKeeps
<1>4. CASE PushBytes
  BY <1>4, PushBytesKeeps
<1>5. CASE Close
  BY <1>5, CloseKeeps
<1>6. CASE Another
  BY <1>6, AnotherKeeps
<1>7. CASE UNCHANGED messagesVars
  BY <1>7, MessagesStay
<1> QED
  BY <1>1, <1>2, <1>3, <1>4, <1>5, <1>6, <1>7 DEF MessagesNext

\* The inductive invariant of the messages.
LEMMA MessagesInvariance == MessagesSpec => []MessagesKept
<1>1. MessagesInit => MessagesKept
  BY MessagesStart
<1>2. MessagesKept /\ [MessagesNext]_messagesVars => MessagesKept'
  BY MessagesStep
<1> QED
  BY <1>1, <1>2, PTL DEF MessagesSpec

\* The buffers of a message are within their limits and their sizes add up, and a
\* reader of its bytes knows from the number of values and the type what the values
\* are (EventMessage.cpp 3, 21-61, 206-208; Messages.cpp).
THEOREM MessagesUnderstood == MessagesSpec => []MessagesInv
<1>1. MessagesKept => MessagesInv
  BY Understood, SizeExactFollows DEF MessagesInv, MessagesKept, EncodingInv
<1> QED
  BY <1>1, MessagesInvariance, PTL

\* A reader gets back the values that were pushed, however they were split between
\* buffers (EventMessage.cpp 83-204).
THEOREM ValuesReadBack == MessagesSpec => []RoundTrip
<1>1. MessagesKept => RoundTrip
  BY RoundTripFollows DEF MessagesKept
<1> QED
  BY <1>1, MessagesInvariance, PTL

=============================================================================
