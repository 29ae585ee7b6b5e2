---------------------------- MODULE StringLibrary ----------------------------
(***************************************************************************)
(* The string library of the event log (M_event_writer.cpp).  A string of  *)
(* more than 16 characters is written once, with a number, and from then   *)
(* on by its number.  The definition goes into two logs: the event log, in *)
(* front of the message that uses it, and the string log, which the next   *)
(* session reads to know the numbers given out so far.                     *)
(*                                                                         *)
(* The two logs have a writer thread each, and advance independently: each *)
(* is an EventLog (which the module EventWriter implements), a queue whose *)
(* oldest messages reach the disk sooner or later and whose rest is lost   *)
(* when the session ends.  All strings are pushed by the game thread.      *)
(*                                                                         *)
(* The last message that a session writes may be cut off.  The next one    *)
(* appends to the same file, unless that is full, and a reader takes what  *)
(* is appended for the rest of the record that was cut off: it finds wrong *)
(* definitions, and is out of step with the records from there on, until   *)
(* the file ends or it falls into step by chance.  stringLog is therefore  *)
(* what the constructor makes of the files, right or wrong.                *)
(***************************************************************************)
EXTENDS Integers, Sequences, SequencesExt, FiniteSetsExt

CONSTANTS
  String,      \* strings of more than 16 characters
  IdLimit,     \* numbers from here on are not read back (65536)
  DefaultId,   \* what is read in place of such a number (123456)
  MaxUses,     \* bound: messages with a string in the event log and its queue
  MaxSessions, \* bound: sessions
  MaxWrong     \* bound: wrong definitions that one appended record can make

ASSUME StringLibraryAssumption ==
  /\ IdLimit \in Nat /\ DefaultId \in Nat /\ IdLimit <= DefaultId
  /\ MaxUses \in Nat /\ MaxSessions \in Nat /\ MaxWrong \in Nat

VARIABLES
  eventLog,    \* the definitions and uses in the event files
  eventQueue,  \* those in the queue of eventWriter
  stringLog,   \* the definitions that a reader finds in the string files
  stringQueue, \* those in the queue of eventStringWriter
  library,     \* stringLibrary: the numbers of the known strings
  stringId,    \* the next number
  phase,       \* "down", "idle", or "between" the two pushes of a definition
  name,        \* the string that is being defined
  started,     \* history: the length of stringLog when each session began
  cut,         \* what is appended to the string files is read out of step
  unread,      \* history: a session did not read all of the string files
  garbled      \* history: there are wrong definitions in stringLog

logs == <<eventLog, eventQueue, stringLog, stringQueue, cut, garbled>>
libraryVars == <<logs, library, stringId, phase, name, started, unread>>

Up == phase # "down"
session == Len(started)

\* The records of the two logs; session is known to the reader of the files
\* (m_server_start is logged), string in a use is what the writer meant.
Definition(s, id) == [string |-> s, id |-> id]
Defined(s, id) ==
  [op |-> "define", string |-> s, id |-> id, session |-> session]
Used(s, id) ==
  [op |-> "use", string |-> s, id |-> id, session |-> session]

\* Mistake: the limit is one too low.
ReadIdOffByOne(id) == IF id < IdLimit - 1 THEN id ELSE DefaultId

\* The constructor understands numbers of one and two bytes only.
ReadId(id) == IF id < IdLimit THEN id ELSE DefaultId

\* No entry of the map is overwritten: the first definition counts.
ReadLibrary(read) ==
  [s \in {stringLog[i].string : i \in read} |->
     ReadId(stringLog[Min({i \in read : stringLog[i].string = s})].id)]

\* Mistake: the largest number is given out again.
NextIdLargest(read) == Max({0} \cup {ReadId(stringLog[i].id) : i \in read})

NextId(read) == Max({0} \cup {ReadId(stringLog[i].id) + 1 : i \in read})

\* The messages with a string that there have been.
Uses == Len(SelectSeq(eventLog \o eventQueue, LAMBDA e : e.op = "use"))

NoStrings == [s \in {} |-> 0]

LibraryInit ==
  /\ eventLog = << >> /\ eventQueue = << >>
  /\ stringLog = << >> /\ stringQueue = << >>
  /\ library = NoStrings /\ stringId = 0
  /\ phase = "down" /\ name = {} /\ started = << >>
  /\ cut = FALSE /\ unread = FALSE /\ garbled = FALSE

-----------------------------------------------------------------------------
\* The constructor reads the definitions in the string files; a file that
\* cannot be opened, or the rest of one that cannot be read, is skipped.
Load(read) ==
  /\ phase = "down" /\ session < MaxSessions
  /\ library' = ReadLibrary(read) /\ stringId' = NextId(read)
  /\ phase' = "idle"
  /\ started' = Append(started, Len(stringLog))
  /\ unread' = (unread \/ read # DOMAIN stringLog)
  /\ UNCHANGED <<logs, name>>

\* push_string_to_message of a known string, and the push of the message.
UseKnown(s) ==
  /\ phase = "idle" /\ Uses < MaxUses
  /\ s \in DOMAIN library
  /\ eventQueue' = Append(eventQueue, Used(s, library[s]))
  /\ UNCHANGED <<eventLog, stringLog, stringQueue, cut, garbled, library,
                 stringId, phase, name, started, unread>>

\* Mistake: the string is not looked up.
DefineAgain(s) ==
  /\ phase = "idle" /\ Uses < MaxUses
  /\ eventQueue' = Append(eventQueue, Defined(s, stringId))
  /\ phase' = "between" /\ name' = {s}
  /\ UNCHANGED <<eventLog, stringLog, stringQueue, cut, garbled, library,
                 stringId, started, unread>>

\* Mistake: the definition goes to the string log alone.
DefineSilently(s) ==
  /\ phase = "idle" /\ Uses < MaxUses
  /\ s \notin DOMAIN library
  /\ phase' = "between" /\ name' = {s}
  /\ UNCHANGED <<logs, library, stringId, started, unread>>

\* push_string_to_message of a new string: the definition is pushed to the
\* event log,
DefineInEvents(s) ==
  /\ phase = "idle" /\ Uses < MaxUses
  /\ s \notin DOMAIN library
  /\ eventQueue' = Append(eventQueue, Defined(s, stringId))
  /\ phase' = "between" /\ name' = {s}
  /\ UNCHANGED <<eventLog, stringLog, stringQueue, cut, garbled, library,
                 stringId, started, unread>>

\* then to the string log; it enters the library, and the message is pushed.
DefineInStrings ==
  /\ phase = "between"
  /\ \E s \in name :
       /\ stringQueue' = Append(stringQueue, Definition(s, stringId))
       /\ library' = [t \in DOMAIN library \cup {s} |->
                        IF t = s THEN stringId ELSE library[t]]
       /\ eventQueue' = Append(eventQueue, Used(s, stringId))
  /\ stringId' = stringId + 1
  /\ phase' = "idle" /\ name' = {}
  /\ UNCHANGED <<eventLog, stringLog, cut, garbled, started, unread>>

\* The thread of eventWriter writes its oldest message.
FlushEvents ==
  /\ Up /\ eventQueue # << >>
  /\ eventLog' = Append(eventLog, Head(eventQueue))
  /\ eventQueue' = Tail(eventQueue)
  /\ UNCHANGED <<stringLog, stringQueue, cut, garbled, library, stringId, phase,
                 name, started, unread>>

\* The thread of eventStringWriter writes its oldest message, to the latest
\* file, or to a new one when that is full: a reader is in step with it if no
\* record has been cut off, and in a new file.
FlushStrings ==
  /\ Up /\ stringQueue # << >>
  /\ stringLog' = Append(stringLog, Head(stringQueue))
  /\ stringQueue' = Tail(stringQueue) /\ cut' = FALSE
  /\ UNCHANGED <<eventLog, eventQueue, garbled, library, stringId, phase, name,
                 started, unread>>

\* What a reader makes of bytes behind a record that was cut off.
Wrong == {Definition(s, id) : s \in String,
                              id \in (0 .. IdLimit - 1) \cup {DefaultId}}

Misreadings == UNION {[1 .. n -> Wrong] : n \in 0 .. MaxWrong}

\* Bytes are appended behind such a record.  The reader may be in step again
\* behind a wrong definition.
Misread ==
  \E found \in Misreadings :
    /\ stringLog' = stringLog \o found
    /\ garbled' = (garbled \/ found # << >>)
    /\ cut' \in BOOLEAN /\ (found = << >> => cut')

\* The oldest message is written behind one that was cut off.
FlushBehindCut ==
  /\ Up /\ stringQueue # << >> /\ cut
  /\ Misread
  /\ stringQueue' = Tail(stringQueue)
  /\ UNCHANGED <<eventLog, eventQueue, library, stringId, phase, name, started,
                 unread>>

\* The plugin is unloaded or the process dies: what has not been written by
\* then is lost, in each log as much as it may be.
Lost ==
  /\ Up
  /\ eventQueue' = << >> /\ stringQueue' = << >>
  /\ library' = NoStrings /\ stringId' = 0
  /\ phase' = "down" /\ name' = {}
  /\ UNCHANGED <<eventLog, started, unread>>

End == Lost /\ UNCHANGED <<stringLog, cut, garbled>>

\* A part of the oldest message is written, which is the last one to be.
EndCutOff ==
  /\ Lost /\ stringQueue # << >>
  /\ IF cut THEN Misread ELSE cut' = TRUE /\ UNCHANGED <<stringLog, garbled>>

LibraryDone == phase = "down" /\ session = MaxSessions /\ UNCHANGED libraryVars

LibraryNext ==
  \/ \E read \in SUBSET DOMAIN stringLog : Load(read)
  \/ \E s \in String : UseKnown(s) \/ DefineInEvents(s)
  \/ DefineInStrings
  \/ FlushEvents \/ FlushStrings \/ FlushBehindCut
  \/ End \/ EndCutOff
  \/ LibraryDone

LibrarySpec == LibraryInit /\ [][LibraryNext]_libraryVars

-----------------------------------------------------------------------------
Event == [op : {"define", "use"}, string : String, id : Nat,
          session : 1 .. MaxSessions]

LibraryTypeOK ==
  /\ eventLog \in Seq(Event) /\ eventQueue \in Seq(Event)
  /\ stringLog \in Seq([string : String, id : Nat])
  /\ stringQueue \in Seq([string : String, id : Nat])
  /\ library \in [DOMAIN library -> Nat] /\ DOMAIN library \subseteq String
  /\ stringId \in Nat
  /\ phase \in {"down", "idle", "between"}
  /\ name \subseteq String /\ (phase = "between" <=> name # {})
  /\ started \in Seq(Nat) /\ session <= MaxSessions
  /\ cut \in BOOLEAN /\ unread \in BOOLEAN /\ garbled \in BOOLEAN

\* All string files could be read, and nothing was found behind a record that
\* was cut off.
Intact == ~unread /\ ~garbled

\* If the files are intact, no string is defined twice in them
\* and, below the limit, no number is given to two strings, however often and
\* wherever the sessions that wrote them were cut off.
IdsUnique ==
  Intact => \A i, j \in DOMAIN stringLog :
    i # j =>
      /\ stringLog[i].string # stringLog[j].string
      /\ stringLog[i].id = stringLog[j].id => stringLog[i].id >= IdLimit

\* A definition that has reached the string files is in force in all later
\* sessions while the files are intact: the string keeps its number, if the
\* number is below the limit.
KeepsId ==
  Up /\ Intact =>
        \A i \in DOMAIN stringLog :
          LET d == stringLog[i]
          IN  d.id < IdLimit =>
                d.string \in DOMAIN library /\ library[d.string] = d.id

\* If the files are intact, two strings share a number in a session
\* only if both of their numbers were beyond the limit when they were read.
LibraryInjective ==
  Intact => \A s, t \in DOMAIN library :
    s # t /\ library[s] = library[t] => library[s] = DefaultId

\* If all string files could be read, the event log redefines neither a number
\* below the limit nor a string that a reader found in them when the session
\* began, right or wrong.
NeverRedefined ==
  ~unread => \A i \in DOMAIN eventLog : LET e == eventLog[i] IN
    e.op = "define" =>
      \A k \in 1 .. started[e.session] :
        /\ stringLog[k].string # e.string
        /\ stringLog[k].id = e.id => e.id >= IdLimit

\* What a session has defined stays as it was, in the strings and in the log.
DefinedForGood == KeepsId /\ NeverRedefined

\* Each number in the event log can be resolved to the string it was written
\* for, whatever the sessions could read of the string files and whatever was
\* made of what stands behind a cut-off record: by the definitions in front of
\* it in the same session, or else by what a reader, which misreads the string
\* files as the session did, finds in them up to where they ended when the
\* session began.  Only DefaultId, which may stand for several strings, is
\* excepted.
Resolvable ==
  \A i \in DOMAIN eventLog : LET e == eventLog[i] IN
    e.op = "use" /\ e.id # DefaultId =>
      LET earlier == {j \in 1 .. i - 1 : /\ eventLog[j].op = "define"
                                         /\ eventLog[j].id = e.id
                                         /\ eventLog[j].session = e.session}
      IN  IF earlier # {}
          THEN \A j \in earlier : eventLog[j].string = e.string
          ELSE \E k \in 1 .. started[e.session] :
                 stringLog[k] = Definition(e.string, e.id)

\* The numbers in the string files and those of a session are each given to
\* one string, over all cut-off sessions, while the files are intact.
LibraryInv == LibraryTypeOK /\ IdsUnique /\ LibraryInjective

=============================================================================
