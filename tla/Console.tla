-------------------------------- MODULE Console --------------------------------
(***************************************************************************)
(* The operator's console (ConsoleHelper.cpp, M_console_helper.cpp, menus  *)
(* and titles of CHElement.cpp).  Its elements are changed by two threads: *)
(* the game thread, which adds and deletes them, and the console's own,    *)
(* which reads the mouse and the keys, and paints.  Whoever changes how an *)
(* element looks puts it into needRedrawElements; the console's thread     *)
(* takes all that is there and paints it.                                  *)
(*                                                                         *)
(* An operation is a list of tasks of its thread; a task is cut where the  *)
(* other thread may come between.  updateLock and the locks of the         *)
(* elements are held by nobody who waits for another lock: what is done    *)
(* under them is one step.                                                 *)
(***************************************************************************)
EXTENDS Naturals, Sequences, SequencesExt, ConsoleThreads

CONSTANTS
  Loading,    \* the title that is deleted when the server has its world
  Controls,   \* what installControls adds; any may be clicked and written to (the titles
              \* that are there from the beginning differ in nothing, and are left out)
  Marker,     \* what the first click on a menu adds
  None,       \* no element
  MaxEvents   \* bound: events that are read before the thread paints again

Element == {Loading, Marker} \cup Controls

ASSUME ConsoleAssumption ==
  /\ Loading # Marker /\ Controls \cap {Loading, Marker} = {} /\ IsFiniteSet(Controls)
  /\ None \notin Element \cup Thread /\ MaxEvents \in Nat

VARIABLES
  instance,      \* is ConsoleHelper::instance set?
  phase,         \* "up", "leaving" (the destructor waits for the thread), "freed" and
                 \* "exited"; "torn": a list was changed while clear() went through it,
                 \* and anything may follow; "crashed": a null pointer was used
  elements,      \* renderElements, and of elements those that are painted
  needRedraw,    \* needRedrawElements
  screen,        \* elements of the list that are on the screen as they look now
  deleteLock, elementsLock,  \* who has the lock; of elementsLock also how often
  agenda,        \* tasks of each thread
  todo,          \* what clear() has still to go through, for each thread
  cpc,           \* the console's thread
  events,        \* events that it may still read
  needClear, els, hovered, markerCreated, exitFlag,
  bFirstTime,    \* __Timer2 has not yet run
  ghosts,        \* history: how often a deleted element has been painted
  early          \* history: was the last event read before the unloading?

life == <<instance, phase>>
lists == <<elements, needRedraw, screen>>
locks == <<deleteLock, elementsLock>>
work == <<agenda, todo>>
input == <<events, needClear, hovered, markerCreated, exitFlag>>
console == <<cpc, els, input>>
past == <<bFirstTime, ghosts, early>>
vars == <<life, lists, locks, work, console, past>>

Task(op, e) == [op |-> op, e |-> e, stage |-> "start"]
Draw(e) == Task("draw", e)
Clear == Task("clear", None)

IsTask(k) ==
  /\ k.op \in {"add", "del", "draw", "clear", "look", "find", "click", "move", "setup", "key",
              "timer"}
  /\ k.e \in Element \cup {None}
  /\ k.stage \in {"start", "use", "draw", "erase", "elements", "render", "held", "done"}

TypeOK ==
  /\ {instance, needClear, markerCreated, exitFlag, bFirstTime, early} \subseteq BOOLEAN
  /\ phase \in {"up", "leaving", "freed", "exited", "torn", "crashed"}
  /\ {elements, needRedraw, screen, els} \subseteq SUBSET Element
  /\ deleteLock \in Thread \cup {None}
  /\ elementsLock \in [owner : Thread \cup {None}, depth : 0 .. 2]
  /\ \A t \in Thread : \A i \in DOMAIN agenda[t] : IsTask(agenda[t][i])
  /\ todo \in [Thread -> SUBSET Element]
  /\ cpc \in {"loop", "events", "update", "paint", "ended"}
  /\ events \in 0 .. MaxEvents /\ hovered \in Element \cup {None} /\ ghosts \in Nat

-----------------------------------------------------------------------------
(* Locks: a thread that has one may take it again, and an unlock by one who *)
(* does not have it is not noticed.                                         *)

Free(t) == elementsLock.owner \in {t, None}

Locked(t) == [owner |-> t, depth |-> elementsLock.depth + 1]

Unlocked(t) ==
  IF elementsLock.owner # t THEN elementsLock
  ELSE [owner |-> IF elementsLock.depth = 1 THEN None ELSE t,
        depth |-> elementsLock.depth - 1]

-----------------------------------------------------------------------------
(* Tasks.                                                                   *)

Running == phase \in {"up", "leaving"}

AtTask(t, op, stage) ==
  Running /\ agenda[t] # <<>> /\ Head(agenda[t]).op = op /\ Head(agenda[t]).stage = stage

Of(t) == Head(agenda[t]).e
Then(t, tasks) == agenda' = [agenda EXCEPT ![t] = tasks \o Tail(@)]
GoOn(t, stage) == agenda' = [agenda EXCEPT ![t][1].stage = stage]
Finish(t) == Then(t, <<>>)

InClear(t) ==
  agenda[t] # <<>> /\ Head(agenda[t]).op = "clear"
    /\ Head(agenda[t]).stage \in {"elements", "render"}

\* A list is changed by thread t, while the other one may be going through it in clear(),
\* which takes no lock.
Changed(t) == phase' = IF InClear(Other(t)) THEN "torn" ELSE phase

\* instance is tested, and read again to be used.
Tested(t, op, stage) ==
  /\ AtTask(t, op, stage)
  /\ IF instance THEN GoOn(t, "use") ELSE Finish(t)
  /\ UNCHANGED <<life, lists, locks, todo, console, past>>

\* The game thread may have set it to null between: it is used, unless the compiler has
\* kept what was read first.
NullUsed(t) ==
  /\ Running /\ agenda[t] # <<>> /\ Head(agenda[t]).stage = "use" /\ ~instance
  /\ phase' = "crashed"
  /\ UNCHANGED <<instance, lists, locks, work, console, past>>

\* CHElement::add: nothing happens when the console is leaving.
AddTest(t) == Tested(t, "add", "start")

AddInsert(t) ==
  /\ AtTask(t, "add", "use") /\ Free(t)
  /\ elements' = elements \cup {Of(t)}
  /\ Changed(t) /\ GoOn(t, "draw")
  /\ UNCHANGED <<instance, needRedraw, screen, locks, todo, console, past>>

AddDraw(t) ==
  /\ AtTask(t, "add", "draw")
  /\ needRedraw' = needRedraw \cup {Of(t)}
  /\ Finish(t)
  /\ UNCHANGED <<life, elements, screen, locks, todo, console, past>>

DelLock(t) ==
  /\ AtTask(t, "del", "start") /\ deleteLock = None
  /\ deleteLock' = t /\ GoOn(t, "erase")
  /\ UNCHANGED <<life, lists, elementsLock, todo, console, past>>

\* The element is not taken out of needRedrawElements, and it is not freed.
DelErase(t) ==
  /\ AtTask(t, "del", "erase") /\ Free(t)
  /\ elements' = elements \ {Of(t)} /\ screen' = screen \ {Of(t)} /\ deleteLock' = None
  /\ Changed(t)
  /\ Then(t, <<Clear>>)
  /\ UNCHANGED <<instance, needRedraw, elementsLock, todo, console, past>>

\* clear: the screen is wiped, and the sizes of the elements are set.  The lock is
\* given back, not taken.
ClearWipe(t) ==
  /\ AtTask(t, "clear", "start")
  /\ screen' = {} /\ elementsLock' = Unlocked(t)
  /\ GoOn(t, "elements")
  /\ UNCHANGED <<life, elements, needRedraw, deleteLock, todo, console, past>>

\* onResize moves and stretches an element.
ClearResize(t) ==
  /\ AtTask(t, "clear", "elements")
  /\ screen' = screen \ elements
  /\ todo' = [todo EXCEPT ![t] = elements] /\ GoOn(t, "render")
  /\ UNCHANGED <<life, elements, needRedraw, locks, console, past>>

ClearDraw(t) ==
  /\ AtTask(t, "clear", "render")
  /\ IF todo[t] = {}
     THEN Finish(t) /\ elementsLock' = Unlocked(t) /\ UNCHANGED <<needRedraw, todo>>
     ELSE \E e \in todo[t] :
            /\ needRedraw' = needRedraw \cup {e}
            /\ todo' = [todo EXCEPT ![t] = @ \ {e}]
            /\ UNCHANGED <<elementsLock, agenda>>
  /\ UNCHANGED <<life, elements, screen, deleteLock, console, past>>

\* An element changes its look: its title, colour, place or lines.
DrawChange(t) ==
  /\ AtTask(t, "draw", "start")
  /\ screen' = screen \ {Of(t)} /\ GoOn(t, "draw")
  /\ UNCHANGED <<life, elements, needRedraw, locks, todo, console, past>>

\* Mistake: instance is not tested.
DrawUntested(t) ==
  /\ AtTask(t, "draw", "draw") /\ GoOn(t, "use")
  /\ UNCHANGED <<life, lists, locks, todo, console, past>>

\* CHRenderElement::update
DrawTest(t) == Tested(t, "draw", "draw")

DrawMark(t) ==
  /\ AtTask(t, "draw", "use")
  /\ needRedraw' = needRedraw \cup ({Of(t)} \ {None})
  /\ Finish(t)
  /\ UNCHANGED <<life, elements, screen, locks, todo, console, past>>

-----------------------------------------------------------------------------
(* Mouse and keys, on the console's thread.                                 *)

Reading == Running /\ cpc = "events" /\ agenda["console"] = <<>> /\ events > 0

Event(tasks) ==
  /\ Reading
  /\ events' = events - 1 /\ agenda' = [agenda EXCEPT !["console"] = tasks]
  /\ early' = instance
  /\ UNCHANGED <<life, lists, locks, todo, hovered, markerCreated, exitFlag, cpc, els,
                 bFirstTime, ghosts>>

Look == Task("look", None)

BufferSizeEvent == Event(<<>>) /\ needClear' = TRUE
MouseEvent == Event(<<Look, Task("find", None)>>) /\ UNCHANGED needClear
KeyEvent   == Event(<<Look, Task("key", None)>>) /\ UNCHANGED needClear

\* _getElement, for the title that shows the key or the mouse: it is always there, and
\* is set.
LookTest(t) == Tested(t, "look", "start")

Looked(t) ==
  /\ AtTask(t, "look", "use") /\ Free(t)
  /\ Then(t, <<[Draw(None) EXCEPT !.stage = "draw"]>>)
  /\ UNCHANGED <<life, lists, locks, todo, console, past>>

\* onMouse: the element is found under the lock and used without it.
Drawn(e) == IF e = None THEN <<>> ELSE <<Draw(e)>>
Focus(found) == IF found = hovered THEN <<>> ELSE Drawn(hovered) \o Drawn(found)

Find(t) ==
  /\ AtTask(t, "find", "start") /\ Free(t)
  /\ \E found \in elements \cup {None} :
       /\ hovered' = found
       /\ \E clicks \in {<<>>} \cup {<<Task("click", found)>> : f \in {found} \cap Controls} :
            Then(t, Focus(found) \o clicks)
  /\ UNCHANGED <<life, lists, locks, todo, events, needClear, markerCreated, exitFlag, cpc,
                 els, past>>

\* onAreaClick and onMenuItemClick, for an item of the menu.
Click(t) ==
  /\ AtTask(t, "click", "start")
  /\ markerCreated' = TRUE
  /\ Then(t, <<Task(IF markerCreated THEN "move" ELSE "add", Marker), Task("setup", Of(t))>>)
  /\ UNCHANGED <<life, lists, locks, todo, events, needClear, hovered, exitFlag, cpc, els,
                 past>>

\* The marker and the box are looked for through instance, and used if it is null, then
\* or by then.  The box is added before the items of the menu, and a title that is not
\* there is not set.
ThroughInstance(t, op, changed, task) ==
  /\ AtTask(t, op, "start")
  /\ IF instance
     THEN Free(t) /\ screen' = screen \ changed /\ Then(t, <<task>>) /\ phase' = phase
     ELSE phase' = "crashed" /\ UNCHANGED <<agenda, screen>>
  /\ UNCHANGED <<instance, elements, needRedraw, locks, todo, console, past>>

\* moveElement draws without update().
Move(t)  == ThroughInstance(t, "move", {Marker}, [Task("add", Marker) EXCEPT !.stage = "draw"])
Setup(t) == \E b \in Controls \cap elements : ThroughInstance(t, "setup", {}, Draw(b))

\* onKey: the lock is held while the key is handled; the section finds its titles
\* through instance, under the same lock.
KeyLock(t) ==
  /\ AtTask(t, "key", "start") /\ Free(t)
  /\ elementsLock' = Locked(t) /\ GoOn(t, "held")
  /\ UNCHANGED <<life, lists, deleteLock, todo, console, past>>

KeyTest(t) ==
  /\ AtTask(t, "key", "held")
  /\ \E stage \in {"done"} \cup (IF instance THEN {"use"} ELSE {}) : GoOn(t, stage)
  /\ exitFlag' \in {exitFlag, TRUE}
  /\ UNCHANGED <<life, lists, locks, todo, events, needClear, hovered, markerCreated, cpc, els,
                 past>>

KeyHandled(t) ==
  /\ AtTask(t, "key", "use") /\ Free(t)
  /\ \E tasks \in {<<>>} \cup {<<Draw(b)>> : b \in Controls \cap elements} :
       Then(t, tasks \o <<[Task("key", None) EXCEPT !.stage = "done"]>>)
  /\ UNCHANGED <<life, lists, locks, todo, console, past>>

KeyUnlock(t) ==
  /\ AtTask(t, "key", "done")
  /\ elementsLock' = Unlocked(t) /\ Finish(t)
  /\ UNCHANGED <<life, lists, deleteLock, todo, console, past>>

TaskStep(t) ==
  \/ AddTest(t) \/ AddInsert(t) \/ AddDraw(t) \/ DelErase(t)
  \/ ClearWipe(t) \/ ClearResize(t) \/ ClearDraw(t)
  \/ DrawChange(t) \/ DrawTest(t) \/ DrawMark(t) \/ NullUsed(t)
  \/ LookTest(t) \/ Looked(t) \/ Find(t) \/ Click(t) \/ Move(t) \/ Setup(t)
  \/ KeyLock(t) \/ KeyTest(t) \/ KeyHandled(t) \/ KeyUnlock(t)

-----------------------------------------------------------------------------
(* The console's thread.                                                    *)

\* The thread looks at needExit, or goes on with the events.
LoopBegins ==
  /\ Running /\ cpc = "loop"
  /\ cpc' = IF phase = "leaving" THEN "ended" ELSE "events"
  /\ events' = MaxEvents
  /\ UNCHANGED <<life, lists, locks, work, needClear, hovered, markerCreated, exitFlag, els,
                 past>>

EventsEnd ==
  /\ Running /\ cpc = "events" /\ agenda["console"] = <<>>
  /\ cpc' = "update" /\ needClear' = FALSE
  /\ agenda' = IF needClear THEN [agenda EXCEPT !["console"] = <<Clear>>] ELSE agenda
  /\ UNCHANGED <<life, lists, locks, todo, events, hovered, markerCreated, exitFlag, els, past>>

\* updateElements: what is to be drawn is taken under updateLock.
UpdateTake ==
  /\ Running /\ cpc = "update" /\ agenda["console"] = <<>> /\ deleteLock = None
  /\ deleteLock' = "console" /\ cpc' = "paint"
  /\ els' = needRedraw /\ needRedraw' = {}
  /\ UNCHANGED <<life, elements, screen, elementsLock, work, input, past>>

Paint ==
  /\ Running /\ cpc = "paint"
  /\ \E e \in els :
       /\ els' = els \ {e} /\ screen' = screen \cup ({e} \cap elements)
       /\ ghosts' = IF e \in elements THEN ghosts ELSE ghosts + 1
  /\ UNCHANGED <<life, elements, needRedraw, locks, work, input, cpc, bFirstTime, early>>

\* Mistake: the list is emptied when all has been painted.
UpdateEndEmpties ==
  /\ Running /\ cpc = "paint" /\ els = {}
  /\ deleteLock' = None /\ cpc' = "loop" /\ needRedraw' = {}
  /\ UNCHANGED <<life, elements, screen, elementsLock, work, input, els, past>>

\* Mistake: the lock is not given back.
UpdateEndLocked ==
  /\ Running /\ cpc = "paint" /\ els = {} /\ cpc' = "loop"
  /\ UNCHANGED <<life, lists, locks, work, input, els, past>>

UpdateEnd ==
  /\ Running /\ cpc = "paint" /\ els = {}
  /\ deleteLock' = None /\ cpc' = "loop"
  /\ UNCHANGED <<life, lists, elementsLock, work, input, els, past>>

ConsoleStep ==
  LoopBegins \/ EventsEnd \/ UpdateTake \/ Paint \/ UpdateEnd \/ TaskStep("console")

-----------------------------------------------------------------------------
(* The game thread.                                                         *)

GameIdle == phase = "up" /\ agenda["game"] = <<>>

Call(tasks) ==
  /\ GameIdle
  /\ agenda' = [agenda EXCEPT !["game"] = tasks]
  /\ UNCHANGED <<life, lists, locks, todo, console, ghosts, early>>

Add(e) == Task("add", e)
InstallControls == LET s == SetToSeq(Controls) IN [i \in DOMAIN s |-> Add(s[i])]

\* __Timer2, when it runs for the first time.
TimerFirst ==
  /\ bFirstTime /\ bFirstTime' = FALSE
  /\ Call(<<Clear, Task("del", Loading)>> \o InstallControls)

\* __Timer2: Ctrl-C is looked for under the lock; the world is saved, and an exception
\* ends the server.
Timer == exitFlag /\ Call(<<Task("timer", None)>>) /\ UNCHANGED bFirstTime

TimerExit(t) ==
  /\ AtTask(t, "timer", "start") /\ Free(t)
  /\ phase' = "exited"
  /\ UNCHANGED <<instance, lists, locks, work, console, past>>

InitWorld == Call(<<Clear>>) /\ UNCHANGED bFirstTime

\* _l: a line is pushed, and the box shows it.
PushLine ==
  /\ Free("game") /\ \E b \in Controls \cap elements : Call(<<Draw(b)>>)
  /\ UNCHANGED bFirstTime

\* M_console_helper_done, and the destructor up to its wait for the thread.
Done ==
  /\ GameIdle
  /\ instance' = FALSE /\ phase' = "leaving"
  /\ UNCHANGED <<lists, locks, work, console, past>>

GameStep == TaskStep("game") \/ DelLock("game") \/ TimerExit("game")

\* Mistake: the destructor does not wait for the thread.
DeletedAtOnce ==
  /\ phase = "leaving" /\ Free("game")
  /\ phase' = "freed" /\ elements' = {}
  /\ UNCHANGED <<instance, needRedraw, screen, locks, work, console, past>>

Deleted ==
  /\ phase = "leaving" /\ cpc = "ended" /\ Free("game")
  /\ phase' = "freed" /\ elements' = {}
  /\ UNCHANGED <<instance, needRedraw, screen, locks, work, console, past>>

Over == ~Running /\ UNCHANGED vars

\* What M_console_helper_init leaves, when it is called with a world or without one;
\* the thread begins after it (Lifecycle).
Init ==
  /\ instance = TRUE /\ phase = "up" /\ bFirstTime \in BOOLEAN
  /\ elements = IF bFirstTime THEN {Loading} ELSE Controls
  /\ needRedraw = elements /\ screen = {}
  /\ deleteLock = None /\ elementsLock = [owner |-> None, depth |-> 0]
  /\ agenda = [t \in Thread |-> <<>>] /\ todo = [t \in Thread |-> {}]
  /\ cpc = "loop" /\ events = 0 /\ needClear = FALSE /\ els = {} /\ hovered = None
  /\ markerCreated = FALSE /\ exitFlag = FALSE /\ ghosts = 0 /\ early = TRUE

Next ==
  \/ BufferSizeEvent \/ MouseEvent \/ KeyEvent
  \/ ConsoleStep
  \/ TimerFirst \/ Timer \/ InitWorld \/ PushLine \/ Done \/ Deleted
  \/ GameStep
  \/ Over

\* Both threads run, a mutex is given to who waits for it, and the server calls the
\* timer after whatever else it calls.
Fairness ==
  /\ WF_vars(ConsoleStep) /\ SF_vars(GameStep) /\ SF_vars(Timer)
  /\ WF_vars(Deleted)

Spec == Init /\ [][Next]_vars /\ Fairness

-----------------------------------------------------------------------------

\* A thread that has nothing to do holds no lock, although clear() gives back a lock
\* that it has not taken, and takes none where it goes through the lists
\* (ConsoleHelper.cpp 20-52, 221-232, 361, 380).
LocksReturned ==
  \A t \in Thread : agenda[t] = <<>> =>
    /\ elementsLock.owner # t
    /\ deleteLock = t => t = "console" /\ cpc = "paint"

\* The elements are deleted when the console's thread has ended, and no sooner
\* (ConsoleHelper.cpp 299-329).
FreedAlone == phase = "freed" => cpc = "ended" /\ agenda["console"] = <<>>

\* The process dies of a null pointer only while the plugin is unloaded, and never on the
\* game thread: by an event that the console's thread read before, and that it handled
\* beyond a test of instance, or by a click on a menu, which nothing tests for
\* (CHElement.cpp 24-28, 45-49, 423-446, 531-543; ConsoleHelper.cpp 383-388;
\* M_console_helper.cpp 187-188).
CrashCause ==
  phase = "crashed" =>
    /\ ~instance /\ agenda["game"] = <<>>
    /\ early \/ Head(agenda["console"]).op \in {"move", "setup"}

Inv == TypeOK /\ LocksReturned /\ FreedAlone /\ CrashCause

\* What a thread has to do has the element drawn.
WillDraw(t, e) ==
  \E i \in DOMAIN agenda[t] :
    LET k == agenda[t][i]
    IN  \/ k.op \in {"add", "draw"} /\ k.e = e
        \/ k.op = "clear" /\ (k.stage = "render" => e \in todo[t])

InHand(e) == \E t \in Thread : WillDraw(t, e)

\* No element is forgotten: as long as no list was changed under clear(), whatever
\* wipes and changes of both threads come between, each element is on the screen as
\* it looks now, or is to be painted, or will be drawn by a call under way
\* (ConsoleHelper.cpp 90-141, 363-378).
NoneForgotten ==
  instance /\ Running =>
    \A e \in elements : e \in screen \cup needRedraw \cup els \/ InHand(e)

\* A deleted element is painted at most twice more: once because it was to be drawn
\* when it was deleted, or became so by the mouse that had just been found on it, and
\* once when the mouse leaves it (ConsoleHelper.cpp 20-52, 234-272).
GhostsBounded == ghosts <= 2

\* What is in the list of elements comes to the screen, and what is not leaves it.
ScreenTrue == NoneForgotten /\ GhostsBounded

\* Each element is painted again and again, the unloading comes to its end, and Ctrl-C
\* ends the server, whatever the other thread does (ConsoleHelper.cpp 299-329;
\* M_console_helper.cpp 110-133).
Repainted ==
  \A e \in Controls :
    e \in elements /\ e \notin screen ~> e \in screen \/ phase # "up"
UnloadEnds == phase = "leaving" ~> ~Running
ExitHeard == exitFlag ~> phase # "up"

Progress == Repainted /\ UnloadEnds /\ ExitHeard

=============================================================================
