---------------------------- MODULE ConsoleProofs ----------------------------
(***************************************************************************)
(* Proofs about the console, for every set of controls, any number of      *)
(* lines and sizes of a box, however the steps of the game's thread and of *)
(* the console's thread mix: that its lists, locks and screen stay what    *)
(* they should be, and that a box shows the lines that are pushed.         *)
(***************************************************************************)
EXTENDS Console, LinesBox, ProofFacts, FiniteSetTheorems

-----------------------------------------------------------------------------
(* The elements of the console and the tasks of its threads: Console.       *)

Operations ==
  {"add", "del", "draw", "clear", "look", "find", "click", "move", "setup", "key", "timer"}
Stages == {"start", "use", "draw", "erase", "elements", "render", "held", "done"}
Tasks == [op : Operations, e : Element \cup {None}, stage : Stages]
KeyDone == [op |-> "key", e |-> None, stage |-> "done"]

\* The tasks of a thread: the first, and the others, which have not begun.
OfGame == agenda["game"]
OfConsole == agenda["console"]

AgendaTyped ==
  /\ agenda \in [Thread -> Seq(Tasks)]
  /\ todo \in [Thread -> SUBSET Element]

\* What the game has to do: of the title that it deletes, only the deletion.
GameTasks ==
  /\ \A i \in 1 .. Len(OfGame) :
       /\ OfGame[i].op \in {"add", "del", "draw", "clear", "timer"}
       /\ OfGame[i].op \in {"add", "draw"} => OfGame[i].e \in Controls
       /\ OfGame[i].op = "del" => OfGame[i].e = Loading
  /\ \A i \in 2 .. Len(OfGame) : OfGame[i].op \in {"add", "del"} /\ OfGame[i].stage = "start"

\* A step of the console, then what it has led to: at most three tasks.
ConsoleTasks ==
  /\ Len(OfConsole) <= 3
  /\ Len(OfConsole) >= 1 =>
       /\ OfConsole[1].op \in {"add", "draw", "clear", "look", "find", "click", "move", "setup",
                               "key"}
       /\ OfConsole[1].op \in {"clear", "find", "click", "setup", "key"} => Len(OfConsole) = 1
       /\ OfConsole[1].op \in {"add", "move"} => OfConsole[1].e = Marker /\ Len(OfConsole) = 2
       /\ OfConsole[1].op = "look" => Len(OfConsole) = 2
       /\ OfConsole[1].op = "draw" => OfConsole[1].e \in Element \cup {None}
  /\ Len(OfConsole) >= 2 =>
       /\ \/ /\ OfConsole[2].op \in {"draw", "find", "click", "setup", "key"}
             /\ OfConsole[2].stage = "start"
          \/ OfConsole[2] = KeyDone
       /\ OfConsole[2].op = "draw" => OfConsole[2].e \in Element
       /\ OfConsole[1].op \in {"add", "move"} => OfConsole[2].op = "setup"
       /\ OfConsole[1].op = "look" =>
            OfConsole[2].op \in {"find", "key"} /\ OfConsole[2].stage = "start"
  /\ Len(OfConsole) = 3 =>
       OfConsole[2].op = "draw" /\ OfConsole[3].op = "click" /\ OfConsole[3].stage = "start"
  /\ cpc \in {"loop", "paint", "ended"} => OfConsole = <<>>

\* The console's thread has the lock of the elements while it handles a key, and the game
\* never; clear() so gives nothing back.
KeyHeld ==
  \E i \in 1 .. Len(OfConsole) : OfConsole[i].op = "key" /\ OfConsole[i].stage # "start"

LockHeld ==
  elementsLock = IF KeyHeld THEN [owner |-> "console", depth |-> 1]
                 ELSE [owner |-> None, depth |-> 0]

Deleting == Len(OfGame) >= 1 /\ OfGame[1].op = "del" /\ OfGame[1].stage = "erase"

DeleteHeld ==
  /\ ~(Deleting /\ cpc = "paint")
  /\ deleteLock = IF Deleting THEN "game" ELSE IF cpc = "paint" THEN "console" ELSE None

\* The element of whatever is to be drawn is in the list, but for the title that is
\* deleted, and for one that shows the keys and the mouse.
ElementListed(e) == e \in elements \/ e = Loading

TasksListed(t) ==
  \A i \in 1 .. Len(agenda[t]) :
    LET k == agenda[t][i]
    IN  (k.op = "draw" /\ k.e # None) \/ (k.op = "add" /\ k.stage \notin {"start", "use"})
          => ElementListed(k.e)

Clearing(t) ==
  /\ \A e \in todo[t] : ElementListed(e)
  /\ todo[t] # {} =>
       Len(agenda[t]) >= 1 /\ agenda[t][1].op = "clear" /\ agenda[t][1].stage = "render"

Listed ==
  /\ \A e \in needRedraw \cup els : ElementListed(e)
  /\ hovered # None => ElementListed(hovered)
  /\ \A t \in Thread : TasksListed(t) /\ Clearing(t)
  /\ cpc # "paint" => els = {}

MarkerListed ==
  /\ instance /\ markerCreated =>
       \/ Marker \in elements
       \/ /\ Len(OfConsole) >= 1 /\ OfConsole[1].op = "add"
          /\ OfConsole[1].stage \in {"start", "use"}
  /\ Len(OfConsole) >= 1 /\ OfConsole[1].op = "move" => markerCreated

\* What may still paint the title that is deleted, and how often it has been painted.
Once(b) == IF b THEN 1 ELSE 0

DrawsLoading ==
  \E i \in 1 .. Len(OfConsole) : OfConsole[i].op = "draw" /\ OfConsole[i].e = Loading

Haunting ==
  Once(Loading \in els) + Once(Loading \in needRedraw \/ DrawsLoading) + Once(hovered = Loading)

Haunted ==
  /\ Loading \in elements => ghosts = 0
  /\ Loading \notin elements =>
       ghosts + Haunting <= 2 /\ \A t \in Thread : Loading \notin todo[t]

Ended == phase = "freed" => cpc = "ended"

\* What is true as long as the console is there.
Kept == Listed /\ MarkerListed /\ Haunted

ConsoleIInv ==
  /\ TypeOK /\ AgendaTyped /\ GameTasks /\ ConsoleTasks /\ LockHeld /\ DeleteHeld
  /\ Ended /\ GhostsBounded
  /\ Running => Kept
  /\ NoneForgotten

\* The first task of a thread has an element drawn.
HeadDraws(t, e) ==
  LET k == agenda[t][1]
  IN  \/ k.op \in {"add", "draw"} /\ k.e = e
      \/ k.op = "clear" /\ (k.stage = "render" => e \in todo[t])

\* What the mouse leads to: what it leaves and what it enters is drawn, then clicked.
MouseTasks(b, found) ==
  /\ b \in Seq(Tasks) /\ Len(b) \in 0 .. 3
  /\ \A i \in 1 .. Len(b) :
       /\ b[i].stage = "start" /\ b[i].op \in {"draw", "click"}
       /\ b[i].op = "draw" => b[i].e \in {hovered, found} /\ b[i].e # None
       /\ b[i].op = "click" => i = Len(b)
       /\ i = 3 => b[i].op = "click"

\* The tasks of a thread.
LEMMA TasksAre ==
  ASSUME AgendaTyped, NEW t \in Thread
  PROVE  /\ agenda[t] \in Seq(Tasks) /\ Len(agenda[t]) \in Nat
         /\ DOMAIN agenda[t] = 1 .. Len(agenda[t])
         /\ \A i \in 1 .. Len(agenda[t]) : agenda[t][i] \in Tasks
         /\ agenda[t] # << >> <=> Len(agenda[t]) >= 1
         /\ agenda[t] # << >> => Head(agenda[t]) = agenda[t][1]
         /\ todo[t] \subseteq Element
<1>1. agenda[t] \in Seq(Tasks) /\ todo[t] \subseteq Element
  BY DEF AgendaTyped
<1>2. /\ Len(agenda[t]) \in Nat /\ DOMAIN agenda[t] = 1 .. Len(agenda[t])
      /\ \A i \in 1 .. Len(agenda[t]) : agenda[t][i] \in Tasks
  BY <1>1, LenProperties, ElementOfSeq
<1>3. agenda[t] # << >> <=> Len(agenda[t]) >= 1
  BY <1>1, EmptySeq
<1>4. agenda[t] # << >> => Head(agenda[t]) = agenda[t][1]
  BY <1>1, HeadTailProperties
<1> QED
  BY <1>1, <1>2, <1>3, <1>4

\* The first task goes on to another stage.
LEMMA GoesOn ==
  ASSUME AgendaTyped, NEW t \in Thread, NEW stage \in Stages, agenda[t] # << >>,
         GoOn(t, stage)
  PROVE  /\ agenda' \in [Thread -> Seq(Tasks)]
         /\ Len(agenda'[t]) = Len(agenda[t])
         /\ agenda'[t][1].op = agenda[t][1].op /\ agenda'[t][1].e = agenda[t][1].e
         /\ agenda'[t][1].stage = stage
         /\ \A i \in 2 .. Len(agenda[t]) : agenda'[t][i] = agenda[t][i]
         /\ \A u \in Thread : u # t => agenda'[u] = agenda[u]
<1> DEFINE a == agenda[t]
           k == [a[1] EXCEPT !.stage = stage]
<1>1. /\ a \in Seq(Tasks) /\ Len(a) \in Nat /\ Len(a) >= 1 /\ DOMAIN a = 1 .. Len(a)
      /\ \A i \in 1 .. Len(a) : a[i] \in Tasks
  BY TasksAre
<1>2. k \in Tasks /\ k.op = a[1].op /\ k.e = a[1].e /\ k.stage = stage
  <2>1. a[1] \in Tasks
    BY <1>1
  <2> QED
    BY <2>1 DEF Tasks
<1>3. agenda' = [agenda EXCEPT ![t] = [a EXCEPT ![1] = k]]
  BY DEF GoOn
<1> HIDE DEF k
<1>4. /\ [a EXCEPT ![1] = k] \in Seq(Tasks) /\ Len([a EXCEPT ![1] = k]) = Len(a)
      /\ [a EXCEPT ![1] = k][1] = k
      /\ \A i \in 2 .. Len(a) : [a EXCEPT ![1] = k][i] = a[i]
  <2>1. [a EXCEPT ![1] = k] \in Seq(Tasks)
    BY <1>1, <1>2, ExceptSeq
  <2>2. Len([a EXCEPT ![1] = k]) = Len(a)
    BY <1>1, <1>2, ExceptSeq
  <2>3. /\ [a EXCEPT ![1] = k][1] = k
        /\ \A i \in 2 .. Len(a) : [a EXCEPT ![1] = k][i] = a[i]
    BY <1>1
  <2> QED
    BY <2>1, <2>2, <2>3
<1>5. agenda'[t] = [a EXCEPT ![1] = k] /\ \A u \in Thread : u # t => agenda'[u] = agenda[u]
  BY <1>3 DEF AgendaTyped
<1>6. agenda' \in [Thread -> Seq(Tasks)]
  BY <1>3, <1>4 DEF AgendaTyped
<1> QED
  BY <1>2, <1>4, <1>5, <1>6

\* The first task is done, and has led to others.
LEMMA Becomes ==
  ASSUME AgendaTyped, NEW t \in Thread, NEW b \in Seq(Tasks), agenda[t] # << >>, Then(t, b)
  PROVE  /\ agenda' \in [Thread -> Seq(Tasks)]
         /\ Len(agenda'[t]) = Len(b) + Len(agenda[t]) - 1
         /\ \A i \in 1 .. Len(b) : agenda'[t][i] = b[i]
         /\ \A i \in 2 .. Len(agenda[t]) : agenda'[t][Len(b) + i - 1] = agenda[t][i]
         /\ \A u \in Thread : u # t => agenda'[u] = agenda[u]
<1> DEFINE a == agenda[t]
<1>1. a \in Seq(Tasks) /\ Len(a) \in Nat /\ Len(a) >= 1 /\ Len(b) \in Nat
  BY TasksAre, LenProperties
<1>2. /\ Tail(a) \in Seq(Tasks) /\ Len(Tail(a)) = Len(a) - 1
      /\ \A i \in 1 .. Len(a) - 1 : Tail(a)[i] = a[i + 1]
  BY <1>1, HeadTailProperties
<1>3. /\ b \o Tail(a) \in Seq(Tasks) /\ Len(b \o Tail(a)) = Len(b) + Len(a) - 1
      /\ \A i \in 1 .. Len(b) : (b \o Tail(a))[i] = b[i]
      /\ \A i \in 2 .. Len(a) : (b \o Tail(a))[Len(b) + i - 1] = a[i]
  <2>1. /\ b \o Tail(a) \in Seq(Tasks) /\ Len(b \o Tail(a)) = Len(b) + Len(Tail(a))
        /\ \A i \in 1 .. Len(b) + Len(Tail(a)) :
             (b \o Tail(a))[i] = IF i <= Len(b) THEN b[i] ELSE Tail(a)[i - Len(b)]
    BY <1>2, ConcatProperties
  <2>2. ASSUME NEW i \in 2 .. Len(a) PROVE (b \o Tail(a))[Len(b) + i - 1] = a[i]
    <3>1. /\ Len(b) + i - 1 \in 1 .. Len(b) + Len(Tail(a)) /\ ~(Len(b) + i - 1 <= Len(b))
          /\ Len(b) + i - 1 - Len(b) = i - 1 /\ i - 1 \in 1 .. Len(a) - 1 /\ i - 1 + 1 = i
      BY <1>1, <1>2
    <3> QED
      BY <1>2, <2>1, <3>1
  <2>3. \A i \in 1 .. Len(b) : (b \o Tail(a))[i] = b[i]
    BY <1>1, <1>2, <2>1
  <2> QED
    BY <1>1, <1>2, <2>1, <2>2, <2>3
<1>4. agenda' = [agenda EXCEPT ![t] = b \o Tail(a)]
  BY DEF Then
<1>5. agenda'[t] = b \o Tail(a) /\ \A u \in Thread : u # t => agenda'[u] = agenda[u]
  BY <1>4 DEF AgendaTyped
<1>6. agenda' \in [Thread -> Seq(Tasks)]
  BY <1>3, <1>4 DEF AgendaTyped
<1> QED
  BY <1>3, <1>5, <1>6

\* The first task is done.
LEMMA Finishes ==
  ASSUME AgendaTyped, NEW t \in Thread, agenda[t] # << >>, Finish(t)
  PROVE  /\ agenda' \in [Thread -> Seq(Tasks)]
         /\ Len(agenda'[t]) = Len(agenda[t]) - 1
         /\ \A i \in 2 .. Len(agenda[t]) : agenda'[t][i - 1] = agenda[t][i]
         /\ \A i \in 1 .. Len(agenda'[t]) : agenda'[t][i] = agenda[t][i + 1]
         /\ \A u \in Thread : u # t => agenda'[u] = agenda[u]
<1>1. << >> \in Seq(Tasks) /\ Len(<< >>) = 0
  OBVIOUS
<1>2. Then(t, << >>)
  BY DEF Finish
<1>3. Len(agenda[t]) \in Nat
  BY TasksAre
<1>4. /\ agenda' \in [Thread -> Seq(Tasks)]
      /\ Len(agenda'[t]) = 0 + Len(agenda[t]) - 1
      /\ \A i \in 2 .. Len(agenda[t]) : agenda'[t][0 + i - 1] = agenda[t][i]
      /\ \A u \in Thread : u # t => agenda'[u] = agenda[u]
  BY <1>1, <1>2, Becomes
<1>5. \A i \in 2 .. Len(agenda[t]) : agenda'[t][i - 1] = agenda[t][i]
  <2>1. \A i \in Int : 0 + i - 1 = i - 1
    OBVIOUS
  <2> QED
    BY <1>3, <1>4, <2>1
<1>6. ASSUME NEW i \in 1 .. Len(agenda'[t]) PROVE agenda'[t][i] = agenda[t][i + 1]
  <2>1. i + 1 \in 2 .. Len(agenda[t]) /\ i + 1 - 1 = i
    BY <1>3, <1>4
  <2> QED
    BY <1>5, <2>1
<1> QED
  BY <1>3, <1>4, <1>5, <1>6

\* The names of the elements and of the threads differ.
LEMMA NamesDiffer ==
  /\ Loading \notin Controls /\ Marker # Loading /\ Marker \notin Controls
  /\ None \notin Element /\ None # "game" /\ None # "console"
  /\ Loading \in Element /\ Marker \in Element /\ Controls \subseteq Element
BY ConsoleAssumption DEF Element, Thread

\* What the tasks of a thread are when its first one goes on to another stage.
LEMMA GoesOnKeeps ==
  ASSUME AgendaTyped, GameTasks, ConsoleTasks, NEW t \in Thread, NEW stage \in Stages,
         agenda[t] # << >>, agenda[t][1].op \notin {"key", "del"}, GoOn(t, stage), cpc' = cpc
  PROVE  /\ GameTasks' /\ ConsoleTasks'
         /\ (KeyHeld' <=> KeyHeld) /\ (Deleting' <=> Deleting)
         /\ (DrawsLoading' <=> DrawsLoading)
<1>1. /\ Len(agenda'[t]) = Len(agenda[t])
      /\ agenda'[t][1].op = agenda[t][1].op /\ agenda'[t][1].e = agenda[t][1].e
      /\ \A i \in 2 .. Len(agenda[t]) : agenda'[t][i] = agenda[t][i]
      /\ \A u \in Thread : u # t => agenda'[u] = agenda[u]
  BY GoesOn
<1>2. Len(agenda[t]) \in Nat /\ Len(agenda[t]) >= 1
  BY TasksAre
<1>3. CASE t = "game"
  <2>1. OfConsole' = OfConsole /\ OfGame = agenda[t] /\ OfGame' = agenda'[t]
    BY <1>1, <1>3 DEF OfConsole, OfGame, Thread
  <2>2. ConsoleTasks' /\ (KeyHeld' <=> KeyHeld) /\ (DrawsLoading' <=> DrawsLoading)
    BY <2>1 DEF ConsoleTasks, KeyHeld, DrawsLoading
  <2>3. Deleting' <=> Deleting
    BY <1>1, <2>1 DEF Deleting
  <2>4. GameTasks'
    BY <1>1, <1>2, <2>1 DEF GameTasks
  <2> QED
    BY <2>2, <2>3, <2>4
<1>4. CASE t = "console"
  <2>1. OfGame' = OfGame /\ OfConsole = agenda[t] /\ OfConsole' = agenda'[t]
    BY <1>1, <1>4 DEF OfConsole, OfGame, Thread
  <2>2. GameTasks' /\ (Deleting' <=> Deleting)
    BY <2>1 DEF GameTasks, Deleting
  <2>3. (KeyHeld' <=> KeyHeld) /\ (DrawsLoading' <=> DrawsLoading)
    BY <1>1, <1>2, <2>1 DEF KeyHeld, DrawsLoading
  <2>4. ConsoleTasks'
    <3>1. OfConsole' # << >>
      BY <1>1, <1>2, <2>1, GoesOn, EmptySeq
    <3>2. OfConsole # << >>
      BY <2>1
    <3> QED
      BY <1>1, <1>2, <2>1, <3>1, <3>2 DEF ConsoleTasks
  <2> QED
    BY <2>2, <2>3, <2>4
<1> QED
  BY <1>3, <1>4 DEF Thread

\* What they are when the first one is done.
LEMMA FinishesKeeps ==
  ASSUME AgendaTyped, GameTasks, ConsoleTasks, NEW t \in Thread,
         agenda[t] # << >>, agenda[t][1].op \notin {"key", "del"}, Finish(t), cpc' = cpc
  PROVE  /\ GameTasks' /\ ConsoleTasks'
         /\ (KeyHeld' <=> KeyHeld) /\ (Deleting' <=> Deleting)
         /\ DrawsLoading' => DrawsLoading
<1>1. /\ Len(agenda'[t]) = Len(agenda[t]) - 1
      /\ \A i \in 2 .. Len(agenda[t]) : agenda'[t][i - 1] = agenda[t][i]
      /\ \A i \in 1 .. Len(agenda'[t]) : agenda'[t][i] = agenda[t][i + 1]
      /\ \A u \in Thread : u # t => agenda'[u] = agenda[u]
  BY Finishes
<1>2. Len(agenda[t]) \in Nat /\ Len(agenda[t]) >= 1
  BY TasksAre
<1>3. CASE t = "game"
  <2>1. OfConsole' = OfConsole /\ OfGame = agenda[t] /\ OfGame' = agenda'[t]
    BY <1>1, <1>3 DEF OfConsole, OfGame, Thread
  <2>2. ConsoleTasks' /\ (KeyHeld' <=> KeyHeld) /\ (DrawsLoading' => DrawsLoading)
    BY <2>1 DEF ConsoleTasks, KeyHeld, DrawsLoading
  <2>3. ~Deleting' /\ ~Deleting
    <3>1. ~Deleting
      BY <2>1 DEF Deleting
    <3>2. ASSUME Len(OfGame') >= 1 PROVE OfGame'[1].stage = "start"
      <4>1. 2 \in 2 .. Len(OfGame) /\ 1 \in 1 .. Len(OfGame') /\ 1 + 1 = 2
        BY <1>1, <1>2, <2>1, <3>2
      <4>2. OfGame'[1] = OfGame[2]
        BY <1>1, <2>1, <4>1
      <4> QED
        BY <4>1, <4>2 DEF GameTasks
    <3> QED
      BY <3>1, <3>2 DEF Deleting
  <2>4. GameTasks'
    <3>1. \A i \in 1 .. Len(OfGame') : i + 1 \in 2 .. Len(OfGame) /\ OfGame'[i] = OfGame[i + 1]
      BY <1>1, <1>2, <2>1
    <3>2. \A i \in 2 .. Len(OfGame) :
            /\ OfGame[i].op \in {"add", "del"} /\ OfGame[i].stage = "start"
            /\ OfGame[i].op = "add" => OfGame[i].e \in Controls
            /\ OfGame[i].op = "del" => OfGame[i].e = Loading
      BY <1>2, <2>1 DEF GameTasks
    <3>3. \A i \in 1 .. Len(OfGame') :
            /\ OfGame'[i].op \in {"add", "del"} /\ OfGame'[i].stage = "start"
            /\ OfGame'[i].op = "add" => OfGame'[i].e \in Controls
            /\ OfGame'[i].op = "del" => OfGame'[i].e = Loading
      BY <3>1, <3>2
    <3>4. 2 .. Len(OfGame') \subseteq 1 .. Len(OfGame')
      OBVIOUS
    <3> QED
      BY <3>3, <3>4 DEF GameTasks
  <2> QED
    BY <2>2, <2>3, <2>4
<1>4. CASE t = "console"
  <2>1. OfGame' = OfGame /\ OfConsole = agenda[t] /\ OfConsole' = agenda'[t]
    BY <1>1, <1>4 DEF OfConsole, OfGame, Thread
  <2>2. GameTasks' /\ (Deleting' <=> Deleting)
    BY <2>1 DEF GameTasks, Deleting
  <2>3. (KeyHeld' <=> KeyHeld) /\ (DrawsLoading' => DrawsLoading)
    <3>1. \A i \in 1 .. Len(OfConsole') :
            i + 1 \in 2 .. Len(OfConsole) /\ OfConsole'[i] = OfConsole[i + 1]
      BY <1>1, <1>2, <2>1
    <3>2. \A i \in 2 .. Len(OfConsole) :
            i - 1 \in 1 .. Len(OfConsole') /\ OfConsole'[i - 1] = OfConsole[i]
      BY <1>1, <1>2, <2>1
    <3>3. (DrawsLoading' => DrawsLoading) /\ (KeyHeld' => KeyHeld)
      <4>1. \A i \in 1 .. Len(OfConsole') : i + 1 \in 1 .. Len(OfConsole)
        BY <1>2, <2>1, <3>1
      <4>2. DrawsLoading' => DrawsLoading
        BY <3>1, <4>1 DEF DrawsLoading
      <4>3. KeyHeld' => KeyHeld
        BY <3>1, <4>1 DEF KeyHeld
      <4> QED
        BY <4>2, <4>3
    <3>4. KeyHeld => KeyHeld'
      BY <1>2, <2>1, <3>2 DEF KeyHeld
    <3> QED
      BY <3>3, <3>4
  <2>4. ConsoleTasks'
    <3>0. Len(OfConsole) <= 3
      BY DEF ConsoleTasks
    <3>1. Len(OfConsole) \in 1 .. 3 /\ Len(OfConsole') = Len(OfConsole) - 1
      <4>1. Len(OfConsole) \in Nat /\ Len(OfConsole) >= 1
        BY ONLY <1>2, <2>1
      <4>2. Len(OfConsole') = Len(OfConsole) - 1
        BY ONLY <1>1, <2>1
      <4> QED
        BY ONLY <3>0, <4>1, <4>2
    <3>2. /\ Len(OfConsole) >= 2 => OfConsole'[1] = OfConsole[2]
          /\ Len(OfConsole) = 3 => OfConsole'[2] = OfConsole[3]
      <4>1. /\ Len(OfConsole) >= 2 => 2 \in 2 .. Len(OfConsole)
            /\ Len(OfConsole) = 3 => 3 \in 2 .. Len(OfConsole)
            /\ 2 - 1 = 1 /\ 3 - 1 = 2
        BY <3>1
      <4> QED
        BY <1>1, <2>1, <4>1
    <3>3. cpc \notin {"loop", "paint", "ended"}
      BY <2>1 DEF ConsoleTasks
    <3>4. CASE Len(OfConsole) = 1
      BY <3>1, <3>3, <3>4 DEF ConsoleTasks
    <3>5. CASE Len(OfConsole) = 2
      BY <3>1, <3>2, <3>3, <3>5 DEF ConsoleTasks, KeyDone
    <3>6. CASE Len(OfConsole) = 3
      BY <3>1, <3>2, <3>3, <3>6 DEF ConsoleTasks, KeyDone
    <3> QED
      BY <3>1, <3>4, <3>5, <3>6
  <2> QED
    BY <2>2, <2>3, <2>4
<1> QED
  BY <1>3, <1>4 DEF Thread

\* What a thread will have drawn is kept, if its first task goes on, ...
LEMMA GoesOnDraws ==
  ASSUME AgendaTyped, NEW t \in Thread, NEW stage \in Stages, NEW e, WillDraw(t, e),
         agenda[t] # << >>, GoOn(t, stage), agenda[t][1].op # "clear", todo'[t] = todo[t]
  PROVE  WillDraw(t, e)'
<1>1. /\ Len(agenda'[t]) = Len(agenda[t]) /\ agenda' \in [Thread -> Seq(Tasks)]
      /\ agenda'[t][1].op = agenda[t][1].op /\ agenda'[t][1].e = agenda[t][1].e
      /\ \A i \in 2 .. Len(agenda[t]) : agenda'[t][i] = agenda[t][i]
  BY GoesOn
<1>2. Len(agenda[t]) \in Nat /\ DOMAIN agenda[t] = 1 .. Len(agenda[t])
  BY TasksAre
<1>3. DOMAIN agenda'[t] = 1 .. Len(agenda[t])
  BY <1>1, LenProperties
<1>4. PICK i \in 1 .. Len(agenda[t]) :
        LET k == agenda[t][i]
        IN  \/ k.op \in {"add", "draw"} /\ k.e = e
            \/ k.op = "clear" /\ (k.stage = "render" => e \in todo[t])
  BY <1>2 DEF WillDraw
<1>5. CASE i = 1
  BY <1>1, <1>2, <1>3, <1>4, <1>5 DEF WillDraw
<1>6. CASE i # 1
  <2>1. i \in 2 .. Len(agenda[t])
    BY <1>2, <1>6
  <2> QED
    BY <1>1, <1>3, <1>4, <2>1 DEF WillDraw
<1> QED
  BY <1>5, <1>6

\* ... and if the first task is done, unless it was the one that had it drawn.
LEMMA BecomesDraws ==
  ASSUME AgendaTyped, NEW t \in Thread, NEW b \in Seq(Tasks), NEW e, WillDraw(t, e),
         agenda[t] # << >>, Then(t, b), ~HeadDraws(t, e), todo'[t] = todo[t]
  PROVE  WillDraw(t, e)'
<1>1. /\ Len(agenda'[t]) = Len(b) + Len(agenda[t]) - 1 /\ agenda' \in [Thread -> Seq(Tasks)]
      /\ \A i \in 2 .. Len(agenda[t]) : agenda'[t][Len(b) + i - 1] = agenda[t][i]
  BY Becomes
<1>2. Len(agenda[t]) \in Nat /\ DOMAIN agenda[t] = 1 .. Len(agenda[t]) /\ Len(b) \in Nat
  BY TasksAre, LenProperties
<1>3. DOMAIN agenda'[t] = 1 .. Len(agenda'[t])
  BY <1>1, LenProperties
<1>4. PICK i \in 1 .. Len(agenda[t]) :
        LET k == agenda[t][i]
        IN  \/ k.op \in {"add", "draw"} /\ k.e = e
            \/ k.op = "clear" /\ (k.stage = "render" => e \in todo[t])
  BY <1>2 DEF WillDraw
<1>5. i # 1
  BY <1>4 DEF HeadDraws
<1>6. i \in 2 .. Len(agenda[t]) /\ Len(b) + i - 1 \in 1 .. Len(agenda'[t])
  BY <1>1, <1>2, <1>5
<1>7. agenda'[t][Len(b) + i - 1] = agenda[t][i]
  BY <1>1, <1>6
<1> QED
  BY <1>3, <1>4, <1>6, <1>7 DEF WillDraw

\* What it has led to has an element drawn, if one of the tasks draws it or clears.
LEMMA NewDraws ==
  ASSUME AgendaTyped, NEW t \in Thread, NEW b \in Seq(Tasks), NEW e, agenda[t] # << >>,
         Then(t, b), NEW i \in 1 .. Len(b),
         b[i] = Clear \/ (b[i].op \in {"add", "draw"} /\ b[i].e = e)
  PROVE  WillDraw(t, e)'
<1>1. /\ Len(agenda'[t]) = Len(b) + Len(agenda[t]) - 1 /\ agenda' \in [Thread -> Seq(Tasks)]
      /\ agenda'[t][i] = b[i]
  BY Becomes
<1>2. Len(agenda[t]) \in Nat /\ Len(agenda[t]) >= 1 /\ Len(b) \in Nat
  BY TasksAre, LenProperties
<1>3. DOMAIN agenda'[t] = 1 .. Len(agenda'[t])
  BY <1>1, LenProperties
<1>4. i \in DOMAIN agenda'[t]
  BY <1>1, <1>2, <1>3
<1> QED
  BY <1>1, <1>4 DEF WillDraw, Clear, Task

\* The first task has it drawn itself.
LEMMA HeadWillDraw ==
  ASSUME AgendaTyped, NEW t \in Thread, NEW e, agenda[t] # << >>, HeadDraws(t, e)
  PROVE  WillDraw(t, e)
<1>1. 1 \in DOMAIN agenda[t]
  BY TasksAre
<1> QED
  BY <1>1 DEF HeadDraws, WillDraw

\* The first task that goes on has it drawn.
LEMMA HeadDrawsOn ==
  ASSUME AgendaTyped, NEW t \in Thread, NEW stage \in Stages, NEW e,
         agenda[t] # << >>, GoOn(t, stage),
         \/ agenda[t][1].op \in {"add", "draw"} /\ agenda[t][1].e = e
         \/ agenda[t][1].op = "clear" /\ (stage = "render" => e \in todo'[t])
  PROVE  WillDraw(t, e)'
<1>1. /\ Len(agenda'[t]) = Len(agenda[t]) /\ agenda' \in [Thread -> Seq(Tasks)]
      /\ agenda'[t][1].op = agenda[t][1].op /\ agenda'[t][1].e = agenda[t][1].e
      /\ agenda'[t][1].stage = stage
  BY GoesOn
<1>2. Len(agenda[t]) \in Nat /\ Len(agenda[t]) >= 1
  BY TasksAre
<1>3. DOMAIN agenda'[t] = 1 .. Len(agenda[t])
  BY <1>1, LenProperties
<1>4. 1 \in DOMAIN agenda'[t]
  BY <1>2, <1>3
<1> QED
  BY <1>1, <1>4 DEF WillDraw

\* The other thread does what it did.
LEMMA OtherDraws ==
  ASSUME NEW u \in Thread, NEW e, agenda'[u] = agenda[u], todo'[u] = todo[u], WillDraw(u, e)
  PROVE  WillDraw(u, e)'
BY DEF WillDraw

\* What is listed stays so, where the lists only grow but for the title that is deleted.
LEMMA OtherListed ==
  ASSUME NEW u \in Thread, agenda'[u] = agenda[u], todo'[u] = todo[u],
         TasksListed(u), Clearing(u), \A e \in elements : ElementListed(e)'
  PROVE  TasksListed(u)' /\ Clearing(u)'
<1>1. \A e : ElementListed(e) => ElementListed(e)'
  BY DEF ElementListed
<1> QED
  BY <1>1 DEF TasksListed, Clearing

\* ... when the first task is done, ...
LEMMA FinishesListed ==
  ASSUME AgendaTyped, NEW t \in Thread, agenda[t] # << >>, Finish(t),
         TasksListed(t), todo'[t] = {}, \A e \in elements : ElementListed(e)'
  PROVE  TasksListed(t)' /\ Clearing(t)'
<1>1. \A e : ElementListed(e) => ElementListed(e)'
  BY DEF ElementListed
<1>2. /\ Len(agenda'[t]) = Len(agenda[t]) - 1
      /\ \A i \in 1 .. Len(agenda'[t]) : agenda'[t][i] = agenda[t][i + 1]
      /\ Len(agenda[t]) \in Nat
  BY Finishes, TasksAre
<1>3. \A i \in 1 .. Len(agenda'[t]) : i + 1 \in 1 .. Len(agenda[t])
  BY <1>2
<1>4. TasksListed(t)'
  BY <1>1, <1>2, <1>3 DEF TasksListed
<1> QED
  BY <1>4 DEF Clearing

\* ... and when it goes on.
LEMMA GoesOnListed ==
  ASSUME AgendaTyped, NEW t \in Thread, NEW stage \in Stages, agenda[t] # << >>,
         GoOn(t, stage), TasksListed(t), \A e \in elements : ElementListed(e)',
         agenda[t][1].op = "add" /\ stage # "use" => ElementListed(agenda[t][1].e)'
  PROVE  TasksListed(t)'
<1>1. \A e : e \in elements \/ e = Loading => e \in elements' \/ e = Loading
  BY DEF ElementListed
<1>2. /\ Len(agenda'[t]) = Len(agenda[t])
      /\ agenda'[t][1].op = agenda[t][1].op /\ agenda'[t][1].e = agenda[t][1].e
      /\ agenda'[t][1].stage = stage
      /\ \A i \in 2 .. Len(agenda[t]) : agenda'[t][i] = agenda[t][i]
      /\ Len(agenda[t]) \in Nat
  BY GoesOn, TasksAre
<1>3. ASSUME NEW i \in 1 .. Len(agenda'[t]),
             \/ agenda'[t][i].op = "draw" /\ agenda'[t][i].e # None
             \/ agenda'[t][i].op = "add" /\ agenda'[t][i].stage \notin {"start", "use"}
      PROVE  agenda'[t][i].e \in elements' \/ agenda'[t][i].e = Loading
  <2>1. i \in 1 .. Len(agenda[t]) /\ (i = 1 \/ i \in 2 .. Len(agenda[t]))
    BY <1>2
  <2>2. CASE i = 1
    BY <1>1, <1>2, <1>3, <2>1, <2>2 DEF TasksListed, ElementListed
  <2>3. CASE i \in 2 .. Len(agenda[t])
    BY <1>1, <1>2, <1>3, <2>1, <2>3 DEF TasksListed, ElementListed
  <2> QED
    BY <2>1, <2>2, <2>3
<1> QED
  BY <1>3 DEF TasksListed, ElementListed

\* The types, one by one, ...
LEMMA ConsoleTypes ==
  ASSUME TypeOK, AgendaTyped
  PROVE  /\ instance \in BOOLEAN /\ needClear \in BOOLEAN /\ markerCreated \in BOOLEAN
         /\ exitFlag \in BOOLEAN /\ bFirstTime \in BOOLEAN /\ early \in BOOLEAN
         /\ phase \in {"up", "leaving", "freed", "exited", "torn", "crashed"}
         /\ elements \subseteq Element /\ needRedraw \subseteq Element
         /\ screen \subseteq Element /\ els \subseteq Element
         /\ deleteLock \in Thread \cup {None}
         /\ elementsLock \in [owner : Thread \cup {None}, depth : 0 .. 2]
         /\ agenda \in [Thread -> Seq(Tasks)] /\ todo \in [Thread -> SUBSET Element]
         /\ cpc \in {"loop", "events", "update", "paint", "ended"}
         /\ events \in 0 .. MaxEvents /\ hovered \in Element \cup {None} /\ ghosts \in Nat
BY DEF TypeOK, AgendaTyped

\* ... and all together.
LEMMA ConsoleTypesHold ==
  ASSUME instance' \in BOOLEAN, needClear' \in BOOLEAN, markerCreated' \in BOOLEAN,
         exitFlag' \in BOOLEAN, bFirstTime' \in BOOLEAN, early' \in BOOLEAN,
         phase' \in {"up", "leaving", "freed", "exited", "torn", "crashed"},
         elements' \subseteq Element, needRedraw' \subseteq Element,
         screen' \subseteq Element, els' \subseteq Element,
         deleteLock' \in Thread \cup {None},
         elementsLock' \in [owner : Thread \cup {None}, depth : 0 .. 2],
         agenda' \in [Thread -> Seq(Tasks)], todo' \in [Thread -> SUBSET Element],
         cpc' \in {"loop", "events", "update", "paint", "ended"},
         events' \in 0 .. MaxEvents, hovered' \in Element \cup {None}, ghosts' \in Nat
  PROVE  TypeOK' /\ AgendaTyped'
<1>1. ASSUME NEW t \in Thread, NEW i \in DOMAIN agenda'[t] PROVE IsTask(agenda'[t][i])
  <2>1. agenda'[t] \in Seq(Tasks)
    OBVIOUS
  <2>2. i \in 1 .. Len(agenda'[t])
    BY <2>1, LenProperties
  <2>3. agenda'[t][i] \in Tasks
    BY <2>1, <2>2, ElementOfSeq
  <2> QED
    BY <2>3 DEF Tasks, IsTask, Operations, Stages
<1>2. \A t \in Thread : \A i \in DOMAIN agenda'[t] : IsTask(agenda'[t][i])
  BY <1>1
<1>3. AgendaTyped'
  BY DEF AgendaTyped
<1>4. /\ {instance', needClear', markerCreated', exitFlag', bFirstTime', early'}
           \subseteq BOOLEAN
      /\ {elements', needRedraw', screen', els'} \subseteq SUBSET Element
  OBVIOUS
<1>5. TypeOK'
  BY <1>2, <1>4 DEF TypeOK
<1> QED
  BY <1>3, <1>5

\* Of a thread that is at a task.
LEMMA AtTaskIs ==
  ASSUME AgendaTyped, NEW t \in Thread, NEW op, NEW stage, AtTask(t, op, stage)
  PROVE  /\ Running /\ agenda[t] # << >> /\ Len(agenda[t]) \in Nat /\ Len(agenda[t]) >= 1
         /\ agenda[t][1].op = op /\ agenda[t][1].stage = stage /\ Of(t) = agenda[t][1].e
         /\ agenda[t][1] \in Tasks /\ Of(t) \in Element \cup {None}
<1>1. /\ Running /\ agenda[t] # << >> /\ Head(agenda[t]) = agenda[t][1]
      /\ Len(agenda[t]) \in Nat /\ Len(agenda[t]) >= 1 /\ agenda[t][1] \in Tasks
  BY TasksAre DEF AtTask
<1> QED
  BY <1>1 DEF AtTask, Of, Tasks

\* Whose tasks they are, and of what element.
LEMMA WhoseTasks ==
  ASSUME AgendaTyped, GameTasks, ConsoleTasks, NEW t \in Thread, agenda[t] # << >>
  PROVE  LET k == agenda[t][1]
         IN  /\ k.op = "add" => /\ k.e \in Element /\ k.e # Loading
                                /\ t = "console" => k.e = Marker
             /\ k.op = "draw" => k.e \in Element \cup {None}
             /\ k.op = "del" => t = "game" /\ k.e = Loading
             /\ k.op \in {"look", "find", "click", "move", "setup", "key"} =>
                  t = "console"
             /\ k.op \in {"clear", "find", "click", "setup", "key"} /\ t = "console" =>
                  Len(agenda[t]) = 1
             /\ k.op = "timer" => t = "game"
<1>1. Len(agenda[t]) \in Nat /\ Len(agenda[t]) >= 1
  BY TasksAre
<1>2. t = "game" => agenda[t] = OfGame
  BY DEF OfGame
<1>3. t = "console" => agenda[t] = OfConsole
  BY DEF OfConsole
<1>4. CASE t = "game"
  BY <1>1, <1>2, <1>4, NamesDiffer DEF GameTasks
<1>5. CASE t = "console"
  BY <1>1, <1>3, <1>5, NamesDiffer DEF ConsoleTasks
<1> QED
  BY <1>4, <1>5 DEF Thread

\* A lock is not given back by a thread that handles no key.
LEMMA NothingUnlocked ==
  ASSUME AgendaTyped, GameTasks, ConsoleTasks, LockHeld, NEW t \in Thread,
         agenda[t] # << >>, agenda[t][1].op = "clear"
  PROVE  Unlocked(t) = elementsLock
<1>1. CASE t = "game"
  BY <1>1, NamesDiffer DEF LockHeld, Unlocked
<1>2. CASE t = "console"
  <2>1. Len(OfConsole) = 1 /\ OfConsole[1].op = "clear"
    BY <1>2, WhoseTasks DEF OfConsole
  <2>2. ~KeyHeld
    BY <2>1 DEF KeyHeld
  <2> QED
    BY <1>2, <2>2, NamesDiffer DEF LockHeld, Unlocked
<1> QED
  BY <1>1, <1>2 DEF Thread

\* A menu's marker stays where it is in the list.
LEMMA MarkerKept ==
  ASSUME MarkerListed, instance' => instance, markerCreated' = markerCreated,
         Marker \in elements => Marker \in elements',
         \/ OfConsole' = OfConsole
         \/ /\ Marker \in elements' \/ ~instance' \/ ~markerCreated
            /\ Len(OfConsole') >= 1 => OfConsole'[1].op # "move"
  PROVE  MarkerListed'
BY DEF MarkerListed

\* The second task of the console becomes its first.
LEMMA SecondFirst ==
  ASSUME AgendaTyped, ConsoleTasks, OfConsole # << >>, Finish("console")
  PROVE  Len(OfConsole') >= 1 => OfConsole'[1].op \notin {"add", "move"}
<1>1. /\ Len(agenda'["console"]) = Len(agenda["console"]) - 1
      /\ \A i \in 1 .. Len(agenda'["console"]) : agenda'["console"][i] = agenda["console"][i + 1]
      /\ Len(agenda["console"]) \in Nat
  BY Finishes, TasksAre DEF OfConsole, Thread
<1>2. Len(OfConsole') >= 1 => OfConsole'[1] = OfConsole[2] /\ Len(OfConsole) >= 2
  BY <1>1 DEF OfConsole
<1> QED
  BY <1>2 DEF ConsoleTasks, KeyDone

\* No element is forgotten, if whatever would have drawn it still does, or it is to be
\* drawn.
LEMMA NoneForgottenIf ==
  ASSUME NoneForgotten, instance' => instance, Running' => Running,
         ASSUME NEW e \in Element, instance, Running, e \in elements',
                \/ e \notin elements
                \/ e \in screen \cup needRedraw \cup els
                \/ \E t \in Thread : WillDraw(t, e)
         PROVE  e \in screen' \cup needRedraw' \cup els' \/ \E t \in Thread : WillDraw(t, e)',
         elements' \subseteq Element
  PROVE  NoneForgotten'
BY DEF NoneForgotten, InHand

\* What a step need not touch: the locks, ...
LEMMA LocksKept ==
  ASSUME LockHeld, DeleteHeld, KeyHeld' <=> KeyHeld, Deleting' <=> Deleting,
         cpc' = cpc, deleteLock' = deleteLock, elementsLock' = elementsLock
  PROVE  LockHeld' /\ DeleteHeld'
BY DEF LockHeld, DeleteHeld

\* ... the title that is deleted, ...
LEMMA HauntedKept ==
  ASSUME Haunted, ghosts \in Nat, ghosts' = ghosts,
         Loading \in elements' => Loading \in elements,
         Loading \notin elements' => Loading \notin elements,
         Loading \notin elements =>
           /\ Loading \in els' => Loading \in els
           /\ Loading \in needRedraw' => Loading \in needRedraw \/ DrawsLoading
           /\ DrawsLoading' => Loading \in needRedraw \/ DrawsLoading
           /\ hovered' = Loading => hovered = Loading
           /\ \A t \in Thread : Loading \in todo'[t] => Loading \in todo[t]
  PROVE  Haunted'
<1>1. CASE Loading \in elements
  BY <1>1 DEF Haunted
<1>2. CASE Loading \notin elements
  <2>1. ghosts + Haunting <= 2 /\ \A t \in Thread : Loading \notin todo[t]
    BY <1>2 DEF Haunted
  <2>2. /\ Once(Loading \in els') <= Once(Loading \in els)
        /\ Once(Loading \in needRedraw' \/ DrawsLoading')
             <= Once(Loading \in needRedraw \/ DrawsLoading)
        /\ Once(hovered' = Loading) <= Once(hovered = Loading)
    BY <1>2 DEF Once
  <2>3. \A b \in BOOLEAN : Once(b) \in 0 .. 1
    BY DEF Once
  <2>4. ghosts' + Haunting' <= 2
    BY <2>1, <2>2, <2>3 DEF Haunting, Once
  <2> QED
    BY <1>2, <2>1, <2>4 DEF Haunted
<1> QED
  BY <1>1, <1>2

\* ... and the lists.
LEMMA ListedIf ==
  ASSUME Listed, NEW t \in Thread,
         \A u \in Thread : u # t => agenda'[u] = agenda[u] /\ todo'[u] = todo[u],
         TasksListed(t)', Clearing(t)',
         \A e \in elements : e \in elements' \/ e = Loading,
         \A e \in needRedraw' \cup els' :
           e \in needRedraw \cup els \/ e \in elements' \/ e = Loading,
         hovered' # None => hovered' = hovered \/ hovered' \in elements',
         cpc' # "paint" => els' = {}
  PROVE  Listed'
<1>1. \A e \in elements : ElementListed(e)'
  BY DEF ElementListed
<1>2. ASSUME NEW u \in Thread PROVE TasksListed(u)' /\ Clearing(u)'
  <2>1. CASE u = t
    BY <2>1
  <2>2. CASE u # t
    BY <1>1, <2>2, OtherListed DEF Listed
  <2> QED
    BY <2>1, <2>2
<1>3. \A e \in needRedraw' \cup els' : e \in elements' \/ e = Loading
  BY DEF Listed, ElementListed
<1>4. hovered' # None => hovered' \in elements' \/ hovered' = Loading
  BY DEF Listed, ElementListed
<1> QED
  BY <1>2, <1>3, <1>4 DEF Listed, ElementListed

\* The marker, when a task goes on, ...
LEMMA MarkerGoesOn ==
  ASSUME AgendaTyped, MarkerListed, NEW t \in Thread, NEW stage \in Stages,
         agenda[t] # << >>, GoOn(t, stage), instance' = instance,
         markerCreated' = markerCreated, elements \subseteq elements',
         agenda[t][1].op # "move",
         agenda[t][1].op = "add" /\ t = "console" =>
           Marker \in elements' \/ ~instance \/ stage = "use"
  PROVE  MarkerListed'
<1>1. /\ Len(agenda'[t]) = Len(agenda[t]) /\ agenda'[t][1].op = agenda[t][1].op
      /\ agenda'[t][1].stage = stage
      /\ \A u \in Thread : u # t => agenda'[u] = agenda[u]
      /\ Len(agenda[t]) \in Nat /\ Len(agenda[t]) >= 1
  BY GoesOn, TasksAre
<1>2. CASE t = "game"
  <2>1. OfConsole' = OfConsole
    BY <1>1, <1>2 DEF OfConsole, Thread
  <2> QED
    BY <2>1 DEF MarkerListed
<1>3. CASE t = "console"
  <2>1. OfConsole = agenda[t] /\ OfConsole' = agenda'[t]
    BY <1>3 DEF OfConsole
  <2> QED
    BY <1>1, <1>3, <2>1 DEF MarkerListed
<1> QED
  BY <1>2, <1>3 DEF Thread

\* ... and when it is done.
LEMMA MarkerFinishes ==
  ASSUME AgendaTyped, ConsoleTasks, MarkerListed, NEW t \in Thread,
         agenda[t] # << >>, Finish(t), instance' = instance,
         markerCreated' = markerCreated, elements \subseteq elements',
         agenda[t][1].op = "add" /\ agenda[t][1].stage \in {"start", "use"} => ~instance
  PROVE  MarkerListed'
<1>1. CASE t = "game"
  <2>1. OfConsole' = OfConsole
    BY <1>1, Finishes DEF OfConsole, Thread
  <2> QED
    BY <2>1 DEF MarkerListed
<1>2. CASE t = "console"
  <2>1. OfConsole = agenda[t] /\ OfConsole # << >>
    BY <1>2 DEF OfConsole
  <2>2. Len(OfConsole') >= 1 => OfConsole'[1].op \notin {"add", "move"}
    BY <1>2, <2>1, SecondFirst
  <2> QED
    BY <2>1, <2>2 DEF MarkerListed
<1> QED
  BY <1>1, <1>2 DEF Thread

\* What any thread will have drawn is kept.
LEMMA StillOn ==
  ASSUME AgendaTyped, NEW t \in Thread, NEW stage \in Stages, NEW e, NEW u \in Thread,
         WillDraw(u, e), agenda[t] # << >>, GoOn(t, stage), agenda[t][1].op # "clear",
         todo' = todo
  PROVE  WillDraw(u, e)'
<1>1. CASE u = t
  BY <1>1, GoesOnDraws
<1>2. CASE u # t
  <2>1. agenda'[u] = agenda[u]
    BY <1>2, GoesOn
  <2> QED
    BY <2>1, OtherDraws
<1> QED
  BY <1>1, <1>2

\* ... also when the first task is done that did not have it drawn.
LEMMA StillThen ==
  ASSUME AgendaTyped, NEW t \in Thread, NEW b \in Seq(Tasks), NEW e, NEW u \in Thread,
         WillDraw(u, e), agenda[t] # << >>, Then(t, b), ~HeadDraws(t, e), todo' = todo
  PROVE  WillDraw(u, e)'
<1>1. CASE u = t
  BY <1>1, BecomesDraws
<1>2. CASE u # t
  <2>1. agenda'[u] = agenda[u]
    BY <1>2, Becomes
  <2> QED
    BY <2>1, OtherDraws
<1> QED
  BY <1>1, <1>2

\* The invariant, part by part.
LEMMA ConsoleParts ==
  ASSUME ConsoleIInv
  PROVE  /\ TypeOK /\ AgendaTyped /\ GameTasks /\ ConsoleTasks /\ LockHeld /\ DeleteHeld
         /\ Ended /\ GhostsBounded /\ NoneForgotten
         /\ Running => Listed /\ MarkerListed /\ Haunted
         /\ agenda \in [Thread -> Seq(Tasks)] /\ todo \in [Thread -> SUBSET Element]
         /\ ghosts \in Nat
BY ConsoleTypes DEF ConsoleIInv, Kept

\* After a step, part by part.
LEMMA ConsoleWhole ==
  ASSUME TypeOK', AgendaTyped', GameTasks', ConsoleTasks', LockHeld', DeleteHeld', Ended',
         GhostsBounded', Running' => Listed', Running' => MarkerListed',
         Running' => Haunted', NoneForgotten'
  PROVE  ConsoleIInv'
BY DEF ConsoleIInv, Kept

-----------------------------------------------------------------------------
(* The steps of the console's and the game's tasks.                         *)

\* An element that changes its look will be drawn (CHRenderElement::update, not yet called).
LEMMA DrawChangeKeeps ==
  ASSUME ConsoleIInv, NEW t \in Thread, DrawChange(t)
  PROVE  ConsoleIInv'
<1> DEFINE e0 == agenda[t][1].e
<1>1. /\ TypeOK /\ AgendaTyped /\ GameTasks /\ ConsoleTasks /\ LockHeld /\ DeleteHeld
      /\ Ended /\ GhostsBounded /\ NoneForgotten
      /\ Running => Listed /\ MarkerListed /\ Haunted
      /\ agenda \in [Thread -> Seq(Tasks)] /\ todo \in [Thread -> SUBSET Element]
      /\ ghosts \in Nat
  BY ConsoleParts
<1>2. /\ Running /\ agenda[t] # << >> /\ agenda[t][1].op = "draw" /\ Of(t) = e0
      /\ Len(agenda[t]) \in Nat /\ Len(agenda[t]) >= 1
  BY <1>1, AtTaskIs DEF DrawChange
<1>3. /\ GoOn(t, "draw") /\ "draw" \in Stages /\ screen' = screen \ {e0}
      /\ instance' = instance /\ phase' = phase /\ elements' = elements
      /\ needRedraw' = needRedraw /\ deleteLock' = deleteLock
      /\ elementsLock' = elementsLock /\ todo' = todo /\ cpc' = cpc /\ els' = els
      /\ events' = events /\ needClear' = needClear /\ hovered' = hovered
      /\ markerCreated' = markerCreated /\ exitFlag' = exitFlag
      /\ bFirstTime' = bFirstTime /\ ghosts' = ghosts
      /\ early' = early
  BY <1>2 DEF DrawChange, life, lists, locks, work, console, input, past, Stages
<1>4. /\ agenda' \in [Thread -> Seq(Tasks)]
      /\ \A u \in Thread : u # t => agenda'[u] = agenda[u]
  BY <1>1, <1>2, <1>3, GoesOn
<1>5. TypeOK' /\ AgendaTyped'
  <2>1. screen' \subseteq Element
    BY <1>1, <1>3, ConsoleTypes
  <2> QED
    BY <1>1, <1>3, <1>4, <2>1, ConsoleTypes, ConsoleTypesHold
<1>6. /\ GameTasks' /\ ConsoleTasks' /\ (KeyHeld' <=> KeyHeld) /\ (Deleting' <=> Deleting)
      /\ (DrawsLoading' <=> DrawsLoading)
  BY <1>1, <1>2, <1>3, GoesOnKeeps
<1>7. LockHeld' /\ DeleteHeld'
  BY <1>1, <1>3, <1>6, LocksKept
<1>8. Ended' /\ GhostsBounded'
  BY <1>1, <1>3 DEF Ended, GhostsBounded
<1>9. Listed'
  <2>1. TasksListed(t)'
    BY <1>1, <1>2, <1>3, GoesOnListed DEF Listed, ElementListed
  <2>2. todo[t] = {}
    BY <1>1, <1>2 DEF Listed, Clearing
  <2>3. Clearing(t)'
    BY <1>3, <2>2 DEF Clearing
  <2>4. cpc' # "paint" => els' = {}
    BY <1>1, <1>2, <1>3 DEF Listed
  <2> QED
    BY <1>1, <1>2, <1>3, <1>4, <2>1, <2>3, <2>4, ListedIf
<1>10. MarkerListed'
  BY <1>1, <1>2, <1>3, MarkerGoesOn
<1>11. Haunted'
  BY <1>1, <1>2, <1>3, <1>6, HauntedKept
<1>12. NoneForgotten'
  <2>1. ASSUME NEW e \in Element, e \in elements', instance, Running,
               \/ e \notin elements
               \/ e \in screen \cup needRedraw \cup els
               \/ \E u \in Thread : WillDraw(u, e)
        PROVE  e \in screen' \cup needRedraw' \cup els' \/ \E u \in Thread : WillDraw(u, e)'
    <3>1. CASE e = e0
      BY <1>1, <1>2, <1>3, <3>1, HeadDrawsOn
    <3>2. CASE \E u \in Thread : WillDraw(u, e)
      BY <1>1, <1>2, <1>3, <3>2, StillOn
    <3> QED
      BY <1>3, <2>1, <3>1, <3>2
  <2> QED
    BY <1>1, <1>3, <1>5, <2>1, NoneForgottenIf, ConsoleTypes DEF Running
<1> QED
  BY <1>5, <1>6, <1>7, <1>8, <1>9, <1>10, <1>11, <1>12, ConsoleWhole

\* An element that is put into the list will be drawn.
LEMMA AddInsertKeeps ==
  ASSUME ConsoleIInv, NEW t \in Thread, AddInsert(t)
  PROVE  ConsoleIInv'
<1> DEFINE e0 == agenda[t][1].e
<1>1. /\ TypeOK /\ AgendaTyped /\ GameTasks /\ ConsoleTasks /\ LockHeld /\ DeleteHeld
      /\ Ended /\ GhostsBounded /\ NoneForgotten
      /\ Running => Listed /\ MarkerListed /\ Haunted
      /\ agenda \in [Thread -> Seq(Tasks)] /\ todo \in [Thread -> SUBSET Element]
      /\ ghosts \in Nat
  BY ConsoleParts
<1>2. /\ Running /\ agenda[t] # << >> /\ agenda[t][1].op = "add" /\ Of(t) = e0
      /\ Len(agenda[t]) \in Nat /\ Len(agenda[t]) >= 1
  BY <1>1, AtTaskIs DEF AddInsert
<1>0. e0 \in Element /\ e0 # Loading /\ (t = "console" => e0 = Marker)
  BY <1>1, <1>2, WhoseTasks
<1>3. /\ "draw" \in Stages /\ GoOn(t, "draw") /\ phase' \in {phase, "torn"}
      /\ instance' = instance /\ elements' = elements \cup {e0}
      /\ needRedraw' = needRedraw /\ screen' = screen /\ deleteLock' = deleteLock
      /\ elementsLock' = elementsLock /\ todo' = todo /\ cpc' = cpc /\ els' = els
      /\ events' = events /\ needClear' = needClear /\ hovered' = hovered
      /\ markerCreated' = markerCreated /\ exitFlag' = exitFlag
      /\ bFirstTime' = bFirstTime /\ ghosts' = ghosts
      /\ early' = early
  BY <1>1, <1>2, <1>0 DEF AddInsert, life, lists, locks, work, console, input, past, Stages,
     Changed
<1>4. /\ agenda' \in [Thread -> Seq(Tasks)]
      /\ \A u \in Thread : u # t => agenda'[u] = agenda[u]
  BY <1>1, <1>2, <1>3, GoesOn
<1>5. TypeOK' /\ AgendaTyped'
  <2>1. elements' \subseteq Element
    BY <1>0, <1>1, <1>3, ConsoleTypes
  <2>2. phase' \in {"up", "leaving", "freed", "exited", "torn", "crashed"}
    BY <1>1, <1>3, ConsoleTypes
  <2> QED
    BY <1>1, <1>3, <1>4, <2>1, <2>2, ConsoleTypes, ConsoleTypesHold
<1>6. /\ GameTasks' /\ ConsoleTasks' /\ (KeyHeld' <=> KeyHeld) /\ (Deleting' <=> Deleting)
      /\ DrawsLoading' => DrawsLoading
  BY <1>1, <1>2, <1>3, GoesOnKeeps
<1>7. LockHeld' /\ DeleteHeld'
  BY <1>1, <1>3, <1>6, LocksKept
<1>8. Ended' /\ GhostsBounded'
  BY <1>1, <1>3 DEF Ended, GhostsBounded
<1>9. Listed'
  <2>0. agenda'[t][1].e = e0
    BY <1>1, <1>2, <1>3, GoesOn
  <2>1. todo[t] = {}
    BY <1>1, <1>2 DEF Listed, Clearing
  <2>2. TasksListed(t)'
    BY <1>1, <1>2, <1>3, <2>0, GoesOnListed DEF Listed, ElementListed
  <2>3. Clearing(t)'
    BY <1>3, <2>1 DEF Clearing
  <2>4. cpc' # "paint" => els' = {}
    BY <1>1, <1>2, <1>3 DEF Listed
  <2> QED
    BY <1>1, <1>2, <1>3, <1>4, <2>2, <2>3, <2>4, ListedIf
<1>10. MarkerListed'
  BY <1>0, <1>1, <1>2, <1>3, MarkerGoesOn
<1>11. Haunted'
  BY <1>0, <1>1, <1>2, <1>3, <1>6, HauntedKept
<1>12. NoneForgotten'
  <2>1. ASSUME NEW e \in Element, e \in elements', instance, Running,
               \/ e \notin elements
               \/ e \in screen \cup needRedraw \cup els
               \/ \E u \in Thread : WillDraw(u, e)
        PROVE  e \in screen' \cup needRedraw' \cup els' \/ \E u \in Thread : WillDraw(u, e)'
    <3>1. CASE e = e0
      BY <1>1, <1>2, <1>3, <3>1, HeadDrawsOn
    <3>2. CASE \E u \in Thread : WillDraw(u, e)
      BY <1>1, <1>2, <1>3, <3>2, StillOn
    <3> QED
      BY <1>3, <2>1, <3>1, <3>2
  <2>2. elements' \subseteq Element
    BY <1>1, <1>3, <1>5, ConsoleTypes DEF TypeOK
  <2>3. NoneForgotten /\ (instance' => instance) /\ (Running' => Running)
    BY <1>1, <1>2, <1>3 DEF Running
  <2> QED
    BY <2>1, <2>2, <2>3, NoneForgottenIf
<1> QED
  BY <1>5, <1>6, <1>7, <1>8, <1>9, <1>10, <1>11, <1>12, ConsoleWhole

\* instance is tested: nothing is added, drawn or looked for when the console is leaving, ...
LEMMA TestEndsKeeps ==
  ASSUME ConsoleIInv, NEW t \in Thread, NEW op \in {"add", "draw", "look"}, NEW stage,
         Tested(t, op, stage), ~instance
  PROVE  ConsoleIInv'
<1> DEFINE e0 == agenda[t][1].e
<1>1. /\ TypeOK /\ AgendaTyped /\ GameTasks /\ ConsoleTasks /\ LockHeld /\ DeleteHeld
      /\ Ended /\ GhostsBounded /\ NoneForgotten
      /\ Running => Listed /\ MarkerListed /\ Haunted
      /\ agenda \in [Thread -> Seq(Tasks)] /\ todo \in [Thread -> SUBSET Element]
      /\ ghosts \in Nat
  BY ConsoleParts
<1>2. /\ Running /\ agenda[t] # << >> /\ agenda[t][1].op = op /\ Of(t) = e0
      /\ Len(agenda[t]) \in Nat /\ Len(agenda[t]) >= 1
  BY <1>1, AtTaskIs DEF Tested
<1>3. /\ Finish(t) /\ instance' = instance /\ phase' = phase /\ elements' = elements
      /\ needRedraw' = needRedraw /\ screen' = screen /\ deleteLock' = deleteLock
      /\ elementsLock' = elementsLock /\ todo' = todo /\ cpc' = cpc /\ els' = els
      /\ events' = events /\ needClear' = needClear /\ hovered' = hovered
      /\ markerCreated' = markerCreated /\ exitFlag' = exitFlag
      /\ bFirstTime' = bFirstTime /\ ghosts' = ghosts
      /\ early' = early
  BY <1>1, <1>2 DEF Tested, life, lists, locks, work, console, input, past, Stages
<1>4. /\ agenda' \in [Thread -> Seq(Tasks)]
      /\ \A u \in Thread : u # t => agenda'[u] = agenda[u]
  BY <1>1, <1>2, <1>3, Finishes
<1>5. TypeOK' /\ AgendaTyped'
  BY <1>1, <1>3, <1>4, ConsoleTypes, ConsoleTypesHold
<1>6. /\ GameTasks' /\ ConsoleTasks' /\ (KeyHeld' <=> KeyHeld) /\ (Deleting' <=> Deleting)
      /\ DrawsLoading' => DrawsLoading
  BY <1>1, <1>2, <1>3, FinishesKeeps
<1>7. LockHeld' /\ DeleteHeld'
  BY <1>1, <1>3, <1>6, LocksKept
<1>8. Ended' /\ GhostsBounded'
  BY <1>1, <1>3 DEF Ended, GhostsBounded
<1>9. Listed'
  <2>1. todo[t] = {}
    BY <1>1, <1>2 DEF Listed, Clearing
  <2>2. TasksListed(t)' /\ Clearing(t)'
    BY <1>1, <1>2, <1>3, <2>1, FinishesListed DEF Listed, ElementListed
  <2>4. cpc' # "paint" => els' = {}
    BY <1>1, <1>2, <1>3 DEF Listed
  <2> QED
    BY <1>1, <1>2, <1>3, <1>4, <2>2, <2>4, ListedIf
<1>10. MarkerListed'
  BY <1>1, <1>2, <1>3, MarkerFinishes
<1>11. Haunted'
  BY <1>1, <1>2, <1>3, <1>6, HauntedKept
<1>12. NoneForgotten'
  BY <1>3 DEF NoneForgotten
<1> QED
  BY <1>5, <1>6, <1>7, <1>8, <1>9, <1>10, <1>11, <1>12, ConsoleWhole

\* ... and else it is going to be used.
LEMMA TestGoesKeeps ==
  ASSUME ConsoleIInv, NEW t \in Thread, NEW op \in {"add", "draw", "look"}, NEW stage,
         Tested(t, op, stage), instance
  PROVE  ConsoleIInv'
<1> DEFINE e0 == agenda[t][1].e
<1>1. /\ TypeOK /\ AgendaTyped /\ GameTasks /\ ConsoleTasks /\ LockHeld /\ DeleteHeld
      /\ Ended /\ GhostsBounded /\ NoneForgotten
      /\ Running => Listed /\ MarkerListed /\ Haunted
      /\ agenda \in [Thread -> Seq(Tasks)] /\ todo \in [Thread -> SUBSET Element]
      /\ ghosts \in Nat
  BY ConsoleParts
<1>2. /\ Running /\ agenda[t] # << >> /\ agenda[t][1].op = op /\ Of(t) = e0
      /\ Len(agenda[t]) \in Nat /\ Len(agenda[t]) >= 1
  BY <1>1, AtTaskIs DEF Tested
<1>3. /\ GoOn(t, "use") /\ "use" \in Stages /\ screen' = screen
      /\ instance' = instance /\ phase' = phase /\ elements' = elements
      /\ needRedraw' = needRedraw /\ deleteLock' = deleteLock
      /\ elementsLock' = elementsLock /\ todo' = todo /\ cpc' = cpc /\ els' = els
      /\ events' = events /\ needClear' = needClear /\ hovered' = hovered
      /\ markerCreated' = markerCreated /\ exitFlag' = exitFlag
      /\ bFirstTime' = bFirstTime /\ ghosts' = ghosts
      /\ early' = early
  BY <1>2 DEF Tested, life, lists, locks, work, console, input, past, Stages
<1>4. /\ agenda' \in [Thread -> Seq(Tasks)]
      /\ \A u \in Thread : u # t => agenda'[u] = agenda[u]
  BY <1>1, <1>2, <1>3, GoesOn
<1>5. TypeOK' /\ AgendaTyped'
  <2>1. screen' \subseteq Element
    BY <1>1, <1>3, ConsoleTypes
  <2> QED
    BY <1>1, <1>3, <1>4, <2>1, ConsoleTypes, ConsoleTypesHold
<1>6. /\ GameTasks' /\ ConsoleTasks' /\ (KeyHeld' <=> KeyHeld) /\ (Deleting' <=> Deleting)
      /\ (DrawsLoading' <=> DrawsLoading)
  BY <1>1, <1>2, <1>3, GoesOnKeeps
<1>7. LockHeld' /\ DeleteHeld'
  BY <1>1, <1>3, <1>6, LocksKept
<1>8. Ended' /\ GhostsBounded'
  BY <1>1, <1>3 DEF Ended, GhostsBounded
<1>9. Listed'
  <2>1. TasksListed(t)'
    BY <1>1, <1>2, <1>3, GoesOnListed DEF Listed, ElementListed
  <2>2. todo[t] = {}
    BY <1>1, <1>2 DEF Listed, Clearing
  <2>3. Clearing(t)'
    BY <1>3, <2>2 DEF Clearing
  <2>4. cpc' # "paint" => els' = {}
    BY <1>1, <1>2, <1>3 DEF Listed
  <2> QED
    BY <1>1, <1>2, <1>3, <1>4, <2>1, <2>3, <2>4, ListedIf
<1>10. MarkerListed'
  BY <1>1, <1>2, <1>3, MarkerGoesOn
<1>11. Haunted'
  BY <1>1, <1>2, <1>3, <1>6, HauntedKept
<1>12. NoneForgotten'
  <2>1. ASSUME NEW e \in Element, e \in elements', instance, Running,
               \/ e \notin elements
               \/ e \in screen \cup needRedraw \cup els
               \/ \E u \in Thread : WillDraw(u, e)
        PROVE  e \in screen' \cup needRedraw' \cup els' \/ \E u \in Thread : WillDraw(u, e)'
    <3>2. CASE \E u \in Thread : WillDraw(u, e)
      BY <1>1, <1>2, <1>3, <3>2, StillOn
    <3> QED
      BY <1>3, <2>1, <3>2
  <2> QED
    BY <1>1, <1>3, <1>5, <2>1, NoneForgottenIf, ConsoleTypes DEF Running
<1> QED
  BY <1>5, <1>6, <1>7, <1>8, <1>9, <1>10, <1>11, <1>12, ConsoleWhole

\* What has been added is to be drawn.
LEMMA AddDrawKeeps ==
  ASSUME ConsoleIInv, NEW t \in Thread, AddDraw(t)
  PROVE  ConsoleIInv'
<1> DEFINE e0 == agenda[t][1].e
<1>1. /\ TypeOK /\ AgendaTyped /\ GameTasks /\ ConsoleTasks /\ LockHeld /\ DeleteHeld
      /\ Ended /\ GhostsBounded /\ NoneForgotten
      /\ Running => Listed /\ MarkerListed /\ Haunted
      /\ agenda \in [Thread -> Seq(Tasks)] /\ todo \in [Thread -> SUBSET Element]
      /\ ghosts \in Nat
  BY ConsoleParts
<1>2. /\ Running /\ agenda[t] # << >> /\ agenda[t][1].op = "add" /\ Of(t) = e0
      /\ Len(agenda[t]) \in Nat /\ Len(agenda[t]) >= 1 /\ agenda[t][1].stage = "draw"
  BY <1>1, AtTaskIs DEF AddDraw
<1>0. e0 \in Element /\ e0 # Loading
  BY <1>1, <1>2, WhoseTasks
<1>3. /\ Finish(t) /\ instance' = instance /\ phase' = phase /\ elements' = elements
      /\ needRedraw' = needRedraw \cup {e0} /\ screen' = screen
      /\ deleteLock' = deleteLock /\ elementsLock' = elementsLock /\ todo' = todo
      /\ cpc' = cpc /\ els' = els /\ events' = events /\ needClear' = needClear
      /\ hovered' = hovered /\ markerCreated' = markerCreated /\ exitFlag' = exitFlag
      /\ bFirstTime' = bFirstTime /\ ghosts' = ghosts
      /\ early' = early
  BY <1>1, <1>2, <1>0 DEF AddDraw, life, lists, locks, work, console, input, past, Stages
<1>4. /\ agenda' \in [Thread -> Seq(Tasks)]
      /\ \A u \in Thread : u # t => agenda'[u] = agenda[u]
  BY <1>1, <1>2, <1>3, Finishes
<1>5. TypeOK' /\ AgendaTyped'
  <2>1. needRedraw' \subseteq Element
    BY <1>0, <1>1, <1>3, ConsoleTypes
  <2> QED
    BY <1>1, <1>3, <1>4, <2>1, ConsoleTypes, ConsoleTypesHold
<1>6. /\ GameTasks' /\ ConsoleTasks' /\ (KeyHeld' <=> KeyHeld) /\ (Deleting' <=> Deleting)
      /\ DrawsLoading' => DrawsLoading
  BY <1>1, <1>2, <1>3, FinishesKeeps
<1>7. LockHeld' /\ DeleteHeld'
  BY <1>1, <1>3, <1>6, LocksKept
<1>8. Ended' /\ GhostsBounded'
  BY <1>1, <1>3 DEF Ended, GhostsBounded
<1>9. Listed'
  <2>1. todo[t] = {}
    BY <1>1, <1>2 DEF Listed, Clearing
  <2>2. TasksListed(t)' /\ Clearing(t)'
    BY <1>1, <1>2, <1>3, <2>1, FinishesListed DEF Listed, ElementListed
  <2>4. cpc' # "paint" => els' = {}
    BY <1>1, <1>2, <1>3 DEF Listed
  <2>5. e0 \in elements \/ e0 = Loading
    BY <1>1, <1>2 DEF Listed, TasksListed, ElementListed
  <2> QED
    BY <1>1, <1>2, <1>3, <1>4, <2>2, <2>4, <2>5, ListedIf
<1>10. MarkerListed'
  BY <1>1, <1>2, <1>3, MarkerFinishes
<1>11. Haunted'
  BY <1>0, <1>1, <1>2, <1>3, <1>6, HauntedKept
<1>12. NoneForgotten'
  <2>1. ASSUME NEW e \in Element, e \in elements', instance, Running,
               \/ e \notin elements
               \/ e \in screen \cup needRedraw \cup els
               \/ \E u \in Thread : WillDraw(u, e)
        PROVE  e \in screen' \cup needRedraw' \cup els' \/ \E u \in Thread : WillDraw(u, e)'
    <3>1. CASE e = e0
      BY <1>3, <2>1, <3>1
    <3>2. ASSUME NEW u \in Thread, WillDraw(u, e), e # e0 PROVE WillDraw(u, e)'
      <4>1. ~HeadDraws(t, e) /\ Then(t, << >>) /\ << >> \in Seq(Tasks)
        BY <1>2, <1>3, <3>2 DEF HeadDraws, Finish
      <4> QED
        BY <1>1, <1>2, <1>3, <3>2, <4>1, StillThen
    <3> QED
      BY <1>3, <2>1, <3>1, <3>2
  <2>2. elements' \subseteq Element
    BY <1>1, <1>3, <1>5, ConsoleTypes DEF TypeOK
  <2>3. NoneForgotten /\ (instance' => instance) /\ (Running' => Running)
    BY <1>1, <1>2, <1>3 DEF Running
  <2> QED
    BY <2>1, <2>2, <2>3, NoneForgottenIf
<1> QED
  BY <1>5, <1>6, <1>7, <1>8, <1>9, <1>10, <1>11, <1>12, ConsoleWhole

\* What has changed its look is to be drawn (CHRenderElement::update).
LEMMA DrawMarkKeeps ==
  ASSUME ConsoleIInv, NEW t \in Thread, DrawMark(t)
  PROVE  ConsoleIInv'
<1> DEFINE e0 == agenda[t][1].e
<1>1. /\ TypeOK /\ AgendaTyped /\ GameTasks /\ ConsoleTasks /\ LockHeld /\ DeleteHeld
      /\ Ended /\ GhostsBounded /\ NoneForgotten
      /\ Running => Listed /\ MarkerListed /\ Haunted
      /\ agenda \in [Thread -> Seq(Tasks)] /\ todo \in [Thread -> SUBSET Element]
      /\ ghosts \in Nat
  BY ConsoleParts
<1>2. /\ Running /\ agenda[t] # << >> /\ agenda[t][1].op = "draw" /\ Of(t) = e0
      /\ Len(agenda[t]) \in Nat /\ Len(agenda[t]) >= 1 /\ agenda[t][1].stage = "use"
  BY <1>1, AtTaskIs DEF DrawMark
<1>0. e0 \in Element \cup {None} /\ (e0 = Loading => DrawsLoading)
  <2>1. e0 \in Element \cup {None}
    BY <1>1, <1>2, WhoseTasks
  <2>2. CASE t = "game"
    BY <1>1, <1>2, <2>2, NamesDiffer DEF GameTasks, OfGame
  <2>3. CASE t = "console"
    <3>1. OfConsole = agenda[t] /\ 1 \in 1 .. Len(OfConsole)
      BY <1>2, <2>3 DEF OfConsole
    <3>2. OfConsole[1].op = "draw" /\ OfConsole[1].e = e0
      BY <1>2, <3>1
    <3> QED
      BY <2>1, <3>1, <3>2 DEF DrawsLoading
  <2> QED
    BY <2>1, <2>2, <2>3 DEF Thread
<1>3. /\ Finish(t) /\ instance' = instance /\ phase' = phase /\ elements' = elements
      /\ needRedraw' = needRedraw \cup ({e0} \ {None})
      /\ screen' = screen /\ deleteLock' = deleteLock /\ elementsLock' = elementsLock
      /\ todo' = todo /\ cpc' = cpc /\ els' = els /\ events' = events
      /\ needClear' = needClear /\ hovered' = hovered /\ markerCreated' = markerCreated
      /\ exitFlag' = exitFlag /\ bFirstTime' = bFirstTime /\ ghosts' = ghosts
      /\ early' = early
  BY <1>1, <1>2, <1>0 DEF DrawMark, life, lists, locks, work, console, input, past, Stages
<1>4. /\ agenda' \in [Thread -> Seq(Tasks)]
      /\ \A u \in Thread : u # t => agenda'[u] = agenda[u]
  BY <1>1, <1>2, <1>3, Finishes
<1>5. TypeOK' /\ AgendaTyped'
  <2>1. needRedraw' \subseteq Element
    BY <1>0, <1>1, <1>3, ConsoleTypes
  <2> QED
    BY <1>1, <1>3, <1>4, <2>1, ConsoleTypes, ConsoleTypesHold
<1>6. /\ GameTasks' /\ ConsoleTasks' /\ (KeyHeld' <=> KeyHeld) /\ (Deleting' <=> Deleting)
      /\ DrawsLoading' => DrawsLoading
  BY <1>1, <1>2, <1>3, FinishesKeeps
<1>7. LockHeld' /\ DeleteHeld'
  BY <1>1, <1>3, <1>6, LocksKept
<1>8. Ended' /\ GhostsBounded'
  BY <1>1, <1>3 DEF Ended, GhostsBounded
<1>9. Listed'
  <2>1. todo[t] = {}
    BY <1>1, <1>2 DEF Listed, Clearing
  <2>2. TasksListed(t)' /\ Clearing(t)'
    BY <1>1, <1>2, <1>3, <2>1, FinishesListed DEF Listed, ElementListed
  <2>4. cpc' # "paint" => els' = {}
    BY <1>1, <1>2, <1>3 DEF Listed
  <2>5. e0 # None => e0 \in elements \/ e0 = Loading
    BY <1>1, <1>2 DEF Listed, TasksListed, ElementListed
  <2> QED
    BY <1>1, <1>2, <1>3, <1>4, <2>2, <2>4, <2>5, ListedIf
<1>10. MarkerListed'
  BY <1>1, <1>2, <1>3, MarkerFinishes
<1>11. Haunted'
  BY <1>0, <1>1, <1>2, <1>3, <1>6, HauntedKept
<1>12. NoneForgotten'
  <2>1. ASSUME NEW e \in Element, e \in elements', instance, Running,
               \/ e \notin elements
               \/ e \in screen \cup needRedraw \cup els
               \/ \E u \in Thread : WillDraw(u, e)
        PROVE  e \in screen' \cup needRedraw' \cup els' \/ \E u \in Thread : WillDraw(u, e)'
    <3>1. CASE e = e0
      BY <1>3, <2>1, <3>1, NamesDiffer
    <3>2. ASSUME NEW u \in Thread, WillDraw(u, e), e # e0 PROVE WillDraw(u, e)'
      <4>1. ~HeadDraws(t, e) /\ Then(t, << >>) /\ << >> \in Seq(Tasks)
        BY <1>2, <1>3, <3>2 DEF HeadDraws, Finish
      <4> QED
        BY <1>1, <1>2, <1>3, <3>2, <4>1, StillThen
    <3> QED
      BY <1>3, <2>1, <3>1, <3>2
  <2>2. elements' \subseteq Element
    BY <1>1, <1>3, <1>5, ConsoleTypes DEF TypeOK
  <2>3. NoneForgotten /\ (instance' => instance) /\ (Running' => Running)
    BY <1>1, <1>2, <1>3 DEF Running
  <2> QED
    BY <2>1, <2>2, <2>3, NoneForgottenIf
<1> QED
  BY <1>5, <1>6, <1>7, <1>8, <1>9, <1>10, <1>11, <1>12, ConsoleWhole

\* The screen is wiped: clear() will have everything drawn.
LEMMA ClearWipeKeeps ==
  ASSUME ConsoleIInv, NEW t \in Thread, ClearWipe(t)
  PROVE  ConsoleIInv'
<1> DEFINE e0 == agenda[t][1].e
<1>1. /\ TypeOK /\ AgendaTyped /\ GameTasks /\ ConsoleTasks /\ LockHeld /\ DeleteHeld
      /\ Ended /\ GhostsBounded /\ NoneForgotten
      /\ Running => Listed /\ MarkerListed /\ Haunted
      /\ agenda \in [Thread -> Seq(Tasks)] /\ todo \in [Thread -> SUBSET Element]
      /\ ghosts \in Nat
  BY ConsoleParts
<1>2. /\ Running /\ agenda[t] # << >> /\ agenda[t][1].op = "clear" /\ Of(t) = e0
      /\ Len(agenda[t]) \in Nat /\ Len(agenda[t]) >= 1 /\ agenda[t][1].stage = "start"
  BY <1>1, AtTaskIs DEF ClearWipe
<1>0. Unlocked(t) = elementsLock
  BY <1>1, <1>2, NothingUnlocked
<1>3. /\ "elements" \in Stages /\ GoOn(t, "elements") /\ instance' = instance
      /\ phase' = phase /\ elements' = elements /\ needRedraw' = needRedraw
      /\ screen' = {} /\ deleteLock' = deleteLock /\ elementsLock' = elementsLock
      /\ todo' = todo /\ cpc' = cpc /\ els' = els /\ events' = events
      /\ needClear' = needClear /\ hovered' = hovered /\ markerCreated' = markerCreated
      /\ exitFlag' = exitFlag /\ bFirstTime' = bFirstTime /\ ghosts' = ghosts
      /\ early' = early
  BY <1>1, <1>2, <1>0 DEF ClearWipe, life, lists, locks, work, console, input, past, Stages
<1>4. /\ agenda' \in [Thread -> Seq(Tasks)]
      /\ \A u \in Thread : u # t => agenda'[u] = agenda[u]
  BY <1>1, <1>2, <1>3, GoesOn
<1>5. TypeOK' /\ AgendaTyped'
  BY <1>1, <1>3, <1>4, ConsoleTypes, ConsoleTypesHold
<1>6. /\ GameTasks' /\ ConsoleTasks' /\ (KeyHeld' <=> KeyHeld) /\ (Deleting' <=> Deleting)
      /\ DrawsLoading' => DrawsLoading
  BY <1>1, <1>2, <1>3, GoesOnKeeps
<1>7. LockHeld' /\ DeleteHeld'
  BY <1>1, <1>3, <1>6, LocksKept
<1>8. Ended' /\ GhostsBounded'
  BY <1>1, <1>3 DEF Ended, GhostsBounded
<1>9. Listed'
  <2>1. todo[t] = {}
    BY <1>1, <1>2 DEF Listed, Clearing
  <2>2. TasksListed(t)'
    BY <1>1, <1>2, <1>3, GoesOnListed DEF Listed, ElementListed
  <2>3. Clearing(t)'
    BY <1>3, <2>1 DEF Clearing
  <2>4. cpc' # "paint" => els' = {}
    BY <1>1, <1>2, <1>3 DEF Listed
  <2> QED
    BY <1>1, <1>2, <1>3, <1>4, <2>2, <2>3, <2>4, ListedIf
<1>10. MarkerListed'
  BY <1>1, <1>2, <1>3, MarkerGoesOn
<1>11. Haunted'
  BY <1>1, <1>2, <1>3, <1>6, HauntedKept
<1>12. NoneForgotten'
  <2>1. ASSUME NEW e \in Element, e \in elements', instance, Running,
               \/ e \notin elements
               \/ e \in screen \cup needRedraw \cup els
               \/ \E u \in Thread : WillDraw(u, e)
        PROVE  e \in screen' \cup needRedraw' \cup els' \/ \E u \in Thread : WillDraw(u, e)'
    <3> QED
      BY <1>1, <1>2, <1>3, HeadDrawsOn
  <2>2. elements' \subseteq Element
    BY <1>1, <1>3, <1>5, ConsoleTypes DEF TypeOK
  <2>3. NoneForgotten /\ (instance' => instance) /\ (Running' => Running)
    BY <1>1, <1>2, <1>3 DEF Running
  <2> QED
    BY <2>1, <2>2, <2>3, NoneForgottenIf
<1> QED
  BY <1>5, <1>6, <1>7, <1>8, <1>9, <1>10, <1>11, <1>12, ConsoleWhole

\* The elements get their sizes, and clear() will go through them.
LEMMA ClearResizeKeeps ==
  ASSUME ConsoleIInv, NEW t \in Thread, ClearResize(t)
  PROVE  ConsoleIInv'
<1> DEFINE e0 == agenda[t][1].e
<1>1. /\ TypeOK /\ AgendaTyped /\ GameTasks /\ ConsoleTasks /\ LockHeld /\ DeleteHeld
      /\ Ended /\ GhostsBounded /\ NoneForgotten
      /\ Running => Listed /\ MarkerListed /\ Haunted
      /\ agenda \in [Thread -> Seq(Tasks)] /\ todo \in [Thread -> SUBSET Element]
      /\ ghosts \in Nat
  BY ConsoleParts
<1>2. /\ Running /\ agenda[t] # << >> /\ agenda[t][1].op = "clear" /\ Of(t) = e0
      /\ Len(agenda[t]) \in Nat /\ Len(agenda[t]) >= 1 /\ agenda[t][1].stage = "elements"
  BY <1>1, AtTaskIs DEF ClearResize
<1>3. /\ "render" \in Stages /\ GoOn(t, "render") /\ instance' = instance
      /\ phase' = phase /\ elements' = elements /\ needRedraw' = needRedraw
      /\ screen' = screen \ elements /\ deleteLock' = deleteLock
      /\ elementsLock' = elementsLock /\ todo' = [todo EXCEPT ![t] = elements]
      /\ cpc' = cpc /\ els' = els /\ events' = events /\ needClear' = needClear
      /\ hovered' = hovered /\ markerCreated' = markerCreated /\ exitFlag' = exitFlag
      /\ bFirstTime' = bFirstTime /\ ghosts' = ghosts
      /\ early' = early
  BY <1>1, <1>2 DEF ClearResize, life, lists, locks, work, console, input, past, Stages
<1>4. /\ agenda' \in [Thread -> Seq(Tasks)]
      /\ \A u \in Thread : u # t => agenda'[u] = agenda[u]
  BY <1>1, <1>2, <1>3, GoesOn
<1>5. TypeOK' /\ AgendaTyped'
  <2>1. screen' \subseteq Element /\ todo' \in [Thread -> SUBSET Element]
    BY <1>1, <1>3, ConsoleTypes
  <2> QED
    BY <1>1, <1>3, <1>4, <2>1, ConsoleTypes, ConsoleTypesHold
<1>6. /\ GameTasks' /\ ConsoleTasks' /\ (KeyHeld' <=> KeyHeld) /\ (Deleting' <=> Deleting)
      /\ DrawsLoading' => DrawsLoading
  BY <1>1, <1>2, <1>3, GoesOnKeeps
<1>7. LockHeld' /\ DeleteHeld'
  BY <1>1, <1>3, <1>6, LocksKept
<1>8. Ended' /\ GhostsBounded'
  BY <1>1, <1>3 DEF Ended, GhostsBounded
<1>9. Listed'
  <2>1. todo'[t] = elements /\ \A u \in Thread : u # t => todo'[u] = todo[u]
    BY <1>1, <1>3
  <2>2. TasksListed(t)'
    BY <1>1, <1>2, <1>3, GoesOnListed DEF Listed, ElementListed
  <2>3. Clearing(t)'
    <3>1. Len(agenda'[t]) >= 1 /\ agenda'[t][1].op = "clear" /\ agenda'[t][1].stage = "render"
      BY <1>1, <1>2, <1>3, GoesOn
    <3> QED
      BY <1>3, <2>1, <3>1 DEF Clearing, ElementListed
  <2>4. cpc' # "paint" => els' = {}
    BY <1>1, <1>2, <1>3 DEF Listed
  <2> QED
    BY <1>1, <1>2, <1>3, <1>4, <2>1, <2>2, <2>3, <2>4, ListedIf
<1>10. MarkerListed'
  BY <1>1, <1>2, <1>3, MarkerGoesOn
<1>11. Haunted'
  <2>1. \A u \in Thread : Loading \in todo'[u] => Loading \in todo[u] \/ Loading \in elements
    BY <1>1, <1>3
  <2> QED
    BY <1>1, <1>2, <1>3, <1>6, <2>1, HauntedKept
<1>12. NoneForgotten'
  <2>1. ASSUME NEW e \in Element, e \in elements', instance, Running,
               \/ e \notin elements
               \/ e \in screen \cup needRedraw \cup els
               \/ \E u \in Thread : WillDraw(u, e)
        PROVE  e \in screen' \cup needRedraw' \cup els' \/ \E u \in Thread : WillDraw(u, e)'
    <3>1. e \in todo'[t]
      BY <1>1, <1>3, <2>1
    <3> QED
      BY <1>1, <1>2, <1>3, <3>1, HeadDrawsOn
  <2>2. elements' \subseteq Element
    BY <1>1, <1>3, <1>5, ConsoleTypes DEF TypeOK
  <2>3. NoneForgotten /\ (instance' => instance) /\ (Running' => Running)
    BY <1>1, <1>2, <1>3 DEF Running
  <2> QED
    BY <2>1, <2>2, <2>3, NoneForgottenIf
<1> QED
  BY <1>5, <1>6, <1>7, <1>8, <1>9, <1>10, <1>11, <1>12, ConsoleWhole

\* clear() has gone through all of them.
LEMMA ClearDrawEnds ==
  ASSUME ConsoleIInv, NEW t \in Thread, ClearDraw(t), todo[t] = {}
  PROVE  ConsoleIInv'
<1> DEFINE e0 == agenda[t][1].e
<1>1. /\ TypeOK /\ AgendaTyped /\ GameTasks /\ ConsoleTasks /\ LockHeld /\ DeleteHeld
      /\ Ended /\ GhostsBounded /\ NoneForgotten
      /\ Running => Listed /\ MarkerListed /\ Haunted
      /\ agenda \in [Thread -> Seq(Tasks)] /\ todo \in [Thread -> SUBSET Element]
      /\ ghosts \in Nat
  BY ConsoleParts
<1>2. /\ Running /\ agenda[t] # << >> /\ agenda[t][1].op = "clear" /\ Of(t) = e0
      /\ Len(agenda[t]) \in Nat /\ Len(agenda[t]) >= 1 /\ agenda[t][1].stage = "render"
  BY <1>1, AtTaskIs DEF ClearDraw
<1>0. Unlocked(t) = elementsLock
  BY <1>1, <1>2, NothingUnlocked
<1>3. /\ Finish(t) /\ instance' = instance /\ phase' = phase /\ elements' = elements
      /\ needRedraw' = needRedraw /\ screen' = screen /\ deleteLock' = deleteLock
      /\ elementsLock' = elementsLock /\ todo' = todo /\ cpc' = cpc /\ els' = els
      /\ events' = events /\ needClear' = needClear /\ hovered' = hovered
      /\ markerCreated' = markerCreated /\ exitFlag' = exitFlag
      /\ bFirstTime' = bFirstTime /\ ghosts' = ghosts
      /\ early' = early
  BY <1>1, <1>2, <1>0 DEF ClearDraw, life, lists, locks, work, console, input, past, Stages
<1>4. /\ agenda' \in [Thread -> Seq(Tasks)]
      /\ \A u \in Thread : u # t => agenda'[u] = agenda[u]
  BY <1>1, <1>2, <1>3, Finishes
<1>5. TypeOK' /\ AgendaTyped'
  BY <1>1, <1>3, <1>4, ConsoleTypes, ConsoleTypesHold
<1>6. /\ GameTasks' /\ ConsoleTasks' /\ (KeyHeld' <=> KeyHeld) /\ (Deleting' <=> Deleting)
      /\ DrawsLoading' => DrawsLoading
  BY <1>1, <1>2, <1>3, FinishesKeeps
<1>7. LockHeld' /\ DeleteHeld'
  BY <1>1, <1>3, <1>6, LocksKept
<1>8. Ended' /\ GhostsBounded'
  BY <1>1, <1>3 DEF Ended, GhostsBounded
<1>9. Listed'
  <2>1. todo[t] = {}
    BY <1>1, <1>2 DEF Listed, Clearing
  <2>2. TasksListed(t)' /\ Clearing(t)'
    BY <1>1, <1>2, <1>3, <2>1, FinishesListed DEF Listed, ElementListed
  <2>4. cpc' # "paint" => els' = {}
    BY <1>1, <1>2, <1>3 DEF Listed
  <2> QED
    BY <1>1, <1>2, <1>3, <1>4, <2>2, <2>4, ListedIf
<1>10. MarkerListed'
  BY <1>1, <1>2, <1>3, MarkerFinishes
<1>11. Haunted'
  BY <1>1, <1>2, <1>3, <1>6, HauntedKept
<1>12. NoneForgotten'
  <2>1. ASSUME NEW e \in Element, e \in elements', instance, Running,
               \/ e \notin elements
               \/ e \in screen \cup needRedraw \cup els
               \/ \E u \in Thread : WillDraw(u, e)
        PROVE  e \in screen' \cup needRedraw' \cup els' \/ \E u \in Thread : WillDraw(u, e)'
    <3>1. ASSUME NEW u \in Thread, WillDraw(u, e) PROVE WillDraw(u, e)'
      <4>1. ~HeadDraws(t, e) /\ Then(t, << >>) /\ << >> \in Seq(Tasks)
        BY <1>2, <1>3 DEF HeadDraws, Finish
      <4> QED
        BY <1>1, <1>2, <1>3, <3>1, <4>1, StillThen
    <3> QED
      BY <1>3, <2>1, <3>1
  <2>2. elements' \subseteq Element
    BY <1>1, <1>3, <1>5, ConsoleTypes DEF TypeOK
  <2>3. NoneForgotten /\ (instance' => instance) /\ (Running' => Running)
    BY <1>1, <1>2, <1>3 DEF Running
  <2> QED
    BY <2>1, <2>2, <2>3, NoneForgottenIf
<1> QED
  BY <1>5, <1>6, <1>7, <1>8, <1>9, <1>10, <1>11, <1>12, ConsoleWhole

\* clear() has one of the elements drawn.
LEMMA ClearDrawGoes ==
  ASSUME ConsoleIInv, NEW t \in Thread, ClearDraw(t), todo[t] # {}
  PROVE  ConsoleIInv'
<1>1. /\ TypeOK /\ AgendaTyped /\ GameTasks /\ ConsoleTasks /\ LockHeld /\ DeleteHeld
      /\ Ended /\ GhostsBounded /\ NoneForgotten
      /\ Running => Listed /\ MarkerListed /\ Haunted
      /\ agenda \in [Thread -> Seq(Tasks)] /\ todo \in [Thread -> SUBSET Element]
      /\ ghosts \in Nat
  BY ConsoleParts
<1>2. /\ Running /\ agenda[t] # << >> /\ agenda[t][1].op = "clear"
      /\ agenda[t][1].stage = "render" /\ Len(agenda[t]) \in Nat /\ Len(agenda[t]) >= 1
  BY <1>1, AtTaskIs DEF ClearDraw
<1>0. PICK x \in todo[t] :
        /\ needRedraw' = needRedraw \cup {x} /\ todo' = [todo EXCEPT ![t] = @ \ {x}]
        /\ elementsLock' = elementsLock /\ agenda' = agenda
  BY DEF ClearDraw
<1>3. /\ instance' = instance /\ phase' = phase /\ elements' = elements
      /\ needRedraw' = needRedraw \cup {x} /\ screen' = screen /\ deleteLock' = deleteLock
      /\ elementsLock' = elementsLock /\ todo' = [todo EXCEPT ![t] = @ \ {x}]
      /\ cpc' = cpc /\ els' = els /\ events' = events /\ needClear' = needClear
      /\ hovered' = hovered /\ markerCreated' = markerCreated /\ exitFlag' = exitFlag
      /\ bFirstTime' = bFirstTime /\ ghosts' = ghosts /\ early' = early
      /\ agenda' = agenda
  BY <1>0 DEF ClearDraw, life, lists, locks, work, console, input, past, Stages
<1>4. /\ todo'[t] = todo[t] \ {x} /\ \A u \in Thread : u # t => todo'[u] = todo[u]
      /\ x \in Element
  BY <1>1, <1>3
<1>5. TypeOK' /\ AgendaTyped'
  <2>1. needRedraw' \subseteq Element /\ todo' \in [Thread -> SUBSET Element]
    BY <1>1, <1>3, <1>4, ConsoleTypes
  <2> QED
    BY <1>1, <1>3, <2>1, ConsoleTypes, ConsoleTypesHold
<1>6. /\ GameTasks' /\ ConsoleTasks' /\ (KeyHeld' <=> KeyHeld) /\ (Deleting' <=> Deleting)
      /\ (DrawsLoading' <=> DrawsLoading)
  BY <1>1, <1>3
     DEF GameTasks, ConsoleTasks, KeyHeld, Deleting, DrawsLoading, OfGame, OfConsole
<1>7. LockHeld' /\ DeleteHeld'
  BY <1>1, <1>3, <1>6, LocksKept
<1>8. Ended' /\ GhostsBounded'
  BY <1>1, <1>3 DEF Ended, GhostsBounded
<1>9. Listed'
  <2>1. x \in elements \/ x = Loading
    BY <1>1, <1>2 DEF Listed, Clearing, ElementListed
  <2>2. TasksListed(t)'
    BY <1>1, <1>2, <1>3 DEF Listed, TasksListed, ElementListed
  <2>3. Clearing(t)'
    BY <1>1, <1>2, <1>3, <1>4 DEF Listed, Clearing, ElementListed
  <2>4. cpc' # "paint" => els' = {}
    BY <1>1, <1>2, <1>3 DEF Listed
  <2> QED
    BY <1>1, <1>2, <1>3, <1>4, <2>1, <2>2, <2>3, <2>4, ListedIf
<1>10. MarkerListed'
  BY <1>1, <1>2, <1>3 DEF MarkerListed, OfConsole
<1>11. Haunted'
  <2>1. Loading \notin elements => x # Loading
    BY <1>1, <1>2 DEF Haunted
  <2> QED
    BY <1>1, <1>2, <1>3, <1>4, <1>6, <2>1, HauntedKept
<1>12. NoneForgotten'
  <2>1. ASSUME NEW e \in Element, e \in elements', instance, Running,
               \/ e \notin elements
               \/ e \in screen \cup needRedraw \cup els
               \/ \E u \in Thread : WillDraw(u, e)
        PROVE  e \in screen' \cup needRedraw' \cup els' \/ \E u \in Thread : WillDraw(u, e)'
    <3>1. ASSUME NEW u \in Thread, WillDraw(u, e), e # x PROVE WillDraw(u, e)'
      <4>1. e \in todo[u] => e \in todo'[u]
        BY <1>4, <3>1
      <4>2. \A i \in DOMAIN agenda[u] : i \in DOMAIN agenda'[u] /\ agenda'[u][i] = agenda[u][i]
        BY <1>3
      <4>3. PICK i \in DOMAIN agenda[u] :
              LET k == agenda[u][i]
              IN  \/ k.op \in {"add", "draw"} /\ k.e = e
                  \/ k.op = "clear" /\ (k.stage = "render" => e \in todo[u])
        BY <3>1 DEF WillDraw
      <4> QED
        BY <4>1, <4>2, <4>3 DEF WillDraw
    <3>2. e # x \/ e \in needRedraw'
      BY <1>3
    <3> QED
      BY <1>3, <2>1, <3>1, <3>2
  <2>2. elements' \subseteq Element
    BY <1>1, <1>3, <1>5, ConsoleTypes DEF TypeOK
  <2>3. NoneForgotten /\ (instance' => instance) /\ (Running' => Running)
    BY <1>1, <1>2, <1>3 DEF Running
  <2> QED
    BY <2>1, <2>2, <2>3, NoneForgottenIf
<1> QED
  BY <1>5, <1>6, <1>7, <1>8, <1>9, <1>10, <1>11, <1>12, ConsoleWhole

\* The lock of the deletion is taken.
LEMMA DelLockKeeps ==
  ASSUME ConsoleIInv, DelLock("game")
  PROVE  ConsoleIInv'
<1>1. /\ TypeOK /\ AgendaTyped /\ GameTasks /\ ConsoleTasks /\ LockHeld /\ DeleteHeld
      /\ Ended /\ GhostsBounded /\ NoneForgotten
      /\ Running => Listed /\ MarkerListed /\ Haunted
      /\ agenda \in [Thread -> Seq(Tasks)] /\ todo \in [Thread -> SUBSET Element]
      /\ ghosts \in Nat
  BY ConsoleParts
<1>2. /\ Running /\ agenda["game"] # << >> /\ agenda["game"][1].op = "del"
      /\ agenda["game"][1].stage = "start"
      /\ Len(agenda["game"]) \in Nat /\ Len(agenda["game"]) >= 1 /\ "game" \in Thread
  BY <1>1, AtTaskIs DEF DelLock, Thread
<1>3. /\ "erase" \in Stages /\ GoOn("game", "erase") /\ deleteLock = None
      /\ instance' = instance /\ phase' = phase /\ elements' = elements
      /\ needRedraw' = needRedraw /\ screen' = screen /\ deleteLock' = "game"
      /\ elementsLock' = elementsLock /\ todo' = todo /\ cpc' = cpc /\ els' = els
      /\ events' = events /\ needClear' = needClear /\ hovered' = hovered
      /\ markerCreated' = markerCreated /\ exitFlag' = exitFlag
      /\ bFirstTime' = bFirstTime /\ ghosts' = ghosts
      /\ early' = early
  BY DEF DelLock, life, lists, locks, work, console, input, past, Stages
<1>4. /\ agenda' \in [Thread -> Seq(Tasks)] /\ OfConsole' = OfConsole
      /\ OfGame = agenda["game"] /\ OfGame' = agenda'["game"]
      /\ \A u \in Thread : u # "game" => agenda'[u] = agenda[u]
      /\ Len(OfGame') = Len(OfGame) /\ OfGame'[1].op = "del" /\ OfGame'[1].e = OfGame[1].e
      /\ OfGame'[1].stage = "erase" /\ \A i \in 2 .. Len(OfGame) : OfGame'[i] = OfGame[i]
  BY <1>1, <1>2, <1>3, GoesOn DEF OfConsole, OfGame, Thread
<1>5. TypeOK' /\ AgendaTyped'
  <2>1. deleteLock' \in Thread \cup {None}
    BY <1>2, <1>3
  <2>2. /\ agenda' \in [Thread -> Seq(Tasks)] /\ todo' \in [Thread -> SUBSET Element]
        /\ TypeOK /\ AgendaTyped
    BY <1>1, <1>3, <1>4
  <2> QED
    BY <1>3, <2>1, <2>2, ConsoleTypes, ConsoleTypesHold
<1>6. /\ GameTasks' /\ ConsoleTasks' /\ (KeyHeld' <=> KeyHeld) /\ Deleting'
      /\ (DrawsLoading' <=> DrawsLoading)
  <2>1. GameTasks'
    <3>1. OfGame[1].e = Loading /\ Len(OfGame) \in Nat
      BY <1>1, <1>2, <1>4 DEF GameTasks
    <3>2. \A i \in 1 .. Len(OfGame') :
            /\ OfGame'[i].op \in {"add", "del", "draw", "clear", "timer"}
            /\ OfGame'[i].op \in {"add", "draw"} => OfGame'[i].e \in Controls
            /\ OfGame'[i].op = "del" => OfGame'[i].e = Loading
      <4> SUFFICES ASSUME NEW i \in 1 .. Len(OfGame')
                   PROVE  /\ OfGame'[i].op \in {"add", "del", "draw", "clear", "timer"}
                          /\ OfGame'[i].op \in {"add", "draw"} => OfGame'[i].e \in Controls
                          /\ OfGame'[i].op = "del" => OfGame'[i].e = Loading
        OBVIOUS
      <4>1. CASE i = 1
        BY <1>4, <3>1, <4>1
      <4>2. CASE i # 1
        <5>1. i \in 1 .. Len(OfGame) /\ i \in 2 .. Len(OfGame)
          BY <1>4, <3>1, <4>2
        <5>2. OfGame'[i] = OfGame[i]
          BY <1>4, <5>1
        <5> QED
          BY <1>1, <5>1, <5>2 DEF GameTasks
      <4> QED
        BY <4>1, <4>2
    <3>3. \A i \in 2 .. Len(OfGame') :
            OfGame'[i].op \in {"add", "del"} /\ OfGame'[i].stage = "start"
      BY <1>1, <1>4 DEF GameTasks
    <3> QED
      BY <3>2, <3>3 DEF GameTasks
  <2>2. ConsoleTasks' /\ (KeyHeld' <=> KeyHeld) /\ (DrawsLoading' <=> DrawsLoading)
    BY <1>1, <1>3, <1>4 DEF ConsoleTasks, KeyHeld, DrawsLoading
  <2>3. Deleting'
    BY <1>2, <1>4 DEF Deleting
  <2> QED
    BY <2>1, <2>2, <2>3
<1>7. LockHeld' /\ DeleteHeld'
  <2>1. cpc # "paint"
    BY <1>1, <1>3, NamesDiffer DEF DeleteHeld
  <2>2. DeleteHeld'
    BY <1>3, <1>6, <2>1 DEF DeleteHeld
  <2>3. LockHeld'
    BY <1>1, <1>3, <1>6 DEF LockHeld
  <2> QED
    BY <2>2, <2>3
<1>8. Ended' /\ GhostsBounded'
  BY <1>1, <1>3 DEF Ended, GhostsBounded
<1>9. Listed'
  <2>1. todo["game"] = {}
    BY <1>1, <1>2 DEF Listed, Clearing
  <2>2. TasksListed("game")'
    BY <1>1, <1>2, <1>3, GoesOnListed DEF Listed, ElementListed
  <2>3. Clearing("game")'
    BY <1>3, <2>1 DEF Clearing
  <2>4. cpc' # "paint" => els' = {}
    BY <1>1, <1>2, <1>3 DEF Listed
  <2> QED
    BY <1>1, <1>2, <1>3, <1>4, <2>2, <2>3, <2>4, ListedIf
<1>10. MarkerListed'
  BY <1>1, <1>2, <1>3, MarkerGoesOn
<1>11. Haunted'
  BY <1>1, <1>2, <1>3, <1>6, HauntedKept
<1>12. NoneForgotten'
  <2>1. ASSUME NEW e \in Element, e \in elements', instance, Running,
               \/ e \notin elements
               \/ e \in screen \cup needRedraw \cup els
               \/ \E u \in Thread : WillDraw(u, e)
        PROVE  e \in screen' \cup needRedraw' \cup els' \/ \E u \in Thread : WillDraw(u, e)'
    <3>1. CASE \E u \in Thread : WillDraw(u, e)
      BY <1>1, <1>2, <1>3, <3>1, StillOn
    <3> QED
      BY <1>3, <2>1, <3>1
  <2>2. elements' \subseteq Element
    BY <1>1, <1>3, <1>5, ConsoleTypes DEF TypeOK
  <2>3. NoneForgotten /\ (instance' => instance) /\ (Running' => Running)
    BY <1>1, <1>2, <1>3 DEF Running
  <2> QED
    BY <2>1, <2>2, <2>3, NoneForgottenIf
<1> QED
  BY <1>5, <1>6, <1>7, <1>8, <1>9, <1>10, <1>11, <1>12, ConsoleWhole

\* The title is taken out of the list while no element is painted, and clear() follows.
LEMMA DelEraseKeeps ==
  ASSUME ConsoleIInv, NEW t \in Thread, DelErase(t)
  PROVE  ConsoleIInv'
<1>1. /\ TypeOK /\ AgendaTyped /\ GameTasks /\ ConsoleTasks /\ LockHeld /\ DeleteHeld
      /\ Ended /\ GhostsBounded /\ NoneForgotten
      /\ Running => Listed /\ MarkerListed /\ Haunted
      /\ agenda \in [Thread -> Seq(Tasks)] /\ todo \in [Thread -> SUBSET Element]
      /\ ghosts \in Nat
  BY ConsoleParts
<1>2. /\ Running /\ agenda[t] # << >> /\ agenda[t][1].op = "del"
      /\ agenda[t][1].stage = "erase" /\ Of(t) = Loading
      /\ Len(agenda[t]) \in Nat /\ Len(agenda[t]) >= 1 /\ t = "game" /\ "game" \in Thread
  BY <1>1, AtTaskIs, WhoseTasks DEF DelErase, Thread
<1>3. /\ Then("game", <<Clear>>) /\ phase' = IF InClear("console") THEN "torn" ELSE phase
      /\ instance' = instance /\ elements' = elements \ {Loading}
      /\ needRedraw' = needRedraw /\ screen' = screen \ {Loading} /\ deleteLock' = None
      /\ elementsLock' = elementsLock /\ todo' = todo /\ cpc' = cpc /\ els' = els
      /\ events' = events /\ needClear' = needClear /\ hovered' = hovered
      /\ markerCreated' = markerCreated /\ exitFlag' = exitFlag
      /\ bFirstTime' = bFirstTime /\ ghosts' = ghosts
      /\ early' = early
  BY <1>2 DEF DelErase, Changed, Other, life, lists, locks, work, console, input, past, Stages
<1>4. /\ agenda' \in [Thread -> Seq(Tasks)] /\ OfConsole' = OfConsole
      /\ OfGame = agenda["game"] /\ OfGame' = agenda'["game"]
      /\ \A u \in Thread : u # "game" => agenda'[u] = agenda[u]
      /\ Len(OfGame') = Len(OfGame) /\ OfGame'[1] = Clear
      /\ \A i \in 2 .. Len(OfGame) : OfGame'[i] = OfGame[i]
  <2>1. <<Clear>> \in Seq(Tasks) /\ Len(<<Clear>>) = 1 /\ <<Clear>>[1] = Clear
    <3>1. Clear \in Tasks
      BY DEF Clear, Task, Tasks, Operations, Stages
    <3> QED
      BY <3>1
  <2>2. PICK b : b = <<Clear>>
    OBVIOUS
  <2>3. /\ agenda' \in [Thread -> Seq(Tasks)]
        /\ Len(agenda'["game"]) = 1 + Len(agenda["game"]) - 1
        /\ \A i \in 1 .. 1 : agenda'["game"][i] = b[i]
        /\ \A i \in 2 .. Len(agenda["game"]) : agenda'["game"][1 + i - 1] = agenda["game"][i]
        /\ \A u \in Thread : u # "game" => agenda'[u] = agenda[u]
    <3>1. b \in Seq(Tasks) /\ Len(b) = 1 /\ Then("game", b)
      BY <1>3, <2>1, <2>2
    <3>2. /\ agenda' \in [Thread -> Seq(Tasks)]
          /\ Len(agenda'["game"]) = Len(b) + Len(agenda["game"]) - 1
          /\ \A i \in 1 .. Len(b) : agenda'["game"][i] = b[i]
          /\ \A i \in 2 .. Len(agenda["game"]) :
               agenda'["game"][Len(b) + i - 1] = agenda["game"][i]
          /\ \A u \in Thread : u # "game" => agenda'[u] = agenda[u]
      BY <1>1, <1>2, <3>1, Becomes
    <3> QED
      BY <3>1, <3>2
  <2>4. /\ Len(agenda'["game"]) = Len(agenda["game"]) /\ agenda'["game"][1] = Clear
        /\ \A i \in 2 .. Len(agenda["game"]) : agenda'["game"][i] = agenda["game"][i]
    <3>1. Len(agenda'["game"]) = Len(agenda["game"])
      BY <1>2, <2>3
    <3>2. agenda'["game"][1] = Clear
      <4>1. 1 \in 1 .. 1
        OBVIOUS
      <4> QED
        BY <2>2, <2>3, <4>1
    <3>3. ASSUME NEW i \in 2 .. Len(agenda["game"])
          PROVE  agenda'["game"][i] = agenda["game"][i]
      <4>1. 1 + i - 1 = i
        OBVIOUS
      <4> QED
        BY <2>3, <4>1
    <3> QED
      BY <3>1, <3>2, <3>3
  <2> QED
    BY <2>3, <2>4 DEF OfConsole, OfGame, Thread
<1>5. TypeOK' /\ AgendaTyped'
  <2>1. /\ elements' \subseteq Element /\ screen' \subseteq Element
        /\ deleteLock' \in Thread \cup {None}
    BY <1>1, <1>3, ConsoleTypes
  <2>2. phase' \in {"up", "leaving", "freed", "exited", "torn", "crashed"}
    BY <1>1, <1>3, ConsoleTypes
  <2>3. /\ agenda' \in [Thread -> Seq(Tasks)] /\ todo' \in [Thread -> SUBSET Element]
        /\ TypeOK /\ AgendaTyped
    BY <1>1, <1>3, <1>4
  <2> QED
    BY <1>3, <2>1, <2>2, <2>3, ConsoleTypes, ConsoleTypesHold
<1>6. /\ GameTasks' /\ ConsoleTasks' /\ (KeyHeld' <=> KeyHeld) /\ ~Deleting' /\ Deleting
      /\ (DrawsLoading' <=> DrawsLoading)
  <2>1. GameTasks'
    <3>1. OfGame'[1].op = "clear" /\ Len(OfGame) \in Nat
      BY <1>2, <1>4 DEF Clear, Task
    <3>2. \A i \in 1 .. Len(OfGame') :
            /\ OfGame'[i].op \in {"add", "del", "draw", "clear", "timer"}
            /\ OfGame'[i].op \in {"add", "draw"} => OfGame'[i].e \in Controls
            /\ OfGame'[i].op = "del" => OfGame'[i].e = Loading
      <4> SUFFICES ASSUME NEW i \in 1 .. Len(OfGame')
                   PROVE  /\ OfGame'[i].op \in {"add", "del", "draw", "clear", "timer"}
                          /\ OfGame'[i].op \in {"add", "draw"} => OfGame'[i].e \in Controls
                          /\ OfGame'[i].op = "del" => OfGame'[i].e = Loading
        OBVIOUS
      <4>1. CASE i = 1
        BY <3>1, <4>1
      <4>2. CASE i # 1
        <5>1. i \in 1 .. Len(OfGame) /\ i \in 2 .. Len(OfGame)
          BY <1>4, <3>1, <4>2
        <5>2. OfGame'[i] = OfGame[i]
          BY <1>4, <5>1
        <5> QED
          BY <1>1, <5>1, <5>2 DEF GameTasks
      <4> QED
        BY <4>1, <4>2
    <3>3. \A i \in 2 .. Len(OfGame') :
            OfGame'[i].op \in {"add", "del"} /\ OfGame'[i].stage = "start"
      BY <1>1, <1>4 DEF GameTasks
    <3> QED
      BY <3>2, <3>3 DEF GameTasks
  <2>2. ConsoleTasks' /\ (KeyHeld' <=> KeyHeld) /\ (DrawsLoading' <=> DrawsLoading)
    BY <1>1, <1>3, <1>4 DEF ConsoleTasks, KeyHeld, DrawsLoading
  <2>3. ~Deleting' /\ Deleting
    BY <1>2, <1>4 DEF Deleting, Clear, Task
  <2> QED
    BY <2>1, <2>2, <2>3
<1>7. LockHeld' /\ DeleteHeld' /\ cpc # "paint"
  <2>1. cpc # "paint"
    BY <1>1, <1>6 DEF DeleteHeld
  <2>2. DeleteHeld'
    BY <1>3, <1>6, <2>1 DEF DeleteHeld
  <2>3. LockHeld'
    BY <1>1, <1>3, <1>6 DEF LockHeld
  <2> QED
    BY <2>1, <2>2, <2>3
<1>8. Ended' /\ GhostsBounded'
  BY <1>1, <1>3 DEF Ended, GhostsBounded
<1>9. Listed'
  <2>1. todo["game"] = {}
    BY <1>1, <1>2 DEF Listed, Clearing
  <2>2. TasksListed("game")'
    <3>1. \A i \in 1 .. Len(OfGame') : i = 1 \/ i \in 2 .. Len(OfGame)
      BY <1>2, <1>4
    <3>2. \A i \in 1 .. Len(agenda'["game"]) :
            agenda'["game"][i].op # "draw"
              /\ (agenda'["game"][i].op = "add" => agenda'["game"][i].stage = "start")
      <4>1. OfGame'[1].op = "clear"
        BY <1>4 DEF Clear, Task
      <4>2. \A i \in 2 .. Len(OfGame) : OfGame'[i].op # "draw" /\ OfGame'[i].stage = "start"
        <5>1. \A i \in 2 .. Len(OfGame) :
                OfGame[i].op \in {"add", "del"} /\ OfGame[i].stage = "start"
          BY <1>1 DEF GameTasks
        <5>2. \A i \in 2 .. Len(OfGame) : OfGame'[i] = OfGame[i]
          BY <1>4
        <5> QED
          BY ONLY <5>1, <5>2
      <4> QED
        BY <1>4, <3>1, <4>1, <4>2
    <3> QED
      BY <3>2 DEF TasksListed
  <2>3. Clearing("game")'
    BY <1>3, <2>1 DEF Clearing
  <2>4. cpc' # "paint" => els' = {}
    BY <1>1, <1>2, <1>3 DEF Listed
  <2> QED
    BY <1>1, <1>2, <1>3, <1>4, <2>2, <2>3, <2>4, ListedIf
<1>10. MarkerListed'
  BY <1>1, <1>2, <1>3, <1>4, NamesDiffer DEF MarkerListed
<1>11. Running' => Haunted'
  <2>1. CASE Loading \notin elements
    BY <1>1, <1>2, <1>3, <1>6, <2>1, HauntedKept
  <2>2. CASE Loading \in elements /\ Running'
    <3>1. Listed /\ Haunted
      BY <1>1, <1>2
    <3>2. ghosts' = 0 /\ Loading \notin els' /\ Loading \notin elements'
      BY <1>3, <1>7, <2>2, <3>1 DEF Listed, Haunted
    <3>3. /\ Once(Loading \in needRedraw' \/ DrawsLoading') \in 0 .. 1
          /\ Once(hovered' = Loading) \in 0 .. 1
      BY DEF Once
    <3>4. ghosts' + Haunting' <= 2
      <4>1. Once(Loading \in els') = 0
        BY <3>2 DEF Once
      <4> QED
        BY <3>2, <3>3, <4>1 DEF Haunting
    <3>5. ~InClear("console")
      BY <1>3, <2>2 DEF Running
    <3>6. todo["console"] = {}
      <4>1. Clearing("console") /\ "console" \in Thread
        BY <3>1 DEF Listed, Thread
      <4>2. Len(agenda["console"]) >= 1 =>
              agenda["console"] # << >> /\ Head(agenda["console"]) = agenda["console"][1]
        BY <1>1, <4>1, TasksAre
      <4> QED
        BY <3>5, <4>1, <4>2 DEF Clearing, InClear
    <3>7. todo["game"] = {}
      BY <1>2, <3>1 DEF Listed, Clearing
    <3> QED
      BY <1>3, <3>2, <3>4, <3>6, <3>7 DEF Haunted, Thread
  <2> QED
    BY <2>1, <2>2
<1>12. NoneForgotten'
  <2>1. ASSUME NEW e \in Element, e \in elements', instance, Running,
               \/ e \notin elements
               \/ e \in screen \cup needRedraw \cup els
               \/ \E u \in Thread : WillDraw(u, e)
        PROVE  e \in screen' \cup needRedraw' \cup els' \/ \E u \in Thread : WillDraw(u, e)'
    <3>1. PICK b : b = <<Clear>>
      OBVIOUS
    <3>2. b \in Seq(Tasks) /\ 1 \in 1 .. Len(b) /\ b[1] = Clear /\ Then("game", b)
      <4>1. Clear \in Tasks
        BY DEF Clear, Task, Tasks, Operations, Stages
      <4> QED
        BY <1>3, <3>1, <4>1
    <3>3. WillDraw("game", e)'
      BY <1>1, <1>2, <3>2, NewDraws
    <3> QED
      BY <1>2, <3>3
  <2>2. elements' \subseteq Element
    BY <1>1, <1>3, <1>5, ConsoleTypes DEF TypeOK
  <2>3. NoneForgotten /\ (instance' => instance) /\ (Running' => Running)
    BY <1>1, <1>2, <1>3 DEF Running
  <2> QED
    BY <2>1, <2>2, <2>3, NoneForgottenIf
<1> QED
  BY <1>5, <1>6, <1>7, <1>8, <1>9, <1>10, <1>11, <1>12, ConsoleWhole

-----------------------------------------------------------------------------
(* The steps of the mouse and the keys.                                     *)

\* A step has led to other tasks, and nothing was to follow it.
LEMMA Replaces ==
  ASSUME AgendaTyped, NEW t \in Thread, NEW b \in Seq(Tasks), Len(agenda[t]) = 1,
         Then(t, b)
  PROVE  /\ agenda' \in [Thread -> Seq(Tasks)] /\ agenda'[t] = b
         /\ \A u \in Thread : u # t => agenda'[u] = agenda[u]
<1>1. agenda[t] \in Seq(Tasks) /\ agenda[t] # << >>
  <2>1. Len(agenda[t]) >= 1
    OBVIOUS
  <2> QED
    BY <2>1, TasksAre
<1>2. Tail(agenda[t]) = << >>
  <2>1. Tail(agenda[t]) \in Seq(Tasks) /\ Len(Tail(agenda[t])) = 0
    BY <1>1, HeadTailProperties
  <2> QED
    BY <2>1, EmptySeq
<1>3. b \o << >> = b
  BY ConcatEmptySeq
<1>4. agenda' = [agenda EXCEPT ![t] = b]
  BY <1>2, <1>3 DEF Then
<1> QED
  BY <1>4 DEF AgendaTyped

\* What the mouse leaves or enters is drawn.
LEMMA DrawnIs ==
  ASSUME NEW e \in Element \cup {None}
  PROVE  /\ Drawn(e) \in Seq(Tasks) /\ Len(Drawn(e)) \in 0 .. 1
         /\ \A i \in 1 .. Len(Drawn(e)) :
              /\ Drawn(e)[i].op = "draw" /\ Drawn(e)[i].stage = "start"
              /\ Drawn(e)[i].e = e /\ e # None
<1>1. /\ Draw(e) \in Tasks /\ Draw(e).op = "draw" /\ Draw(e).stage = "start"
      /\ Draw(e).e = e
  BY DEF Draw, Task, Tasks, Operations, Stages
<1>2. CASE e = None
  BY <1>2 DEF Drawn
<1>3. CASE e # None
  <2>1. PICK k : k = Draw(e)
    OBVIOUS
  <2>2. Drawn(e) = <<k>> /\ k \in Tasks
    BY <1>1, <1>3, <2>1 DEF Drawn
  <2>3. <<k>> \in Seq(Tasks) /\ Len(<<k>>) = 1 /\ <<k>>[1] = k
    BY <2>2
  <2>4. \A i \in 1 .. 1 : i = 1
    OBVIOUS
  <2> QED
    BY <1>1, <1>3, <2>1, <2>2, <2>3, <2>4
<1> QED
  BY <1>2, <1>3

\* Both of them, the one that is left first.
LEMMA FocusIs ==
  ASSUME hovered \in Element \cup {None}, NEW found \in Element \cup {None}
  PROVE  /\ Focus(found) \in Seq(Tasks) /\ Len(Focus(found)) \in 0 .. 2
         /\ \A i \in 1 .. Len(Focus(found)) :
              /\ Focus(found)[i].op = "draw" /\ Focus(found)[i].stage = "start"
              /\ Focus(found)[i].e \in {hovered, found} /\ Focus(found)[i].e # None
<1>1. CASE found = hovered
  BY <1>1 DEF Focus
<1>2. CASE found # hovered
  <2>1. PICK h : h = Drawn(hovered)
    OBVIOUS
  <2>2. PICK f : f = Drawn(found)
    OBVIOUS
  <2>3. /\ h \in Seq(Tasks) /\ Len(h) \in 0 .. 1
        /\ \A i \in 1 .. Len(h) :
             h[i].op = "draw" /\ h[i].stage = "start" /\ h[i].e = hovered /\ hovered # None
    BY <2>1, DrawnIs
  <2>4. /\ f \in Seq(Tasks) /\ Len(f) \in 0 .. 1
        /\ \A i \in 1 .. Len(f) :
             f[i].op = "draw" /\ f[i].stage = "start" /\ f[i].e = found /\ found # None
    BY <2>2, DrawnIs
  <2>5. /\ h \o f \in Seq(Tasks) /\ Len(h \o f) = Len(h) + Len(f)
        /\ \A i \in 1 .. Len(h) + Len(f) :
             (h \o f)[i] = IF i <= Len(h) THEN h[i] ELSE f[i - Len(h)]
    BY <2>3, <2>4, ConcatProperties
  <2>6. ASSUME NEW i \in 1 .. Len(h) + Len(f)
        PROVE  /\ (h \o f)[i].op = "draw" /\ (h \o f)[i].stage = "start"
               /\ (h \o f)[i].e \in {hovered, found} /\ (h \o f)[i].e # None
    <3>1. CASE i <= Len(h)
      <4>1. i \in 1 .. Len(h)
        BY <2>3, <3>1
      <4> QED
        BY <2>3, <2>5, <3>1, <4>1
    <3>2. CASE ~(i <= Len(h))
      <4>1. i - Len(h) \in 1 .. Len(f)
        BY <2>3, <2>4, <3>2
      <4> QED
        BY <2>4, <2>5, <3>2, <4>1
    <3> QED
      BY <3>1, <3>2
  <2>7. Focus(found) = h \o f
    BY <1>2, <2>1, <2>2 DEF Focus
  <2> QED
    BY <2>3, <2>4, <2>5, <2>6, <2>7
<1> QED
  BY <1>1, <1>2

\* A click on a menu follows.
LEMMA MouseIs ==
  ASSUME hovered \in Element \cup {None}, NEW found \in Element \cup {None},
         NEW clicks \in {<< >>, <<Task("click", found)>>},
         NEW b, b = Focus(found) \o clicks
  PROVE  MouseTasks(b, found)
<1>1. PICK f : f = Focus(found)
  OBVIOUS
<1>2. /\ f \in Seq(Tasks) /\ Len(f) \in 0 .. 2
      /\ \A i \in 1 .. Len(f) :
           /\ f[i].op = "draw" /\ f[i].stage = "start"
           /\ f[i].e \in {hovered, found} /\ f[i].e # None
  BY <1>1, FocusIs
<1>3. /\ clicks \in Seq(Tasks) /\ Len(clicks) \in 0 .. 1
      /\ \A i \in 1 .. Len(clicks) : clicks[i].op = "click" /\ clicks[i].stage = "start"
  <2>1. PICK c : c = Task("click", found)
    OBVIOUS
  <2>2. c \in Tasks /\ c.op = "click" /\ c.stage = "start"
    BY <2>1 DEF Task, Tasks, Operations, Stages
  <2>3. clicks \in {<< >>, <<c>>}
    BY <2>1
  <2>4. CASE clicks = << >>
    BY <2>4
  <2>5. CASE clicks = <<c>>
    BY <2>2, <2>5
  <2> QED
    BY <2>3, <2>4, <2>5
<1>4. /\ b \in Seq(Tasks) /\ Len(b) = Len(f) + Len(clicks)
      /\ \A i \in 1 .. Len(f) + Len(clicks) :
           b[i] = IF i <= Len(f) THEN f[i] ELSE clicks[i - Len(f)]
  BY <1>1, <1>2, <1>3, ConcatProperties
<1>5. ASSUME NEW i \in 1 .. Len(b)
      PROVE  /\ b[i].stage = "start" /\ b[i].op \in {"draw", "click"}
             /\ b[i].op = "draw" => b[i].e \in {hovered, found} /\ b[i].e # None
             /\ b[i].op = "click" => i = Len(b)
             /\ i = 3 => b[i].op = "click"
  <2>1. CASE i <= Len(f)
    <3>1. i \in 1 .. Len(f) /\ i # 3 /\ b[i] = f[i]
      BY <1>2, <1>3, <1>4, <2>1
    <3> QED
      BY <1>2, <3>1
  <2>2. CASE ~(i <= Len(f))
    <3>1. i - Len(f) \in 1 .. Len(clicks) /\ i = Len(b) /\ b[i] = clicks[i - Len(f)]
      BY <1>2, <1>3, <1>4, <2>2
    <3> QED
      BY <1>3, <3>1
  <2> QED
    BY <2>1, <2>2
<1>6. Len(b) \in 0 .. 3
  BY ONLY <1>2, <1>3, <1>4
<1> QED
  BY <1>4, <1>5, <1>6 DEF MouseTasks

\* The mouse is on an element, or on none.
LEMMA FindKeeps ==
  ASSUME ConsoleIInv, NEW t \in Thread, Find(t)
  PROVE  ConsoleIInv'
<1>1. /\ TypeOK /\ AgendaTyped /\ GameTasks /\ ConsoleTasks /\ LockHeld /\ DeleteHeld
      /\ Ended /\ GhostsBounded /\ NoneForgotten
      /\ Running => Listed /\ MarkerListed /\ Haunted
      /\ agenda \in [Thread -> Seq(Tasks)] /\ todo \in [Thread -> SUBSET Element]
      /\ ghosts \in Nat
  BY ConsoleParts
<1>2. /\ Running /\ agenda[t] # << >> /\ agenda[t][1].op = "find" /\ Len(agenda[t]) = 1
      /\ t = "console" /\ "console" \in Thread /\ 1 \in 1 .. 1
  BY <1>1, AtTaskIs, WhoseTasks DEF Find, Thread
<1>0. PICK found \in elements \cup {None} :
        /\ hovered' = found
        /\ \E clicks \in {<< >>} \cup {<<Task("click", found)>> : f \in {found} \cap Controls} :
             Then(t, Focus(found) \o clicks)
  BY DEF Find
<1>a. PICK clicks \in {<< >>} \cup {<<Task("click", found)>> : f \in {found} \cap Controls} :
        Then(t, Focus(found) \o clicks)
  BY <1>0
<1>b. PICK b : b = Focus(found) \o clicks
  OBVIOUS
<1>c. found \in Element \cup {None} /\ hovered \in Element \cup {None}
  BY <1>1, ConsoleTypes
<1>d. /\ b \in Seq(Tasks) /\ Len(b) \in 0 .. 3
      /\ \A i \in 1 .. Len(b) :
           /\ b[i].stage = "start" /\ b[i].op \in {"draw", "click"}
           /\ b[i].op = "draw" => b[i].e \in {hovered, found} /\ b[i].e # None
           /\ b[i].op = "click" => i = Len(b)
           /\ i = 3 => b[i].op = "click"
  <2>1. clicks \in {<< >>, <<Task("click", found)>>}
    BY <1>a
  <2>2. MouseTasks(b, found)
    BY <1>b, <1>c, <2>1, MouseIs
  <2> QED
    BY <2>2 DEF MouseTasks
<1>3. /\ Then("console", b) /\ instance' = instance /\ phase' = phase
      /\ elements' = elements /\ needRedraw' = needRedraw /\ screen' = screen
      /\ deleteLock' = deleteLock /\ elementsLock' = elementsLock /\ todo' = todo
      /\ cpc' = cpc /\ els' = els /\ events' = events /\ needClear' = needClear
      /\ hovered' = found /\ markerCreated' = markerCreated /\ exitFlag' = exitFlag
      /\ bFirstTime' = bFirstTime /\ ghosts' = ghosts
      /\ early' = early
  BY <1>0, <1>a, <1>b, <1>2 DEF Find, life, lists, locks, work, console, input, past, Stages
<1>4. /\ agenda' \in [Thread -> Seq(Tasks)] /\ agenda'["console"] = b
      /\ OfConsole = agenda["console"] /\ OfConsole' = b /\ OfGame' = OfGame
      /\ \A u \in Thread : u # "console" => agenda'[u] = agenda[u]
  BY <1>1, <1>2, <1>3, <1>d, Replaces DEF OfConsole, OfGame, Thread
<1>5. TypeOK' /\ AgendaTyped'
  BY <1>1, <1>3, <1>4, <1>c, ConsoleTypes, ConsoleTypesHold
<1>6. /\ GameTasks' /\ ConsoleTasks' /\ (KeyHeld' <=> KeyHeld) /\ (Deleting' <=> Deleting)
      /\ ~DrawsLoading /\ (DrawsLoading' => Loading \in {hovered, found})
  <2>1. GameTasks' /\ (Deleting' <=> Deleting)
    BY <1>1, <1>4 DEF GameTasks, Deleting
  <2>2. cpc' \notin {"loop", "paint", "ended"}
    <3>1. OfConsole # << >>
      BY <1>2, <1>4
    <3> QED
      BY <1>1, <1>3, <3>1 DEF ConsoleTasks
  <2>3. ConsoleTasks'
    <3>1. /\ Len(b) >= 1 => 1 \in 1 .. Len(b)
          /\ Len(b) >= 2 => 2 \in 1 .. Len(b)
          /\ Len(b) = 3 => 3 \in 1 .. Len(b)
      <4>1. Len(b) \in Nat
        BY <1>d
      <4>2. Len(b) >= 1 => 1 \in 1 .. Len(b)
        BY ONLY <4>1
      <4>3. Len(b) >= 2 => 2 \in 1 .. Len(b)
        BY ONLY <4>1
      <4>4. Len(b) = 3 => 3 \in 1 .. Len(b)
        BY ONLY <4>1
      <4> QED
        BY <4>2, <4>3, <4>4
    <3>2. CASE Len(b) = 0
      BY <1>4, <2>2, <3>2 DEF ConsoleTasks
    <3>3. CASE Len(b) = 1
      BY <1>4, <1>c, <1>d, <2>2, <3>1, <3>3 DEF ConsoleTasks
    <3>4. CASE Len(b) = 2
      BY <1>4, <1>c, <1>d, <2>2, <3>1, <3>4 DEF ConsoleTasks
    <3>5. CASE Len(b) = 3
      <4>1. 1 \in 1 .. 3 /\ 2 \in 1 .. 3 /\ 3 \in 1 .. 3
        OBVIOUS
      <4>2. /\ b[1].op = "draw" /\ b[1].e \in Element
            /\ b[2].op = "draw" /\ b[2].e \in Element /\ b[2].stage = "start"
            /\ b[3].op = "click" /\ b[3].stage = "start"
        BY <1>c, <1>d, <3>5, <4>1
      <4> QED
        BY <1>4, <2>2, <3>5, <4>2 DEF ConsoleTasks
    <3> QED
      BY <1>d, <3>2, <3>3, <3>4, <3>5
  <2>4. ~KeyHeld /\ ~KeyHeld'
    <3>1. \A i \in 1 .. Len(OfConsole) : OfConsole[i].stage = "start"
      BY <1>2, <1>4, <1>1, AtTaskIs DEF Find
    <3>2. \A i \in 1 .. Len(OfConsole') : OfConsole'[i].op # "key"
      BY <1>4, <1>d
    <3> QED
      BY <3>1, <3>2 DEF KeyHeld
  <2>5. ~DrawsLoading
    BY <1>2, <1>4 DEF DrawsLoading
  <2>6. DrawsLoading' => Loading \in {hovered, found}
    BY <1>4, <1>d DEF DrawsLoading
  <2> QED
    BY <2>1, <2>3, <2>4, <2>5, <2>6
<1>7. LockHeld' /\ DeleteHeld'
  BY <1>1, <1>3, <1>6, LocksKept
<1>8. Ended' /\ GhostsBounded'
  BY <1>1, <1>3 DEF Ended, GhostsBounded
<1>9. Listed'
  <2>1. todo["console"] = {}
    BY <1>1, <1>2 DEF Listed, Clearing
  <2>2. TasksListed("console")'
    <3>1. hovered # None => hovered \in elements \/ hovered = Loading
      BY <1>1, <1>2 DEF Listed, ElementListed
    <3> QED
      BY <1>3, <1>4, <1>d, <3>1 DEF TasksListed, ElementListed
  <2>3. Clearing("console")'
    BY <1>3, <2>1 DEF Clearing
  <2>4. cpc' # "paint" => els' = {}
    BY <1>1, <1>2, <1>3 DEF Listed
  <2> QED
    BY <1>1, <1>2, <1>3, <1>4, <2>2, <2>3, <2>4, ListedIf
<1>10. MarkerListed'
  <2>1. Len(OfConsole') >= 1 => OfConsole'[1].op \notin {"add", "move"}
    <3>1. Len(b) >= 1 => 1 \in 1 .. Len(b)
      BY <1>d
    <3> QED
      BY <1>4, <1>d, <3>1
  <2> QED
    BY <1>1, <1>2, <1>3, <1>4, <2>1 DEF MarkerListed
<1>11. Haunted'
  <2>1. CASE Loading \in elements
    BY <1>1, <1>2, <1>3, <2>1 DEF Haunted
  <2>2. CASE Loading \notin elements
    <3>1. ghosts + Haunting <= 2 /\ \A u \in Thread : Loading \notin todo[u]
      BY <1>1, <1>2, <2>2 DEF Haunted
    <3>2. found # Loading
      BY <2>2, NamesDiffer
    <3>3. /\ Once(Loading \in needRedraw' \/ DrawsLoading') + Once(hovered' = Loading)
               <= Once(Loading \in needRedraw \/ DrawsLoading) + Once(hovered = Loading)
          /\ Once(Loading \in els') = Once(Loading \in els)
      BY <1>3, <1>6, <3>2 DEF Once
    <3>4. /\ Once(Loading \in needRedraw' \/ DrawsLoading') \in 0 .. 1
          /\ Once(Loading \in needRedraw \/ DrawsLoading) \in 0 .. 1
          /\ Once(hovered' = Loading) \in 0 .. 1 /\ Once(hovered = Loading) \in 0 .. 1
          /\ Once(Loading \in els) \in 0 .. 1 /\ Once(Loading \in els') \in 0 .. 1
      BY DEF Once
    <3>5. ghosts' + Haunting' <= 2
      BY <1>1, <1>3, <3>1, <3>3, <3>4 DEF Haunting
    <3> QED
      BY <1>3, <2>2, <3>1, <3>5 DEF Haunted
  <2> QED
    BY <2>1, <2>2
<1>12. NoneForgotten'
  <2>1. ASSUME NEW e \in Element, e \in elements', instance, Running,
               \/ e \notin elements
               \/ e \in screen \cup needRedraw \cup els
               \/ \E u \in Thread : WillDraw(u, e)
        PROVE  e \in screen' \cup needRedraw' \cup els' \/ \E u \in Thread : WillDraw(u, e)'
    <3>1. ~HeadDraws("console", e)
      BY <1>2 DEF HeadDraws
    <3>2. CASE \E u \in Thread : WillDraw(u, e)
      BY <1>1, <1>2, <1>3, <1>d, <3>1, <3>2, StillThen
    <3> QED
      BY <1>3, <2>1, <3>2
  <2>2. elements' \subseteq Element
    BY <1>1, <1>3, <1>5, ConsoleTypes DEF TypeOK
  <2>3. NoneForgotten /\ (instance' => instance) /\ (Running' => Running)
    BY <1>1, <1>2, <1>3 DEF Running
  <2> QED
    BY <2>1, <2>2, <2>3, NoneForgottenIf
<1> QED
  BY <1>5, <1>6, <1>7, <1>8, <1>9, <1>10, <1>11, <1>12, ConsoleWhole

\* The first click on a menu adds the marker, and every other one moves it.
LEMMA ClickKeeps ==
  ASSUME ConsoleIInv, NEW t \in Thread, Click(t)
  PROVE  ConsoleIInv'
<1>1. /\ TypeOK /\ AgendaTyped /\ GameTasks /\ ConsoleTasks /\ LockHeld /\ DeleteHeld
      /\ Ended /\ GhostsBounded /\ NoneForgotten
      /\ Running => Listed /\ MarkerListed /\ Haunted
      /\ agenda \in [Thread -> Seq(Tasks)] /\ todo \in [Thread -> SUBSET Element]
      /\ ghosts \in Nat
  BY ConsoleParts
<1>2. /\ Running /\ agenda[t] # << >> /\ agenda[t][1].op = "click" /\ Len(agenda[t]) = 1
      /\ t = "console" /\ "console" \in Thread /\ Of(t) \in Element \cup {None}
  BY <1>1, AtTaskIs, WhoseTasks DEF Click, Thread
<1>a. PICK k : k = Task(IF markerCreated THEN "move" ELSE "add", Marker)
  OBVIOUS
<1>b. PICK s : s = Task("setup", Of(t))
  OBVIOUS
<1>c. /\ k.op = IF markerCreated THEN "move" ELSE "add"
      /\ k.e = Marker /\ k.stage = "start" /\ k \in Tasks
      /\ s.op = "setup" /\ s.stage = "start" /\ s \in Tasks
  BY <1>2, <1>a, <1>b, NamesDiffer DEF Task, Tasks, Operations, Stages
<1>d. PICK b : b = <<k, s>>
  OBVIOUS
<1>e. b \in Seq(Tasks) /\ Len(b) = 2 /\ b[1] = k /\ b[2] = s
  BY <1>c, <1>d
<1>3. /\ Then("console", b) /\ instance' = instance /\ phase' = phase
      /\ elements' = elements /\ needRedraw' = needRedraw /\ screen' = screen
      /\ deleteLock' = deleteLock /\ elementsLock' = elementsLock /\ todo' = todo
      /\ cpc' = cpc /\ els' = els /\ events' = events /\ needClear' = needClear
      /\ hovered' = hovered /\ markerCreated' = TRUE /\ exitFlag' = exitFlag
      /\ bFirstTime' = bFirstTime /\ ghosts' = ghosts
      /\ early' = early
  BY <1>2, <1>a, <1>b, <1>d DEF Click, life, lists, locks, work, console, input, past, Stages
<1>4. /\ agenda' \in [Thread -> Seq(Tasks)] /\ agenda'["console"] = b
      /\ OfConsole = agenda["console"] /\ OfConsole' = b /\ OfGame' = OfGame
      /\ \A u \in Thread : u # "console" => agenda'[u] = agenda[u]
  BY <1>1, <1>2, <1>3, <1>e, Replaces DEF OfConsole, OfGame, Thread
<1>5. TypeOK' /\ AgendaTyped'
  BY <1>1, <1>3, <1>4, ConsoleTypes, ConsoleTypesHold
<1>6. /\ GameTasks' /\ ConsoleTasks' /\ (KeyHeld' <=> KeyHeld) /\ (Deleting' <=> Deleting)
      /\ (DrawsLoading' => DrawsLoading)
  <2>1. GameTasks' /\ (Deleting' <=> Deleting)
    BY <1>1, <1>4 DEF GameTasks, Deleting
  <2>2. cpc' \notin {"loop", "paint", "ended"}
    <3>1. OfConsole # << >>
      BY <1>2, <1>4
    <3> QED
      BY <1>1, <1>3, <3>1 DEF ConsoleTasks
  <2>3. ConsoleTasks'
    BY <1>4, <1>c, <1>e, <2>2 DEF ConsoleTasks
  <2>0. \A i \in 1 .. Len(b) : b[i].op \notin {"key", "draw"}
    <3>1. \A i \in 1 .. 2 : i = 1 \/ i = 2
      OBVIOUS
    <3> QED
      BY <1>c, <1>e, <3>1
  <2>4. ~KeyHeld /\ ~KeyHeld'
    <3>1. \A i \in 1 .. Len(OfConsole) : OfConsole[i].stage = "start"
      BY <1>2, <1>4, <1>1, AtTaskIs DEF Click
    <3> QED
      BY <1>4, <2>0, <3>1 DEF KeyHeld
  <2>5. ~DrawsLoading'
    BY <1>4, <2>0 DEF DrawsLoading
  <2> QED
    BY <2>1, <2>3, <2>4, <2>5
<1>7. LockHeld' /\ DeleteHeld'
  BY <1>1, <1>3, <1>6, LocksKept
<1>8. Ended' /\ GhostsBounded'
  BY <1>1, <1>3 DEF Ended, GhostsBounded
<1>9. Listed'
  <2>1. todo["console"] = {}
    BY <1>1, <1>2 DEF Listed, Clearing
  <2>2. TasksListed("console")'
    <3>1. \A i \in 1 .. Len(b) : b[i].op # "draw" /\ b[i].stage = "start"
      <4>1. \A i \in 1 .. 2 : i = 1 \/ i = 2
        OBVIOUS
      <4> QED
        BY <1>c, <1>e, <4>1
    <3> QED
      BY <1>4, <3>1 DEF TasksListed
  <2>3. Clearing("console")'
    BY <1>3, <2>1 DEF Clearing
  <2>4. cpc' # "paint" => els' = {}
    BY <1>1, <1>2, <1>3 DEF Listed
  <2> QED
    BY <1>1, <1>2, <1>3, <1>4, <2>2, <2>3, <2>4, ListedIf
<1>10. MarkerListed'
  <2>1. markerCreated \in BOOLEAN
    BY <1>1, ConsoleTypes
  <2> QED
    BY <1>1, <1>2, <1>3, <1>4, <1>c, <1>e, <2>1 DEF MarkerListed
<1>11. Haunted'
  BY <1>1, <1>2, <1>3, <1>6, HauntedKept
<1>12. NoneForgotten'
  <2>1. ASSUME NEW e \in Element, e \in elements', instance, Running,
               \/ e \notin elements
               \/ e \in screen \cup needRedraw \cup els
               \/ \E u \in Thread : WillDraw(u, e)
        PROVE  e \in screen' \cup needRedraw' \cup els' \/ \E u \in Thread : WillDraw(u, e)'
    <3>1. ~HeadDraws("console", e)
      BY <1>2 DEF HeadDraws
    <3>2. CASE \E u \in Thread : WillDraw(u, e)
      BY <1>1, <1>2, <1>3, <1>e, <3>1, <3>2, StillThen
    <3> QED
      BY <1>3, <2>1, <3>2
  <2>2. elements' \subseteq Element
    BY <1>1, <1>3, <1>5, ConsoleTypes DEF TypeOK
  <2>3. NoneForgotten /\ (instance' => instance) /\ (Running' => Running)
    BY <1>1, <1>2, <1>3 DEF Running
  <2> QED
    BY <2>1, <2>2, <2>3, NoneForgottenIf
<1> QED
  BY <1>5, <1>6, <1>7, <1>8, <1>9, <1>10, <1>11, <1>12, ConsoleWhole

\* The process ends, of itself or of a null pointer.
LEMMA StopKeeps ==
  ASSUME ConsoleIInv, Running, phase' \in {"exited", "crashed"},
         UNCHANGED <<instance, lists, locks, work, console, past>>
  PROVE  ConsoleIInv'
<1>1. /\ TypeOK /\ AgendaTyped /\ GameTasks /\ ConsoleTasks /\ LockHeld /\ DeleteHeld
      /\ Ended /\ GhostsBounded /\ NoneForgotten
      /\ Running => Listed /\ MarkerListed /\ Haunted
      /\ agenda \in [Thread -> Seq(Tasks)] /\ todo \in [Thread -> SUBSET Element]
      /\ ghosts \in Nat
  BY ConsoleParts
<1>3. /\ instance' = instance /\ elements' = elements /\ needRedraw' = needRedraw
      /\ screen' = screen /\ deleteLock' = deleteLock /\ elementsLock' = elementsLock
      /\ todo' = todo /\ cpc' = cpc /\ els' = els /\ events' = events
      /\ needClear' = needClear /\ hovered' = hovered /\ markerCreated' = markerCreated
      /\ exitFlag' = exitFlag /\ bFirstTime' = bFirstTime /\ ghosts' = ghosts
      /\ early' = early
      /\ agenda' = agenda
  BY DEF life, lists, locks, work, console, input, past, Stages
<1>4. ~Running' /\ phase' # "freed"
  BY DEF Running
<1>5. TypeOK' /\ AgendaTyped'
  <2>1. phase' \in {"up", "leaving", "freed", "exited", "torn", "crashed"}
    OBVIOUS
  <2> QED
    BY <1>1, <1>3, <2>1, ConsoleTypes, ConsoleTypesHold
<1>6. /\ GameTasks' /\ ConsoleTasks' /\ (KeyHeld' <=> KeyHeld) /\ (Deleting' <=> Deleting)
  BY <1>1, <1>3 DEF GameTasks, ConsoleTasks, KeyHeld, Deleting, OfGame, OfConsole
<1>7. LockHeld' /\ DeleteHeld'
  BY <1>1, <1>3, <1>6, LocksKept
<1>8. Ended' /\ GhostsBounded'
  BY <1>1, <1>3, <1>4 DEF Ended, GhostsBounded
<1>9. NoneForgotten'
  BY <1>4 DEF NoneForgotten
<1> QED
  BY <1>4, <1>5, <1>6, <1>7, <1>8, <1>9, ConsoleWhole

\* A step leads to one that has an element drawn, or the title that shows the keys.
LEMMA LeadsKeeps ==
  ASSUME ConsoleIInv, Running, agenda["console"] # << >>,
         agenda["console"][1].op \in {"look", "move", "setup"}, NEW k \in Tasks,
         NEW changed, changed \subseteq {k.e}, k.op \in {"draw", "add"},
         k.e = None \/ (k.e \in elements /\ k.e # Loading),
         k.op = "add" => k.e = Marker /\ agenda["console"][1].op = "move",
         Then("console", <<k>>), screen' = screen \ changed,
         UNCHANGED <<instance, phase, elements, needRedraw, locks, todo, console, past>>
  PROVE  ConsoleIInv'
<1>1. /\ TypeOK /\ AgendaTyped /\ GameTasks /\ ConsoleTasks /\ LockHeld /\ DeleteHeld
      /\ Ended /\ GhostsBounded /\ NoneForgotten
      /\ Running => Listed /\ MarkerListed /\ Haunted
      /\ agenda \in [Thread -> Seq(Tasks)] /\ todo \in [Thread -> SUBSET Element]
      /\ ghosts \in Nat
  BY ConsoleParts
<1>2. /\ Len(agenda["console"]) \in Nat /\ Len(agenda["console"]) >= 1
      /\ "console" \in Thread
  BY <1>1, TasksAre DEF Thread
<1>b. PICK d : d = <<k>>
  OBVIOUS
<1>c. k.e \in Element \cup {None} /\ k.e # Loading
  BY <1>1, ConsoleTypes, NamesDiffer
<1>d. d \in Seq(Tasks) /\ Len(d) = 1 /\ d[1] = k /\ 1 \in 1 .. Len(d)
  BY <1>b
<1>3. /\ Then("console", d) /\ instance' = instance /\ phase' = phase
      /\ elements' = elements /\ needRedraw' = needRedraw
      /\ deleteLock' = deleteLock /\ elementsLock' = elementsLock /\ todo' = todo
      /\ cpc' = cpc /\ els' = els /\ events' = events /\ needClear' = needClear
      /\ hovered' = hovered /\ markerCreated' = markerCreated /\ exitFlag' = exitFlag
      /\ bFirstTime' = bFirstTime /\ ghosts' = ghosts
      /\ early' = early
  BY <1>b DEF locks, console, input, past
<1>4. /\ agenda' \in [Thread -> Seq(Tasks)] /\ OfGame' = OfGame
      /\ OfConsole = agenda["console"] /\ OfConsole' = agenda'["console"]
      /\ Len(OfConsole') = Len(OfConsole) /\ OfConsole'[1] = k
      /\ \A i \in 2 .. Len(OfConsole) : OfConsole'[i] = OfConsole[i]
      /\ \A u \in Thread : u # "console" => agenda'[u] = agenda[u]
  <2>1. /\ agenda' \in [Thread -> Seq(Tasks)]
        /\ Len(agenda'["console"]) = Len(d) + Len(agenda["console"]) - 1
        /\ \A i \in 1 .. Len(d) : agenda'["console"][i] = d[i]
        /\ \A i \in 2 .. Len(agenda["console"]) :
             agenda'["console"][Len(d) + i - 1] = agenda["console"][i]
        /\ \A u \in Thread : u # "console" => agenda'[u] = agenda[u]
    BY <1>1, <1>2, <1>3, <1>d, Becomes
  <2>2. Len(d) = 1 /\ 1 \in 1 .. Len(d) /\ \A i \in Int : Len(d) + i - 1 = i
    BY <1>d
  <2>3. /\ Len(agenda'["console"]) = Len(agenda["console"])
        /\ \A i \in 2 .. Len(agenda["console"]) : agenda'["console"][i] = agenda["console"][i]
    <3>1. Len(d) + Len(agenda["console"]) - 1 = Len(agenda["console"])
      BY <1>2, <1>d
    <3>2. ASSUME NEW i \in 2 .. Len(agenda["console"])
          PROVE  agenda'["console"][i] = agenda["console"][i]
      <4>1. agenda'["console"][Len(d) + i - 1] = agenda["console"][i]
        BY <2>1
      <4>2. Len(d) + i - 1 = i
        BY <2>2
      <4> QED
        BY <4>1, <4>2
    <3> QED
      BY <2>1, <3>1, <3>2
  <2> QED
    BY <1>d, <2>1, <2>2, <2>3 DEF OfConsole, OfGame, Thread
<1>5. TypeOK' /\ AgendaTyped'
  <2>1. screen' \subseteq Element
    BY <1>1, ConsoleTypes
  <2> QED
    BY <1>1, <1>3, <1>4, <2>1, ConsoleTypes, ConsoleTypesHold
<1>6. /\ GameTasks' /\ ConsoleTasks' /\ (KeyHeld' <=> KeyHeld) /\ (Deleting' <=> Deleting)
      /\ ~DrawsLoading'
  <2>1. GameTasks' /\ (Deleting' <=> Deleting)
    BY <1>1, <1>4 DEF GameTasks, Deleting
  <2>2. cpc' \notin {"loop", "paint", "ended"}
    BY <1>1, <1>2, <1>3, <1>4 DEF ConsoleTasks
  <2>3. /\ Len(OfConsole) \in 1 .. 2
        /\ Len(OfConsole) = 2 =>
             /\ OfConsole[2].op \in {"setup", "find", "key"} /\ OfConsole[2].stage = "start"
             /\ OfConsole[1].op = "move" => OfConsole[2].op = "setup"
        /\ OfConsole[1].op = "move" => Len(OfConsole) = 2
    <3>1. OfConsole[1].op \in {"look", "move", "setup"} /\ Len(OfConsole) >= 1
      BY <1>2, <1>4
    <3>2. CASE OfConsole[1].op = "move"
      <4>b. Len(OfConsole) = 2
        BY ONLY <1>1, <3>1, <3>2 DEF ConsoleTasks
      <4>1. Len(OfConsole) = 2 /\ OfConsole[2].op = "setup"
        BY ONLY <1>1, <3>2, <4>b DEF ConsoleTasks
      <4>2. OfConsole[2].stage = "start"
        BY <1>1, <4>1 DEF ConsoleTasks, KeyDone
      <4> QED
        BY <3>2, <4>1, <4>2
    <3>3. CASE OfConsole[1].op = "setup"
      <4>1. Len(OfConsole) = 1
        BY <1>1, <3>1, <3>3 DEF ConsoleTasks
      <4> QED
        BY <3>3, <4>1
    <3>4. CASE OfConsole[1].op = "look"
      <4>b. Len(OfConsole) = 2
        BY ONLY <1>1, <3>1, <3>4 DEF ConsoleTasks
      <4>1. /\ Len(OfConsole) = 2 /\ OfConsole[2].op \in {"find", "key"}
            /\ OfConsole[2].stage = "start"
        BY ONLY <1>1, <3>4, <4>b DEF ConsoleTasks
      <4> QED
        BY <3>4, <4>1
    <3> QED
      BY <3>1, <3>2, <3>3, <3>4
  <2>4. Len(OfConsole) = 2 => OfConsole'[2] = OfConsole[2]
    BY <1>4
  <2>5. ConsoleTasks'
    <3>1. CASE k.op = "draw"
      BY <1>4, <1>c, <2>2, <2>3, <2>4, <3>1 DEF ConsoleTasks
    <3>2. CASE k.op = "add"
      BY <1>4, <1>c, <2>2, <2>3, <2>4, <3>2 DEF ConsoleTasks
    <3> QED
      BY <3>1, <3>2
  <2>6. \A i \in 1 .. Len(OfConsole) : i = 1 \/ (i = 2 /\ Len(OfConsole) = 2)
    <3>1. Len(OfConsole) = 1 \/ Len(OfConsole) = 2
      BY <2>3
    <3>2. \A i \in 1 .. 1 : i = 1
      OBVIOUS
    <3>3. \A i \in 1 .. 2 : i = 1 \/ i = 2
      OBVIOUS
    <3>4. CASE Len(OfConsole) = 1
      BY ONLY <3>2, <3>4
    <3>5. CASE Len(OfConsole) = 2
      BY ONLY <3>3, <3>5
    <3> QED
      BY <3>1, <3>4, <3>5
  <2>7. \A i \in 1 .. Len(OfConsole') :
          /\ OfConsole'[i].op = "key" => OfConsole'[i].stage = "start"
          /\ OfConsole'[i].op = "draw" => OfConsole'[i].e # Loading
    BY <1>4, <1>c, <2>3, <2>4, <2>6
  <2>8. \A i \in 1 .. Len(OfConsole) :
          OfConsole[i].op = "key" => OfConsole[i].stage = "start"
    BY <1>4, <2>3, <2>6
  <2> QED
    BY <2>1, <2>5, <2>7, <2>8 DEF KeyHeld, DrawsLoading
<1>7. LockHeld' /\ DeleteHeld'
  BY <1>1, <1>3, <1>6, LocksKept
<1>8. Ended' /\ GhostsBounded'
  BY <1>1, <1>3 DEF Ended, GhostsBounded
<1>9. Listed'
  <2>1. todo["console"] = {}
    BY <1>1, <1>2 DEF Listed, Clearing
  <2>2. TasksListed("console")'
    <3>1. \A i \in 1 .. Len(OfConsole') : i = 1 \/ i \in 2 .. Len(OfConsole)
      BY <1>2, <1>4
    <3>2. /\ OfConsole'[1].e = None \/ OfConsole'[1].e \in elements
          /\ OfConsole'[1].op = "add" => OfConsole'[1].e = Marker
          /\ \A i \in 2 .. Len(OfConsole) :
               OfConsole'[i].op # "draw" /\ OfConsole'[i].op # "add"
      BY <1>1, <1>2, <1>4 DEF ConsoleTasks
    <3> QED
      BY <1>3, <1>4, <3>1, <3>2, NamesDiffer DEF TasksListed, ElementListed
  <2>3. Clearing("console")'
    BY <1>3, <2>1 DEF Clearing
  <2>4. cpc' # "paint" => els' = {}
    BY <1>1, <1>2, <1>3 DEF Listed
  <2> QED
    BY <1>1, <1>2, <1>3, <1>4, <2>2, <2>3, <2>4, ListedIf
<1>10. MarkerListed'
  BY <1>1, <1>2, <1>3, <1>4 DEF MarkerListed
<1>11. Haunted'
  BY <1>1, <1>2, <1>3, <1>6, HauntedKept
<1>12. NoneForgotten'
  <2>1. ASSUME NEW e \in Element, e \in elements', instance, Running,
               \/ e \notin elements
               \/ e \in screen \cup needRedraw \cup els
               \/ \E u \in Thread : WillDraw(u, e)
        PROVE  e \in screen' \cup needRedraw' \cup els' \/ \E u \in Thread : WillDraw(u, e)'
    <3>0. CASE e \in changed
      <4>1. d[1].op \in {"add", "draw"} /\ d[1].e = e
        BY <1>d, <3>0
      <4>2. WillDraw("console", e)'
        BY <1>1, <1>2, <1>3, <1>d, <4>1, NewDraws
      <4> QED
        BY <1>2, <4>2
    <3>1. ~HeadDraws("console", e)
      BY DEF HeadDraws
    <3>2. CASE \E u \in Thread : WillDraw(u, e)
      BY <1>1, <1>2, <1>3, <1>d, <3>1, <3>2, StillThen
    <3> QED
      BY <1>3, <2>1, <3>0, <3>2
  <2>2. elements' \subseteq Element
    BY <1>1, <1>3, <1>5, ConsoleTypes DEF TypeOK
  <2>3. NoneForgotten /\ (instance' => instance) /\ (Running' => Running)
    BY <1>1, <1>2, <1>3 DEF Running
  <2> QED
    BY <2>1, <2>2, <2>3, NoneForgottenIf
<1> QED
  BY <1>5, <1>6, <1>7, <1>8, <1>9, <1>10, <1>11, <1>12, ConsoleWhole

\* The marker is looked for, ...
LEMMA MoveKeeps ==
  ASSUME ConsoleIInv, NEW t \in Thread, Move(t)
  PROVE  ConsoleIInv'
<1>1. TypeOK /\ AgendaTyped /\ GameTasks /\ ConsoleTasks /\ (Running => MarkerListed)
  BY ConsoleParts
<1>2. /\ Running /\ agenda[t] # << >> /\ agenda[t][1].op = "move" /\ t = "console"
      /\ Len(agenda[t]) \in Nat /\ Len(agenda[t]) >= 1
  BY <1>1, AtTaskIs, WhoseTasks DEF Move, ThroughInstance
<1>a. PICK k : k = [Task("add", Marker) EXCEPT !.stage = "draw"]
  OBVIOUS
<1>b. k \in Tasks /\ k.op = "add" /\ k.e = Marker /\ k.stage = "draw"
  BY <1>a DEF Task, Tasks, Operations, Stages, Element
<1>3. ThroughInstance("console", "move", {Marker}, k)
  BY <1>2, <1>a DEF Move
<1>4. CASE instance
  <2>1. Marker \in elements
    BY <1>1, <1>2, <1>4 DEF MarkerListed, OfConsole
  <2>2. /\ Then("console", <<k>>) /\ screen' = screen \ {Marker}
        /\ UNCHANGED <<instance, phase, elements, needRedraw, locks, todo, console, past>>
    BY <1>3, <1>4 DEF ThroughInstance
  <2> QED
    BY <1>2, <1>b, <2>1, <2>2, LeadsKeeps, NamesDiffer
<1>5. CASE ~instance
  <2>1. /\ phase' = "crashed"
        /\ UNCHANGED <<instance, lists, locks, work, console, past>>
    BY <1>3, <1>5 DEF ThroughInstance, work, lists
  <2> QED
    BY <1>2, <2>1, StopKeeps
<1> QED
  BY <1>4, <1>5

\* ... and so is the box, which is there.
LEMMA SetupKeeps ==
  ASSUME ConsoleIInv, NEW t \in Thread, Setup(t)
  PROVE  ConsoleIInv'
<1>1. TypeOK /\ AgendaTyped /\ GameTasks /\ ConsoleTasks
  BY ConsoleParts
<1>2. PICK x \in Controls \cap elements : ThroughInstance(t, "setup", {}, Draw(x))
  BY DEF Setup
<1>3. Running /\ agenda[t] # << >> /\ agenda[t][1].op = "setup" /\ t = "console"
  BY <1>1, <1>2, AtTaskIs, WhoseTasks DEF ThroughInstance
<1>a. PICK k : k = Draw(x)
  OBVIOUS
<1>b. k \in Tasks /\ k.op = "draw" /\ k.e = x /\ x \in elements /\ x # Loading
  BY <1>a, NamesDiffer DEF Draw, Task, Tasks, Operations, Stages
<1>4. CASE instance
  <2>1. /\ Then("console", <<k>>) /\ screen' = screen \ {}
        /\ UNCHANGED <<instance, phase, elements, needRedraw, locks, todo, console, past>>
    BY <1>2, <1>3, <1>4, <1>a DEF ThroughInstance
  <2>2. {} \subseteq {k.e}
    OBVIOUS
  <2> QED
    BY <1>3, <1>b, <2>1, <2>2, LeadsKeeps
<1>5. CASE ~instance
  <2>1. /\ phase' = "crashed"
        /\ UNCHANGED <<instance, lists, locks, work, console, past>>
    BY <1>2, <1>5 DEF ThroughInstance, work, lists
  <2> QED
    BY <1>3, <2>1, StopKeeps
<1> QED
  BY <1>4, <1>5

\* The title that shows the keys and the mouse is set.
LEMMA LookedKeeps ==
  ASSUME ConsoleIInv, NEW t \in Thread, Looked(t)
  PROVE  ConsoleIInv'
<1>1. TypeOK /\ AgendaTyped /\ GameTasks /\ ConsoleTasks
  BY ConsoleParts
<1>2. Running /\ agenda[t] # << >> /\ agenda[t][1].op = "look" /\ t = "console"
  BY <1>1, AtTaskIs, WhoseTasks DEF Looked
<1>a. PICK k : k = [Draw(None) EXCEPT !.stage = "draw"]
  OBVIOUS
<1>b. k \in Tasks /\ k.op = "draw" /\ k.e = None
  BY <1>a DEF Draw, Task, Tasks, Operations, Stages
<1>3. /\ Then("console", <<k>>) /\ screen' = screen \ {}
      /\ UNCHANGED <<instance, phase, elements, needRedraw, locks, todo, console, past>>
  BY <1>2, <1>a DEF Looked, life, lists
<1>4. {} \subseteq {k.e}
  OBVIOUS
<1> QED
  BY <1>2, <1>b, <1>3, <1>4, LeadsKeeps

\* What instance pointed to is used when it is null.
LEMMA NullUsedKeeps ==
  ASSUME ConsoleIInv, NEW t \in Thread, NullUsed(t)
  PROVE  ConsoleIInv'
<1>1. /\ Running /\ phase' = "crashed"
      /\ UNCHANGED <<instance, lists, locks, work, console, past>>
  BY DEF NullUsed
<1> QED
  BY <1>1, StopKeeps

\* A key is handled under the lock of the elements.
LEMMA KeyLockKeeps ==
  ASSUME ConsoleIInv, NEW t \in Thread, KeyLock(t)
  PROVE  ConsoleIInv'
<1>1. /\ TypeOK /\ AgendaTyped /\ GameTasks /\ ConsoleTasks /\ LockHeld /\ DeleteHeld
      /\ Ended /\ GhostsBounded /\ NoneForgotten
      /\ Running => Listed /\ MarkerListed /\ Haunted
      /\ agenda \in [Thread -> Seq(Tasks)] /\ todo \in [Thread -> SUBSET Element]
      /\ ghosts \in Nat
  BY ConsoleParts
<1>2. /\ Running /\ agenda[t] # << >> /\ agenda[t][1].op = "key" /\ Len(agenda[t]) = 1
      /\ agenda[t][1].stage = "start" /\ t = "console" /\ "console" \in Thread
  BY <1>1, AtTaskIs, WhoseTasks DEF KeyLock, Thread
<1>3. /\ "held" \in Stages /\ GoOn("console", "held") /\ instance' = instance
      /\ phase' = phase /\ elements' = elements /\ needRedraw' = needRedraw
      /\ screen' = screen /\ deleteLock' = deleteLock /\ elementsLock' = Locked("console")
      /\ todo' = todo /\ cpc' = cpc /\ els' = els /\ events' = events
      /\ needClear' = needClear /\ hovered' = hovered /\ markerCreated' = markerCreated
      /\ exitFlag' = exitFlag /\ bFirstTime' = bFirstTime /\ ghosts' = ghosts
      /\ early' = early
  BY <1>2 DEF KeyLock, life, lists, locks, work, console, input, past, Stages
<1>4. /\ agenda' \in [Thread -> Seq(Tasks)] /\ OfGame' = OfGame
      /\ OfConsole = agenda["console"] /\ OfConsole' = agenda'["console"]
      /\ Len(OfConsole) = 1 /\ Len(OfConsole') = 1 /\ OfConsole'[1].op = "key"
      /\ OfConsole'[1].stage = "held" /\ OfConsole[1].stage = "start"
      /\ OfConsole[1].op = "key"
      /\ \A u \in Thread : u # "console" => agenda'[u] = agenda[u]
  BY <1>1, <1>2, <1>3, GoesOn DEF OfConsole, OfGame, Thread
<1>6. /\ GameTasks' /\ ConsoleTasks' /\ KeyHeld' /\ ~KeyHeld /\ (Deleting' <=> Deleting)
      /\ ~DrawsLoading'
  <2>1. GameTasks' /\ (Deleting' <=> Deleting)
    BY <1>1, <1>4 DEF GameTasks, Deleting
  <2>2. cpc' \notin {"loop", "paint", "ended"}
    BY <1>1, <1>2, <1>3, <1>4 DEF ConsoleTasks
  <2>3. ConsoleTasks'
    BY <1>4, <2>2 DEF ConsoleTasks
  <2>4. 1 \in 1 .. 1 /\ \A i \in 1 .. 1 : i = 1
    OBVIOUS
  <2>5. KeyHeld' /\ ~KeyHeld /\ ~DrawsLoading'
    BY <1>4, <2>4 DEF KeyHeld, DrawsLoading
  <2> QED
    BY <2>1, <2>3, <2>5
<1>a. elementsLock' = [owner |-> "console", depth |-> 1]
  BY <1>1, <1>3, <1>6 DEF LockHeld, Locked
<1>5. TypeOK' /\ AgendaTyped'
  <2>1. elementsLock' \in [owner : Thread \cup {None}, depth : 0 .. 2]
    BY <1>2, <1>a
  <2> QED
    BY <1>1, <1>3, <1>4, <2>1, ConsoleTypes, ConsoleTypesHold
<1>7. LockHeld' /\ DeleteHeld'
  BY <1>1, <1>3, <1>6, <1>a DEF LockHeld, DeleteHeld
<1>8. Ended' /\ GhostsBounded'
  BY <1>1, <1>3 DEF Ended, GhostsBounded
<1>9. Listed'
  <2>1. todo["console"] = {}
    BY <1>1, <1>2 DEF Listed, Clearing
  <2>2. TasksListed("console")'
    <3>1. \A i \in 1 .. 1 : i = 1
      OBVIOUS
    <3> QED
      BY <1>4, <3>1 DEF TasksListed
  <2>3. Clearing("console")'
    BY <1>3, <2>1 DEF Clearing
  <2>4. cpc' # "paint" => els' = {}
    BY <1>1, <1>2, <1>3 DEF Listed
  <2> QED
    BY <1>1, <1>2, <1>3, <1>4, <2>2, <2>3, <2>4, ListedIf
<1>10. MarkerListed'
  BY <1>1, <1>2, <1>3, MarkerGoesOn
<1>11. Haunted'
  BY <1>1, <1>2, <1>3, <1>6, HauntedKept
<1>12. NoneForgotten'
  <2>1. ASSUME NEW e \in Element, e \in elements', instance, Running,
               \/ e \notin elements
               \/ e \in screen \cup needRedraw \cup els
               \/ \E u \in Thread : WillDraw(u, e)
        PROVE  e \in screen' \cup needRedraw' \cup els' \/ \E u \in Thread : WillDraw(u, e)'
    <3>1. CASE \E u \in Thread : WillDraw(u, e)
      BY <1>1, <1>2, <1>3, <3>1, StillOn
    <3> QED
      BY <1>3, <2>1, <3>1
  <2>2. elements' \subseteq Element
    BY <1>1, <1>3, <1>5, ConsoleTypes DEF TypeOK
  <2>3. NoneForgotten /\ (instance' => instance) /\ (Running' => Running)
    BY <1>1, <1>2, <1>3 DEF Running
  <2> QED
    BY <2>1, <2>2, <2>3, NoneForgottenIf
<1> QED
  BY <1>5, <1>6, <1>7, <1>8, <1>9, <1>10, <1>11, <1>12, ConsoleWhole

\* The section looks for its titles, or has none.
LEMMA KeyTestKeeps ==
  ASSUME ConsoleIInv, NEW t \in Thread, KeyTest(t)
  PROVE  ConsoleIInv'
<1>1. /\ TypeOK /\ AgendaTyped /\ GameTasks /\ ConsoleTasks /\ LockHeld /\ DeleteHeld
      /\ Ended /\ GhostsBounded /\ NoneForgotten
      /\ Running => Listed /\ MarkerListed /\ Haunted
      /\ agenda \in [Thread -> Seq(Tasks)] /\ todo \in [Thread -> SUBSET Element]
      /\ ghosts \in Nat
  BY ConsoleParts
<1>2. /\ Running /\ agenda[t] # << >> /\ agenda[t][1].op = "key" /\ Len(agenda[t]) = 1
      /\ agenda[t][1].stage = "held" /\ t = "console" /\ "console" \in Thread
  BY <1>1, AtTaskIs, WhoseTasks DEF KeyTest, Thread
<1>a. PICK stage \in {"done", "use"} : GoOn("console", stage)
  BY <1>2 DEF KeyTest
<1>3. /\ stage \in Stages /\ stage # "start" /\ GoOn("console", stage)
      /\ instance' = instance
      /\ phase' = phase /\ elements' = elements /\ needRedraw' = needRedraw
      /\ screen' = screen /\ deleteLock' = deleteLock /\ elementsLock' = elementsLock
      /\ todo' = todo /\ cpc' = cpc /\ els' = els /\ events' = events
      /\ needClear' = needClear /\ hovered' = hovered /\ markerCreated' = markerCreated
      /\ exitFlag' \in {exitFlag, TRUE} /\ bFirstTime' = bFirstTime /\ ghosts' = ghosts
      /\ early' = early
  BY <1>2, <1>a DEF KeyTest, life, lists, locks, work, console, input, past, Stages
<1>4. /\ agenda' \in [Thread -> Seq(Tasks)] /\ OfGame' = OfGame
      /\ OfConsole = agenda["console"] /\ OfConsole' = agenda'["console"]
      /\ Len(OfConsole) = 1 /\ Len(OfConsole') = 1 /\ OfConsole'[1].op = "key"
      /\ OfConsole'[1].stage # "start" /\ OfConsole[1].stage # "start"
      /\ OfConsole[1].op = "key"
      /\ \A u \in Thread : u # "console" => agenda'[u] = agenda[u]
  BY <1>1, <1>2, <1>3, GoesOn DEF OfConsole, OfGame, Thread
<1>6. /\ GameTasks' /\ ConsoleTasks' /\ (KeyHeld' <=> KeyHeld) /\ (Deleting' <=> Deleting)
      /\ ~DrawsLoading'
  <2>1. GameTasks' /\ (Deleting' <=> Deleting)
    BY <1>1, <1>4 DEF GameTasks, Deleting
  <2>2. cpc' \notin {"loop", "paint", "ended"}
    BY <1>1, <1>2, <1>3, <1>4 DEF ConsoleTasks
  <2>3. ConsoleTasks'
    BY <1>4, <2>2 DEF ConsoleTasks
  <2>4. 1 \in 1 .. 1 /\ \A i \in 1 .. 1 : i = 1
    OBVIOUS
  <2>5. KeyHeld' /\ KeyHeld /\ ~DrawsLoading'
    BY <1>4, <2>4 DEF KeyHeld, DrawsLoading
  <2> QED
    BY <2>1, <2>3, <2>5
<1>5. TypeOK' /\ AgendaTyped'
  <2>1. exitFlag' \in BOOLEAN
    BY <1>1, <1>3, ConsoleTypes
  <2> QED
    BY <1>1, <1>3, <1>4, <2>1, ConsoleTypes, ConsoleTypesHold
<1>7. LockHeld' /\ DeleteHeld'
  BY <1>1, <1>3, <1>6, LocksKept
<1>8. Ended' /\ GhostsBounded'
  BY <1>1, <1>3 DEF Ended, GhostsBounded
<1>9. Listed'
  <2>1. todo["console"] = {}
    BY <1>1, <1>2 DEF Listed, Clearing
  <2>2. TasksListed("console")'
    <3>1. \A i \in 1 .. 1 : i = 1
      OBVIOUS
    <3> QED
      BY <1>4, <3>1 DEF TasksListed
  <2>3. Clearing("console")'
    BY <1>3, <2>1 DEF Clearing
  <2>4. cpc' # "paint" => els' = {}
    BY <1>1, <1>2, <1>3 DEF Listed
  <2> QED
    BY <1>1, <1>2, <1>3, <1>4, <2>2, <2>3, <2>4, ListedIf
<1>10. MarkerListed'
  BY <1>1, <1>2, <1>3, MarkerGoesOn
<1>11. Haunted'
  BY <1>1, <1>2, <1>3, <1>6, HauntedKept
<1>12. NoneForgotten'
  <2>1. ASSUME NEW e \in Element, e \in elements', instance, Running,
               \/ e \notin elements
               \/ e \in screen \cup needRedraw \cup els
               \/ \E u \in Thread : WillDraw(u, e)
        PROVE  e \in screen' \cup needRedraw' \cup els' \/ \E u \in Thread : WillDraw(u, e)'
    <3>1. CASE \E u \in Thread : WillDraw(u, e)
      BY <1>1, <1>2, <1>3, <3>1, StillOn
    <3> QED
      BY <1>3, <2>1, <3>1
  <2>2. elements' \subseteq Element
    BY <1>1, <1>3, <1>5, ConsoleTypes DEF TypeOK
  <2>3. NoneForgotten /\ (instance' => instance) /\ (Running' => Running)
    BY <1>1, <1>2, <1>3 DEF Running
  <2> QED
    BY <2>1, <2>2, <2>3, NoneForgottenIf
<1> QED
  BY <1>5, <1>6, <1>7, <1>8, <1>9, <1>10, <1>11, <1>12, ConsoleWhole

\* The section of a box handles the key.
LEMMA KeyHandledKeeps ==
  ASSUME ConsoleIInv, NEW t \in Thread, KeyHandled(t)
  PROVE  ConsoleIInv'
<1>1. /\ TypeOK /\ AgendaTyped /\ GameTasks /\ ConsoleTasks /\ LockHeld /\ DeleteHeld
      /\ Ended /\ GhostsBounded /\ NoneForgotten
      /\ Running => Listed /\ MarkerListed /\ Haunted
      /\ agenda \in [Thread -> Seq(Tasks)] /\ todo \in [Thread -> SUBSET Element]
      /\ ghosts \in Nat
  BY ConsoleParts
<1>2. /\ Running /\ agenda[t] # << >> /\ agenda[t][1].op = "key" /\ Len(agenda[t]) = 1
      /\ agenda[t][1].stage = "use" /\ t = "console" /\ "console" \in Thread
  BY <1>1, AtTaskIs, WhoseTasks DEF KeyHandled, Thread
<1>a. PICK k : k = [Task("key", None) EXCEPT !.stage = "done"]
  OBVIOUS
<1>b. k = KeyDone /\ k \in Tasks /\ k.op = "key" /\ k.stage = "done"
  BY <1>a DEF KeyDone, Task, Tasks, Operations, Stages
<1>c. PICK tasks \in {<< >>} \cup {<<Draw(x)>> : x \in Controls \cap elements} :
        Then(t, tasks \o <<k>>)
  BY <1>a DEF KeyHandled
<1>d. PICK b : b = tasks \o <<k>>
  OBVIOUS
<1>e. /\ b \in Seq(Tasks)
      /\ \/ Len(b) = 1 /\ b[1] = k
         \/ /\ Len(b) = 2 /\ b[1].op = "draw" /\ b[1].stage = "start" /\ b[2] = k
            /\ b[1].e \in elements /\ b[1].e # Loading
  <2>1. CASE tasks = << >>
    <3>1. << >> \o <<k>> = <<k>>
      OBVIOUS
    <3> QED
      BY <1>b, <1>d, <2>1, <3>1
  <2>2. CASE tasks # << >>
    <3>1. PICK x \in Controls \cap elements : tasks = <<Draw(x)>>
      BY <1>c, <2>2
    <3>2. PICK d : d = Draw(x)
      OBVIOUS
    <3>3. d \in Tasks /\ d.op = "draw" /\ d.stage = "start" /\ d.e = x /\ x # Loading
      BY <3>2, NamesDiffer DEF Draw, Task, Tasks, Operations, Stages
    <3>4. PICK w : w = <<k>>
      OBVIOUS
    <3>5. /\ w \in Seq(Tasks) /\ Len(w) = 1 /\ w[1] = k
          /\ tasks \in Seq(Tasks) /\ Len(tasks) = 1 /\ tasks[1] = d
      BY <1>b, <3>1, <3>2, <3>3, <3>4
    <3>6. /\ b \in Seq(Tasks) /\ Len(b) = Len(tasks) + Len(w)
          /\ \A i \in 1 .. Len(tasks) + Len(w) :
               b[i] = IF i <= Len(tasks) THEN tasks[i] ELSE w[i - Len(tasks)]
      <4>1. b = tasks \o w
        BY <1>d, <3>4
      <4> QED
        BY <3>5, <4>1, ConcatProperties
    <3>7. Len(b) = 2 /\ b[1] = d /\ b[2] = k
      <4>1. /\ 1 \in 1 .. Len(tasks) + Len(w) /\ 2 \in 1 .. Len(tasks) + Len(w)
            /\ 1 <= Len(tasks) /\ ~(2 <= Len(tasks)) /\ 2 - Len(tasks) = 1
        BY <3>5
      <4> QED
        BY <3>5, <3>6, <4>1
    <3> QED
      BY <3>3, <3>6, <3>7
  <2> QED
    BY <2>1, <2>2
<1>3. /\ Then("console", b) /\ exitFlag' = exitFlag /\ instance' = instance
      /\ phase' = phase /\ elements' = elements /\ needRedraw' = needRedraw
      /\ screen' = screen /\ deleteLock' = deleteLock /\ elementsLock' = elementsLock
      /\ todo' = todo /\ cpc' = cpc /\ els' = els /\ events' = events
      /\ needClear' = needClear /\ hovered' = hovered /\ markerCreated' = markerCreated
      /\ bFirstTime' = bFirstTime /\ ghosts' = ghosts
      /\ early' = early
  BY <1>2, <1>c, <1>d DEF KeyHandled, life, lists, locks, work, console, input, past, Stages
<1>4. /\ agenda' \in [Thread -> Seq(Tasks)] /\ agenda'["console"] = b
      /\ OfConsole = agenda["console"] /\ OfConsole' = b /\ OfGame' = OfGame
      /\ \A u \in Thread : u # "console" => agenda'[u] = agenda[u]
  BY <1>1, <1>2, <1>3, <1>e, Replaces DEF OfConsole, OfGame, Thread
<1>5. TypeOK' /\ AgendaTyped'
  BY <1>1, <1>3, <1>4, ConsoleTypes, ConsoleTypesHold
<1>6. /\ GameTasks' /\ ConsoleTasks' /\ (KeyHeld' <=> KeyHeld) /\ (Deleting' <=> Deleting)
      /\ ~DrawsLoading'
  <2>1. GameTasks' /\ (Deleting' <=> Deleting)
    BY <1>1, <1>4 DEF GameTasks, Deleting
  <2>2. cpc' \notin {"loop", "paint", "ended"}
    <3>1. OfConsole # << >>
      BY <1>2, <1>4
    <3> QED
      BY <1>1, <1>3, <3>1 DEF ConsoleTasks
  <2>3. ConsoleTasks'
    <3>1. elements \subseteq Element
      BY <1>1, ConsoleTypes
    <3>2. CASE Len(b) = 1 /\ b[1] = k
      BY <1>4, <1>b, <2>2, <3>2 DEF ConsoleTasks
    <3>3. CASE /\ Len(b) = 2 /\ b[1].op = "draw" /\ b[1].stage = "start" /\ b[2] = k
               /\ b[1].e \in elements
      BY <1>4, <1>b, <2>2, <3>1, <3>3 DEF ConsoleTasks
    <3> QED
      BY <1>e, <3>2, <3>3
  <2>4. KeyHeld
    <3>1. 1 \in 1 .. Len(OfConsole) /\ OfConsole[1].op = "key" /\ OfConsole[1].stage # "start"
      BY <1>2, <1>4
    <3> QED
      BY <3>1 DEF KeyHeld
  <2>5. KeyHeld'
    <3>1. PICK i \in 1 .. Len(b) : b[i] = k
      BY <1>e
    <3> QED
      BY <1>4, <1>b, <3>1 DEF KeyHeld
  <2>6. ~DrawsLoading'
    <3>1. \A i \in 1 .. Len(b) : b[i].op = "draw" => b[i].e # Loading
      BY <1>b, <1>e
    <3> QED
      BY <1>4, <3>1 DEF DrawsLoading
  <2> QED
    BY <2>1, <2>3, <2>4, <2>5, <2>6
<1>7. LockHeld' /\ DeleteHeld'
  BY <1>1, <1>3, <1>6, LocksKept
<1>8. Ended' /\ GhostsBounded'
  BY <1>1, <1>3 DEF Ended, GhostsBounded
<1>9. Listed'
  <2>1. todo["console"] = {}
    BY <1>1, <1>2 DEF Listed, Clearing
  <2>2. TasksListed("console")'
    <3>1. \A i \in 1 .. Len(b) : b[i].op \in {"draw", "key"} /\
                                 (b[i].op = "draw" => b[i].e \in elements)
      BY <1>b, <1>e
    <3> QED
      BY <1>3, <1>4, <3>1 DEF TasksListed, ElementListed
  <2>3. Clearing("console")'
    BY <1>3, <2>1 DEF Clearing
  <2>4. cpc' # "paint" => els' = {}
    BY <1>1, <1>2, <1>3 DEF Listed
  <2> QED
    BY <1>1, <1>2, <1>3, <1>4, <2>2, <2>3, <2>4, ListedIf
<1>10. MarkerListed'
  <2>1. Len(OfConsole') >= 1 => OfConsole'[1].op \notin {"add", "move"}
    BY <1>4, <1>b, <1>e
  <2> QED
    BY <1>1, <1>2, <1>3, <1>4, <2>1 DEF MarkerListed
<1>11. Haunted'
  BY <1>1, <1>2, <1>3, <1>6, HauntedKept
<1>12. NoneForgotten'
  <2>1. ASSUME NEW e \in Element, e \in elements', instance, Running,
               \/ e \notin elements
               \/ e \in screen \cup needRedraw \cup els
               \/ \E u \in Thread : WillDraw(u, e)
        PROVE  e \in screen' \cup needRedraw' \cup els' \/ \E u \in Thread : WillDraw(u, e)'
    <3>1. ~HeadDraws("console", e)
      BY <1>2 DEF HeadDraws
    <3>2. CASE \E u \in Thread : WillDraw(u, e)
      BY <1>1, <1>2, <1>3, <1>e, <3>1, <3>2, StillThen
    <3> QED
      BY <1>3, <2>1, <3>2
  <2>2. elements' \subseteq Element
    BY <1>1, <1>3, <1>5, ConsoleTypes DEF TypeOK
  <2>3. NoneForgotten /\ (instance' => instance) /\ (Running' => Running)
    BY <1>1, <1>2, <1>3 DEF Running
  <2> QED
    BY <2>1, <2>2, <2>3, NoneForgottenIf
<1> QED
  BY <1>5, <1>6, <1>7, <1>8, <1>9, <1>10, <1>11, <1>12, ConsoleWhole

\* The lock is given back.
LEMMA KeyUnlockKeeps ==
  ASSUME ConsoleIInv, NEW t \in Thread, KeyUnlock(t)
  PROVE  ConsoleIInv'
<1>1. /\ TypeOK /\ AgendaTyped /\ GameTasks /\ ConsoleTasks /\ LockHeld /\ DeleteHeld
      /\ Ended /\ GhostsBounded /\ NoneForgotten
      /\ Running => Listed /\ MarkerListed /\ Haunted
      /\ agenda \in [Thread -> Seq(Tasks)] /\ todo \in [Thread -> SUBSET Element]
      /\ ghosts \in Nat
  BY ConsoleParts
<1>2. /\ Running /\ agenda[t] # << >> /\ agenda[t][1].op = "key" /\ Len(agenda[t]) = 1
      /\ agenda[t][1].stage = "done" /\ t = "console" /\ "console" \in Thread
  BY <1>1, AtTaskIs, WhoseTasks DEF KeyUnlock, Thread
<1>3. /\ Finish("console") /\ instance' = instance /\ phase' = phase
      /\ elements' = elements /\ needRedraw' = needRedraw /\ screen' = screen
      /\ deleteLock' = deleteLock /\ elementsLock' = Unlocked("console") /\ todo' = todo
      /\ cpc' = cpc /\ els' = els /\ events' = events /\ needClear' = needClear
      /\ hovered' = hovered /\ markerCreated' = markerCreated /\ exitFlag' = exitFlag
      /\ bFirstTime' = bFirstTime /\ ghosts' = ghosts
      /\ early' = early
  BY <1>2 DEF KeyUnlock, life, lists, locks, work, console, input, past, Stages
<1>4. /\ agenda' \in [Thread -> Seq(Tasks)] /\ OfGame' = OfGame
      /\ OfConsole = agenda["console"] /\ OfConsole' = agenda'["console"]
      /\ Len(OfConsole) = 1 /\ Len(OfConsole') = 0 /\ OfConsole' = << >>
      /\ OfConsole[1].op = "key" /\ OfConsole[1].stage = "done"
      /\ \A u \in Thread : u # "console" => agenda'[u] = agenda[u]
  <2>1. /\ agenda' \in [Thread -> Seq(Tasks)] /\ Len(agenda'["console"]) = 0
        /\ \A u \in Thread : u # "console" => agenda'[u] = agenda[u]
    BY <1>1, <1>2, <1>3, Finishes
  <2>2. agenda'["console"] = << >>
    BY <1>2, <2>1, EmptySeq
  <2> QED
    BY <1>2, <2>1, <2>2 DEF OfConsole, OfGame, Thread
<1>6. /\ GameTasks' /\ ConsoleTasks' /\ ~KeyHeld' /\ KeyHeld /\ (Deleting' <=> Deleting)
      /\ ~DrawsLoading'
  <2>1. GameTasks' /\ (Deleting' <=> Deleting)
    BY <1>1, <1>4 DEF GameTasks, Deleting
  <2>2. ConsoleTasks'
    BY <1>4 DEF ConsoleTasks
  <2>3. ~KeyHeld' /\ ~DrawsLoading'
    BY <1>4 DEF KeyHeld, DrawsLoading
  <2>4. KeyHeld
    <3>1. 1 \in 1 .. Len(OfConsole)
      BY <1>4
    <3> QED
      BY <1>4, <3>1 DEF KeyHeld
  <2> QED
    BY <2>1, <2>2, <2>3, <2>4
<1>a. elementsLock' = [owner |-> None, depth |-> 0]
  BY <1>1, <1>3, <1>6 DEF LockHeld, Unlocked
<1>5. TypeOK' /\ AgendaTyped'
  <2>1. elementsLock' \in [owner : Thread \cup {None}, depth : 0 .. 2]
    BY <1>2, <1>a
  <2> QED
    BY <1>1, <1>3, <1>4, <2>1, ConsoleTypes, ConsoleTypesHold
<1>7. LockHeld' /\ DeleteHeld'
  BY <1>1, <1>3, <1>6, <1>a DEF LockHeld, DeleteHeld
<1>8. Ended' /\ GhostsBounded'
  BY <1>1, <1>3 DEF Ended, GhostsBounded
<1>9. Listed'
  <2>1. todo["console"] = {}
    BY <1>1, <1>2 DEF Listed, Clearing
  <2>2. TasksListed("console")'
    BY <1>4 DEF TasksListed
  <2>3. Clearing("console")'
    BY <1>3, <2>1 DEF Clearing
  <2>4. cpc' # "paint" => els' = {}
    BY <1>1, <1>2, <1>3 DEF Listed
  <2> QED
    BY <1>1, <1>2, <1>3, <1>4, <2>2, <2>3, <2>4, ListedIf
<1>10. MarkerListed'
  BY <1>1, <1>2, <1>3, MarkerFinishes
<1>11. Haunted'
  BY <1>1, <1>2, <1>3, <1>6, HauntedKept
<1>12. NoneForgotten'
  <2>1. ASSUME NEW e \in Element, e \in elements', instance, Running,
               \/ e \notin elements
               \/ e \in screen \cup needRedraw \cup els
               \/ \E u \in Thread : WillDraw(u, e)
        PROVE  e \in screen' \cup needRedraw' \cup els' \/ \E u \in Thread : WillDraw(u, e)'
    <3>1. ASSUME NEW u \in Thread, WillDraw(u, e) PROVE WillDraw(u, e)'
      <4>1. ~HeadDraws("console", e) /\ Then("console", << >>) /\ << >> \in Seq(Tasks)
        BY <1>2, <1>3 DEF HeadDraws, Finish
      <4> QED
        BY <1>1, <1>2, <1>3, <3>1, <4>1, StillThen
    <3> QED
      BY <1>3, <2>1, <3>1
  <2>2. elements' \subseteq Element
    BY <1>1, <1>3, <1>5, ConsoleTypes DEF TypeOK
  <2>3. NoneForgotten /\ (instance' => instance) /\ (Running' => Running)
    BY <1>1, <1>2, <1>3 DEF Running
  <2> QED
    BY <2>1, <2>2, <2>3, NoneForgottenIf
<1> QED
  BY <1>5, <1>6, <1>7, <1>8, <1>9, <1>10, <1>11, <1>12, ConsoleWhole

-----------------------------------------------------------------------------
(* The steps of the console's thread itself.                                *)

\* A thread that had nothing to do has been given tasks.
LEMMA GivenTasks ==
  ASSUME AgendaTyped, NEW t \in Thread, NEW b \in Seq(Tasks), agenda[t] = << >>,
         agenda' = [agenda EXCEPT ![t] = b]
  PROVE  /\ agenda' \in [Thread -> Seq(Tasks)] /\ agenda'[t] = b
         /\ \A u \in Thread : u # t => agenda'[u] = agenda[u]
BY DEF AgendaTyped

\* It had nothing drawn.
LEMMA NothingDrawn ==
  ASSUME NEW t \in Thread, NEW e, agenda[t] = << >>
  PROVE  ~WillDraw(t, e)
BY DEF WillDraw

\* The thread goes on, or ends.
LEMMA LoopBeginsKeeps ==
  ASSUME ConsoleIInv, LoopBegins
  PROVE  ConsoleIInv'
<1>1. /\ TypeOK /\ AgendaTyped /\ GameTasks /\ ConsoleTasks /\ LockHeld /\ DeleteHeld
      /\ Ended /\ GhostsBounded /\ NoneForgotten
      /\ Running => Listed /\ MarkerListed /\ Haunted
      /\ agenda \in [Thread -> Seq(Tasks)] /\ todo \in [Thread -> SUBSET Element]
      /\ ghosts \in Nat
  BY ConsoleParts
<1>2. /\ Running /\ cpc = "loop" /\ cpc' \in {"ended", "events"} /\ "console" \in Thread
      /\ OfConsole = << >>
  BY <1>1 DEF LoopBegins, ConsoleTasks, Thread
<1>3. /\ instance' = instance /\ phase' = phase /\ elements' = elements
      /\ needRedraw' = needRedraw /\ screen' = screen /\ deleteLock' = deleteLock
      /\ elementsLock' = elementsLock /\ todo' = todo /\ els' = els /\ events' = MaxEvents
      /\ needClear' = needClear /\ hovered' = hovered /\ markerCreated' = markerCreated
      /\ exitFlag' = exitFlag /\ bFirstTime' = bFirstTime /\ ghosts' = ghosts
      /\ early' = early
      /\ agenda' = agenda
  BY DEF LoopBegins, life, lists, locks, work, console, input, past, Stages
<1>5. TypeOK' /\ AgendaTyped'
  <2>1. events' \in 0 .. MaxEvents /\ cpc' \in {"loop", "events", "update", "paint", "ended"}
    BY <1>2, <1>3, ConsoleAssumption
  <2> QED
    BY <1>1, <1>3, <2>1, ConsoleTypes, ConsoleTypesHold
<1>6. /\ GameTasks' /\ ConsoleTasks' /\ (KeyHeld' <=> KeyHeld) /\ (Deleting' <=> Deleting)
      /\ (DrawsLoading' <=> DrawsLoading)
  <2>1. OfGame' = OfGame /\ OfConsole' = OfConsole
    BY <1>3 DEF OfGame, OfConsole
  <2>2. ConsoleTasks'
    BY <1>2, <2>1 DEF ConsoleTasks
  <2> QED
    BY <1>1, <2>1, <2>2 DEF GameTasks, KeyHeld, Deleting, DrawsLoading
<1>7. LockHeld' /\ DeleteHeld'
  BY <1>1, <1>2, <1>3, <1>6 DEF LockHeld, DeleteHeld
<1>8. Ended' /\ GhostsBounded'
  BY <1>1, <1>2, <1>3 DEF Ended, GhostsBounded, Running
<1>9. Running' => Listed'
  <2>1. TasksListed("console")' /\ Clearing("console")'
    BY <1>1, <1>2, <1>3 DEF Listed, TasksListed, Clearing, ElementListed, Running
  <2> QED
    BY <1>1, <1>2, <1>3, <2>1, ListedIf DEF Listed, Running
<1>10. MarkerListed'
  BY <1>1, <1>2, <1>3 DEF MarkerListed, OfConsole
<1>11. Haunted'
  BY <1>1, <1>2, <1>3, <1>6, HauntedKept
<1>12. NoneForgotten'
  <2>1. ASSUME NEW e \in Element, e \in elements', instance, Running,
               \/ e \notin elements
               \/ e \in screen \cup needRedraw \cup els
               \/ \E u \in Thread : WillDraw(u, e)
        PROVE  e \in screen' \cup needRedraw' \cup els' \/ \E u \in Thread : WillDraw(u, e)'
    <3>1. ASSUME NEW u \in Thread, WillDraw(u, e) PROVE WillDraw(u, e)'
      BY <1>3, <3>1, OtherDraws
    <3> QED
      BY <1>3, <2>1, <3>1
  <2>2. elements' \subseteq Element
    BY <1>1, <1>3, <1>5, ConsoleTypes DEF TypeOK
  <2>3. NoneForgotten /\ (instance' => instance) /\ (Running' => Running)
    BY <1>1, <1>2, <1>3 DEF Running
  <2> QED
    BY <2>1, <2>2, <2>3, NoneForgottenIf
<1> QED
  BY <1>5, <1>6, <1>7, <1>8, <1>9, <1>10, <1>11, <1>12, ConsoleWhole

\* What is to be drawn is taken, to be painted.
LEMMA UpdateTakeKeeps ==
  ASSUME ConsoleIInv, UpdateTake
  PROVE  ConsoleIInv'
<1>1. /\ TypeOK /\ AgendaTyped /\ GameTasks /\ ConsoleTasks /\ LockHeld /\ DeleteHeld
      /\ Ended /\ GhostsBounded /\ NoneForgotten
      /\ Running => Listed /\ MarkerListed /\ Haunted
      /\ agenda \in [Thread -> Seq(Tasks)] /\ todo \in [Thread -> SUBSET Element]
      /\ ghosts \in Nat
  BY ConsoleParts
<1>2. /\ Running /\ cpc = "update" /\ "console" \in Thread /\ OfConsole = << >>
      /\ deleteLock = None
  BY DEF UpdateTake, OfConsole, Thread
<1>3. /\ instance' = instance /\ phase' = phase /\ elements' = elements
      /\ needRedraw' = {} /\ screen' = screen /\ deleteLock' = "console"
      /\ elementsLock' = elementsLock /\ todo' = todo /\ cpc' = "paint"
      /\ els' = needRedraw /\ events' = events /\ needClear' = needClear
      /\ hovered' = hovered /\ markerCreated' = markerCreated /\ exitFlag' = exitFlag
      /\ bFirstTime' = bFirstTime /\ ghosts' = ghosts /\ early' = early
      /\ agenda' = agenda
  BY DEF UpdateTake, life, lists, locks, work, console, input, past, Stages
<1>5. TypeOK' /\ AgendaTyped'
  <2>1. /\ els' \subseteq Element /\ needRedraw' \subseteq Element
        /\ deleteLock' \in Thread \cup {None}
    BY <1>1, <1>2, <1>3, ConsoleTypes
  <2> QED
    BY <1>1, <1>3, <2>1, ConsoleTypes, ConsoleTypesHold
<1>6. /\ GameTasks' /\ ConsoleTasks' /\ (KeyHeld' <=> KeyHeld) /\ (Deleting' <=> Deleting)
      /\ ~DrawsLoading /\ ~DrawsLoading'
  <2>1. OfGame' = OfGame /\ OfConsole' = OfConsole
    BY <1>3 DEF OfGame, OfConsole
  <2>2. ConsoleTasks' /\ ~DrawsLoading /\ ~DrawsLoading'
    BY <1>2, <2>1 DEF ConsoleTasks, DrawsLoading
  <2> QED
    BY <1>1, <2>1, <2>2 DEF GameTasks, KeyHeld, Deleting
<1>7. LockHeld' /\ DeleteHeld'
  <2>1. ~Deleting
    BY <1>1, <1>2, NamesDiffer DEF DeleteHeld
  <2> QED
    BY <1>1, <1>2, <1>3, <1>6, <2>1 DEF LockHeld, DeleteHeld
<1>8. Ended' /\ GhostsBounded'
  BY <1>1, <1>2, <1>3 DEF Ended, GhostsBounded, Running
<1>9. Running' => Listed'
  <2>1. TasksListed("console")' /\ Clearing("console")'
    BY <1>1, <1>2, <1>3 DEF Listed, TasksListed, Clearing, ElementListed, Running
  <2> QED
    BY <1>1, <1>2, <1>3, <2>1, ListedIf DEF Listed, Running
<1>10. MarkerListed'
  BY <1>1, <1>2, <1>3 DEF MarkerListed, OfConsole
<1>11. Haunted'
  <2>1. els = {}
    BY <1>1, <1>2 DEF Listed
  <2>2. /\ Once(Loading \in els') + Once(Loading \in needRedraw' \/ DrawsLoading')
             <= Once(Loading \in els) + Once(Loading \in needRedraw \/ DrawsLoading)
        /\ Once(hovered' = Loading) = Once(hovered = Loading)
    BY <1>3, <1>6, <2>1 DEF Once
  <2>3. /\ Once(Loading \in els) \in 0 .. 1 /\ Once(Loading \in els') \in 0 .. 1
        /\ Once(Loading \in needRedraw' \/ DrawsLoading') \in 0 .. 1
        /\ Once(Loading \in needRedraw \/ DrawsLoading) \in 0 .. 1
        /\ Once(hovered = Loading) \in 0 .. 1
    BY DEF Once
  <2>4. ghosts + Haunting <= 2 => ghosts' + Haunting' <= 2
    BY <1>1, <1>3, <2>2, <2>3 DEF Haunting
  <2> QED
    BY <1>1, <1>2, <1>3, <2>4 DEF Haunted
<1>12. NoneForgotten'
  <2>1. ASSUME NEW e \in Element, e \in elements', instance, Running,
               \/ e \notin elements
               \/ e \in screen \cup needRedraw \cup els
               \/ \E u \in Thread : WillDraw(u, e)
        PROVE  e \in screen' \cup needRedraw' \cup els' \/ \E u \in Thread : WillDraw(u, e)'
    <3>1. ASSUME NEW u \in Thread, WillDraw(u, e) PROVE WillDraw(u, e)'
      BY <1>3, <3>1, OtherDraws
    <3>2. els = {}
      BY <1>1, <1>2 DEF Listed
    <3> QED
      BY <1>3, <2>1, <3>1, <3>2
  <2>2. elements' \subseteq Element
    BY <1>1, <1>3, <1>5, ConsoleTypes DEF TypeOK
  <2>3. NoneForgotten /\ (instance' => instance) /\ (Running' => Running)
    BY <1>1, <1>2, <1>3 DEF Running
  <2> QED
    BY <2>1, <2>2, <2>3, NoneForgottenIf
<1> QED
  BY <1>5, <1>6, <1>7, <1>8, <1>9, <1>10, <1>11, <1>12, ConsoleWhole

\* An element is painted, whether it is in the list or not.
LEMMA PaintKeeps ==
  ASSUME ConsoleIInv, Paint
  PROVE  ConsoleIInv'
<1>1. /\ TypeOK /\ AgendaTyped /\ GameTasks /\ ConsoleTasks /\ LockHeld /\ DeleteHeld
      /\ Ended /\ GhostsBounded /\ NoneForgotten
      /\ Running => Listed /\ MarkerListed /\ Haunted
      /\ agenda \in [Thread -> Seq(Tasks)] /\ todo \in [Thread -> SUBSET Element]
      /\ ghosts \in Nat
  BY ConsoleParts
<1>2. Running /\ cpc = "paint" /\ "console" \in Thread
  BY DEF Paint, Thread
<1>0. PICK x \in els :
        /\ els' = els \ {x} /\ screen' = screen \cup ({x} \cap elements)
        /\ ghosts' = IF x \in elements THEN ghosts ELSE ghosts + 1
  BY DEF Paint
<1>3. /\ instance' = instance /\ phase' = phase /\ elements' = elements
      /\ needRedraw' = needRedraw /\ screen' = screen \cup ({x} \cap elements)
      /\ deleteLock' = deleteLock /\ elementsLock' = elementsLock /\ todo' = todo
      /\ cpc' = cpc /\ els' = els \ {x} /\ events' = events /\ needClear' = needClear
      /\ hovered' = hovered /\ markerCreated' = markerCreated /\ exitFlag' = exitFlag
      /\ bFirstTime' = bFirstTime
      /\ ghosts' = (IF x \in elements THEN ghosts ELSE ghosts + 1) /\ agenda' = agenda
      /\ early' = early
  BY <1>0 DEF Paint, life, lists, locks, work, console, input, past, Stages
<1>4. x \in elements \/ (x = Loading /\ Loading \notin elements)
  BY <1>1, <1>2 DEF Listed, ElementListed
<1>5. TypeOK' /\ AgendaTyped'
  <2>1. els' \subseteq Element /\ screen' \subseteq Element /\ ghosts' \in Nat
    BY <1>1, <1>3, ConsoleTypes
  <2> QED
    BY <1>1, <1>3, <2>1, ConsoleTypes, ConsoleTypesHold
<1>6. /\ GameTasks' /\ ConsoleTasks' /\ (KeyHeld' <=> KeyHeld) /\ (Deleting' <=> Deleting)
      /\ (DrawsLoading' <=> DrawsLoading)
  BY <1>1, <1>2, <1>3
     DEF GameTasks, ConsoleTasks, KeyHeld, Deleting, DrawsLoading, OfGame, OfConsole
<1>7. LockHeld' /\ DeleteHeld'
  BY <1>1, <1>3, <1>6, LocksKept
<1>9. Running' => Listed'
  <2>1. TasksListed("console")' /\ Clearing("console")'
    BY <1>1, <1>2, <1>3 DEF Listed, TasksListed, Clearing, ElementListed
  <2> QED
    BY <1>1, <1>2, <1>3, <2>1, ListedIf
<1>10. MarkerListed'
  BY <1>1, <1>2, <1>3 DEF MarkerListed, OfConsole
<1>a. /\ Once(Loading \in els) \in 0 .. 1 /\ Once(Loading \in els') \in 0 .. 1
      /\ Once(Loading \in needRedraw \/ DrawsLoading) \in 0 .. 1
      /\ Once(hovered = Loading) \in 0 .. 1
  BY DEF Once
<1>11. Haunted' /\ ghosts' <= 2
  <2>1. CASE x \in elements
    <3>1. Haunted'
      BY <1>1, <1>2, <1>3, <1>6, <2>1, HauntedKept
    <3> QED
      BY <1>1, <1>3, <2>1, <3>1 DEF GhostsBounded
  <2>2. CASE x = Loading /\ Loading \notin elements
    <3>1. ghosts + Haunting <= 2 /\ \A t \in Thread : Loading \notin todo[t]
      BY <1>1, <1>2, <2>2 DEF Haunted
    <3>2. Once(Loading \in els) = 1 /\ Once(Loading \in els') = 0
      BY <1>3, <2>2 DEF Once
    <3>3. /\ Once(Loading \in needRedraw' \/ DrawsLoading')
               = Once(Loading \in needRedraw \/ DrawsLoading)
          /\ Once(hovered' = Loading) = Once(hovered = Loading)
      BY <1>3, <1>6 DEF Once
    <3>4. ghosts' = ghosts + 1
      BY <1>3, <2>2
    <3>5. ghosts' + Haunting' <= 2 /\ ghosts' <= 2
      BY <1>1, <1>a, <3>1, <3>2, <3>3, <3>4 DEF Haunting
    <3> QED
      BY <1>3, <2>2, <3>1, <3>5 DEF Haunted
  <2> QED
    BY <1>4, <2>1, <2>2
<1>8. Ended' /\ GhostsBounded'
  BY <1>1, <1>3, <1>11 DEF Ended, GhostsBounded
<1>12. NoneForgotten'
  <2>1. ASSUME NEW e \in Element, e \in elements', instance, Running,
               \/ e \notin elements
               \/ e \in screen \cup needRedraw \cup els
               \/ \E u \in Thread : WillDraw(u, e)
        PROVE  e \in screen' \cup needRedraw' \cup els' \/ \E u \in Thread : WillDraw(u, e)'
    <3>1. ASSUME NEW u \in Thread, WillDraw(u, e) PROVE WillDraw(u, e)'
      BY <1>3, <3>1, OtherDraws
    <3> QED
      BY <1>3, <2>1, <3>1
  <2>2. elements' \subseteq Element
    BY <1>1, <1>3, <1>5, ConsoleTypes DEF TypeOK
  <2>3. NoneForgotten /\ (instance' => instance) /\ (Running' => Running)
    BY <1>1, <1>2, <1>3 DEF Running
  <2> QED
    BY <2>1, <2>2, <2>3, NoneForgottenIf
<1> QED
  BY <1>5, <1>6, <1>7, <1>8, <1>9, <1>10, <1>11, <1>12, ConsoleWhole

\* All has been painted.
LEMMA UpdateEndKeeps ==
  ASSUME ConsoleIInv, UpdateEnd
  PROVE  ConsoleIInv'
<1>1. /\ TypeOK /\ AgendaTyped /\ GameTasks /\ ConsoleTasks /\ LockHeld /\ DeleteHeld
      /\ Ended /\ GhostsBounded /\ NoneForgotten
      /\ Running => Listed /\ MarkerListed /\ Haunted
      /\ agenda \in [Thread -> Seq(Tasks)] /\ todo \in [Thread -> SUBSET Element]
      /\ ghosts \in Nat
  BY ConsoleParts
<1>2. Running /\ cpc = "paint" /\ els = {} /\ "console" \in Thread /\ OfConsole = << >>
  BY <1>1 DEF UpdateEnd, Thread, ConsoleTasks
<1>3. /\ instance' = instance /\ phase' = phase /\ elements' = elements
      /\ needRedraw' = needRedraw /\ screen' = screen /\ deleteLock' = None
      /\ elementsLock' = elementsLock /\ todo' = todo /\ cpc' = "loop" /\ els' = els
      /\ events' = events /\ needClear' = needClear /\ hovered' = hovered
      /\ markerCreated' = markerCreated /\ exitFlag' = exitFlag
      /\ bFirstTime' = bFirstTime /\ ghosts' = ghosts /\ early' = early
      /\ agenda' = agenda
  BY DEF UpdateEnd, life, lists, locks, work, console, input, past, Stages
<1>5. TypeOK' /\ AgendaTyped'
  <2>1. deleteLock' \in Thread \cup {None}
    BY <1>3
  <2> QED
    BY <1>1, <1>3, <2>1, ConsoleTypes, ConsoleTypesHold
<1>6. /\ GameTasks' /\ ConsoleTasks' /\ (KeyHeld' <=> KeyHeld) /\ (Deleting' <=> Deleting)
      /\ (DrawsLoading' <=> DrawsLoading)
  <2>1. OfGame' = OfGame /\ OfConsole' = OfConsole
    BY <1>3 DEF OfGame, OfConsole
  <2>2. ConsoleTasks'
    BY <1>2, <2>1 DEF ConsoleTasks
  <2> QED
    BY <1>1, <2>1, <2>2 DEF GameTasks, KeyHeld, Deleting, DrawsLoading
<1>7. LockHeld' /\ DeleteHeld'
  BY <1>1, <1>2, <1>3, <1>6 DEF LockHeld, DeleteHeld
<1>8. Ended' /\ GhostsBounded'
  BY <1>1, <1>2, <1>3 DEF Ended, GhostsBounded, Running
<1>9. Running' => Listed'
  <2>1. TasksListed("console")' /\ Clearing("console")'
    BY <1>1, <1>2, <1>3 DEF Listed, TasksListed, Clearing, ElementListed, Running
  <2> QED
    BY <1>1, <1>2, <1>3, <2>1, ListedIf DEF Listed, Running
<1>10. MarkerListed'
  BY <1>1, <1>2, <1>3 DEF MarkerListed, OfConsole
<1>11. Haunted'
  BY <1>1, <1>2, <1>3, <1>6, HauntedKept
<1>12. NoneForgotten'
  <2>1. ASSUME NEW e \in Element, e \in elements', instance, Running,
               \/ e \notin elements
               \/ e \in screen \cup needRedraw \cup els
               \/ \E u \in Thread : WillDraw(u, e)
        PROVE  e \in screen' \cup needRedraw' \cup els' \/ \E u \in Thread : WillDraw(u, e)'
    <3>1. ASSUME NEW u \in Thread, WillDraw(u, e) PROVE WillDraw(u, e)'
      BY <1>3, <3>1, OtherDraws
    <3> QED
      BY <1>3, <2>1, <3>1
  <2>2. elements' \subseteq Element
    BY <1>1, <1>3, <1>5, ConsoleTypes DEF TypeOK
  <2>3. NoneForgotten /\ (instance' => instance) /\ (Running' => Running)
    BY <1>1, <1>2, <1>3 DEF Running
  <2> QED
    BY <2>1, <2>2, <2>3, NoneForgottenIf
<1> QED
  BY <1>5, <1>6, <1>7, <1>8, <1>9, <1>10, <1>11, <1>12, ConsoleWhole

\* An event is read.
LEMMA EventKeeps ==
  ASSUME ConsoleIInv, NEW b \in Seq(Tasks), Event(b), needClear' \in BOOLEAN,
         \/ Len(b) = 0
         \/ /\ Len(b) = 2 /\ b[1].op = "look" /\ b[1].stage = "start"
            /\ b[2].op \in {"find", "key"} /\ b[2].stage = "start"
  PROVE  ConsoleIInv'
<1>1. /\ TypeOK /\ AgendaTyped /\ GameTasks /\ ConsoleTasks /\ LockHeld /\ DeleteHeld
      /\ Ended /\ GhostsBounded /\ NoneForgotten
      /\ Running => Listed /\ MarkerListed /\ Haunted
      /\ agenda \in [Thread -> Seq(Tasks)] /\ todo \in [Thread -> SUBSET Element]
      /\ ghosts \in Nat
  BY ConsoleParts
<1>2. /\ Running /\ cpc = "events" /\ agenda["console"] = << >> /\ events > 0
      /\ "console" \in Thread
  BY DEF Event, Reading, Thread
<1>b. \/ b = << >>
      \/ /\ Len(b) = 2 /\ b[1].op = "look" /\ b[1].stage = "start"
         /\ b[2].op \in {"find", "key"} /\ b[2].stage = "start"
  <2>1. Len(b) = 0 => b = << >>
    BY EmptySeq
  <2> QED
    BY <2>1
<1>3. /\ instance' = instance /\ phase' = phase /\ elements' = elements
      /\ needRedraw' = needRedraw /\ screen' = screen /\ deleteLock' = deleteLock
      /\ elementsLock' = elementsLock /\ todo' = todo /\ cpc' = cpc /\ els' = els
      /\ events' = events - 1 /\ hovered' = hovered /\ markerCreated' = markerCreated
      /\ exitFlag' = exitFlag /\ bFirstTime' = bFirstTime /\ ghosts' = ghosts
      /\ early' = instance
      /\ agenda' = [agenda EXCEPT !["console"] = b]
  BY DEF Event, life, lists, locks, work, console, input, past, Stages
<1>4. /\ agenda' \in [Thread -> Seq(Tasks)] /\ agenda'["console"] = b
      /\ OfConsole = agenda["console"] /\ OfConsole' = b /\ OfGame' = OfGame
      /\ \A u \in Thread : u # "console" => agenda'[u] = agenda[u]
  BY <1>1, <1>2, <1>3, GivenTasks DEF OfConsole, OfGame, Thread
<1>5. TypeOK' /\ AgendaTyped'
  <2>1. events' \in 0 .. MaxEvents
    BY <1>1, <1>2, <1>3, ConsoleTypes, ConsoleAssumption
  <2> QED
    BY <1>1, <1>3, <1>4, <2>1, ConsoleTypes, ConsoleTypesHold
<1>6. /\ GameTasks' /\ ConsoleTasks' /\ (KeyHeld' <=> KeyHeld) /\ (Deleting' <=> Deleting)
      /\ ~DrawsLoading'
  <2>1. GameTasks' /\ (Deleting' <=> Deleting)
    BY <1>1, <1>4 DEF GameTasks, Deleting
  <2>2. \A i \in 1 .. Len(b) : b[i].op \in {"look", "find", "key"} /\ b[i].stage = "start"
    <3>1. \A i \in 1 .. 2 : i = 1 \/ i = 2
      OBVIOUS
    <3>2. CASE b = << >>
      BY <3>2
    <3>3. CASE b # << >>
      BY <1>b, <3>1, <3>3
    <3> QED
      BY <3>2, <3>3
  <2>3. ConsoleTasks'
    <3>1. cpc' \notin {"loop", "paint", "ended"}
      BY <1>2, <1>3
    <3>2. CASE b = << >>
      BY <1>4, <3>1, <3>2 DEF ConsoleTasks
    <3>3. CASE b # << >>
      <4>1. /\ Len(OfConsole') = 2 /\ OfConsole'[1].op = "look"
            /\ OfConsole'[2].op \in {"find", "key"} /\ OfConsole'[2].stage = "start"
        BY <1>4, <1>b, <3>3
      <4> QED
        BY <3>1, <4>1 DEF ConsoleTasks
    <3> QED
      BY <3>2, <3>3
  <2>4. ~KeyHeld /\ ~KeyHeld' /\ ~DrawsLoading'
    BY <1>2, <1>4, <2>2 DEF KeyHeld, DrawsLoading
  <2> QED
    BY <2>1, <2>3, <2>4
<1>7. LockHeld' /\ DeleteHeld'
  BY <1>1, <1>3, <1>6, LocksKept
<1>8. Ended' /\ GhostsBounded'
  BY <1>1, <1>2, <1>3 DEF Ended, GhostsBounded, Running
<1>9. Listed'
  <2>1. todo["console"] = {}
    <3>1. Len(agenda["console"]) = 0
      BY <1>2
    <3> QED
      BY <1>1, <1>2, <3>1 DEF Listed, Clearing
  <2>2. TasksListed("console")'
    <3>1. \A i \in 1 .. 2 : i = 1 \/ i = 2
      OBVIOUS
    <3> QED
      BY <1>4, <1>b, <3>1 DEF TasksListed
  <2>3. Clearing("console")'
    BY <1>3, <2>1 DEF Clearing
  <2>4. cpc' # "paint" => els' = {}
    BY <1>1, <1>2, <1>3 DEF Listed
  <2> QED
    BY <1>1, <1>2, <1>3, <1>4, <2>2, <2>3, <2>4, ListedIf
<1>10. MarkerListed'
  BY <1>1, <1>2, <1>3, <1>4, <1>b DEF MarkerListed
<1>11. Haunted'
  BY <1>1, <1>2, <1>3, <1>6, HauntedKept
<1>12. NoneForgotten'
  <2>1. ASSUME NEW e \in Element, e \in elements', instance, Running,
               \/ e \notin elements
               \/ e \in screen \cup needRedraw \cup els
               \/ \E u \in Thread : WillDraw(u, e)
        PROVE  e \in screen' \cup needRedraw' \cup els' \/ \E u \in Thread : WillDraw(u, e)'
    <3>1. ASSUME NEW u \in Thread, WillDraw(u, e) PROVE WillDraw(u, e)'
      <4>1. u # "console"
        BY <1>2, <3>1, NothingDrawn
      <4> QED
        BY <1>3, <1>4, <3>1, <4>1, OtherDraws
    <3> QED
      BY <1>3, <2>1, <3>1
  <2>2. elements' \subseteq Element
    BY <1>1, <1>3, <1>5, ConsoleTypes DEF TypeOK
  <2>3. NoneForgotten /\ (instance' => instance) /\ (Running' => Running)
    BY <1>1, <1>2, <1>3 DEF Running
  <2> QED
    BY <2>1, <2>2, <2>3, NoneForgottenIf
<1> QED
  BY <1>5, <1>6, <1>7, <1>8, <1>9, <1>10, <1>11, <1>12, ConsoleWhole

\* There are no more events; the size of the screen has changed, or not.
LEMMA EventsEndKeeps ==
  ASSUME ConsoleIInv, EventsEnd
  PROVE  ConsoleIInv'
<1>1. /\ TypeOK /\ AgendaTyped /\ GameTasks /\ ConsoleTasks /\ LockHeld /\ DeleteHeld
      /\ Ended /\ GhostsBounded /\ NoneForgotten
      /\ Running => Listed /\ MarkerListed /\ Haunted
      /\ agenda \in [Thread -> Seq(Tasks)] /\ todo \in [Thread -> SUBSET Element]
      /\ ghosts \in Nat
  BY ConsoleParts
<1>2. /\ Running /\ cpc = "events" /\ agenda["console"] = << >> /\ "console" \in Thread
  BY DEF EventsEnd, Thread
<1>0. Clear \in Tasks /\ Clear.op = "clear" /\ Clear.stage = "start"
  BY DEF Clear, Task, Tasks, Operations, Stages
<1>a. PICK b : b = IF needClear THEN <<Clear>> ELSE << >>
  OBVIOUS
<1>b. /\ b \in Seq(Tasks)
      /\ \/ b = << >>
         \/ Len(b) = 1 /\ b[1].op \in {"clear", "find", "key"} /\ b[1].stage = "start"
  <2>1. PICK c : c = Clear
    OBVIOUS
  <2>2. b = <<c>> \/ b = << >>
    BY <1>a, <2>1
  <2>3. CASE b = << >>
    BY <2>3
  <2>4. CASE b = <<c>>
    BY <1>0, <2>1, <2>4
  <2> QED
    BY <2>2, <2>3, <2>4
<1>3. /\ instance' = instance /\ phase' = phase /\ elements' = elements
      /\ needRedraw' = needRedraw /\ screen' = screen /\ deleteLock' = deleteLock
      /\ elementsLock' = elementsLock /\ todo' = todo /\ cpc' = "update" /\ els' = els
      /\ events' = events /\ needClear' = FALSE /\ hovered' = hovered
      /\ markerCreated' = markerCreated /\ exitFlag' = exitFlag
      /\ bFirstTime' = bFirstTime /\ ghosts' = ghosts
      /\ early' = early
      /\ agenda' = [agenda EXCEPT !["console"] = b]
  <2>1. agenda' = [agenda EXCEPT !["console"] = b]
    <3>1. CASE needClear
      BY <1>a, <3>1 DEF EventsEnd
    <3>2. CASE ~needClear
      BY <1>1, <1>2, <1>a, <3>2 DEF EventsEnd
    <3> QED
      BY <3>1, <3>2
  <2> QED
    BY <2>1 DEF EventsEnd, life, lists, locks, work, console, input, past, Stages
<1>4. /\ agenda' \in [Thread -> Seq(Tasks)] /\ agenda'["console"] = b
      /\ OfConsole = agenda["console"] /\ OfConsole' = b /\ OfGame' = OfGame
      /\ \A u \in Thread : u # "console" => agenda'[u] = agenda[u]
  BY <1>1, <1>2, <1>3, <1>b, GivenTasks DEF OfConsole, OfGame, Thread
<1>5. TypeOK' /\ AgendaTyped'
  BY <1>1, <1>3, <1>4, ConsoleTypes, ConsoleTypesHold
<1>6. /\ GameTasks' /\ ConsoleTasks' /\ (KeyHeld' <=> KeyHeld) /\ (Deleting' <=> Deleting)
      /\ ~DrawsLoading'
  <2>1. GameTasks' /\ (Deleting' <=> Deleting)
    BY <1>1, <1>4 DEF GameTasks, Deleting
  <2>2. \A i \in 1 .. Len(b) : i = 1 /\ b[i].op \in {"clear", "find", "key"}
                                 /\ b[i].stage = "start"
    <3>1. \A i \in 1 .. 1 : i = 1
      OBVIOUS
    <3>2. CASE b = << >>
      BY <3>2
    <3>3. CASE Len(b) = 1
      <4>1. b[1].op \in {"clear", "find", "key"} /\ b[1].stage = "start"
        BY <1>b, <3>3
      <4> QED
        BY <3>1, <3>3, <4>1
    <3> QED
      BY <1>b, <3>2, <3>3
  <2>3. ConsoleTasks'
    <3>1. cpc' \notin {"loop", "paint", "ended"}
      BY <1>2, <1>3
    <3>2. CASE b = << >>
      BY <1>4, <3>1, <3>2 DEF ConsoleTasks
    <3>3. CASE Len(b) = 1 /\ b[1].op \in {"clear", "find", "key"} /\ b[1].stage = "start"
      BY <1>4, <3>1, <3>3 DEF ConsoleTasks
    <3> QED
      BY <1>b, <3>2, <3>3
  <2>4. ~KeyHeld /\ ~KeyHeld' /\ ~DrawsLoading'
    BY <1>2, <1>4, <2>2 DEF KeyHeld, DrawsLoading
  <2> QED
    BY <2>1, <2>3, <2>4
<1>7. LockHeld' /\ DeleteHeld'
  BY <1>1, <1>2, <1>3, <1>6 DEF LockHeld, DeleteHeld
<1>8. Ended' /\ GhostsBounded'
  BY <1>1, <1>2, <1>3 DEF Ended, GhostsBounded, Running
<1>9. Listed'
  <2>1. todo["console"] = {}
    <3>1. Len(agenda["console"]) = 0
      BY <1>2
    <3> QED
      BY <1>1, <1>2, <3>1 DEF Listed, Clearing
  <2>2. TasksListed("console")'
    <3>1. \A i \in 1 .. 1 : i = 1
      OBVIOUS
    <3> QED
      BY <1>4, <1>b, <3>1 DEF TasksListed
  <2>3. Clearing("console")'
    BY <1>3, <2>1 DEF Clearing
  <2>4. cpc' # "paint" => els' = {}
    BY <1>1, <1>2, <1>3 DEF Listed
  <2> QED
    BY <1>1, <1>2, <1>3, <1>4, <2>2, <2>3, <2>4, ListedIf
<1>10. MarkerListed'
  BY <1>1, <1>2, <1>3, <1>4, <1>b DEF MarkerListed
<1>11. Haunted'
  BY <1>1, <1>2, <1>3, <1>6, HauntedKept
<1>12. NoneForgotten'
  <2>1. ASSUME NEW e \in Element, e \in elements', instance, Running,
               \/ e \notin elements
               \/ e \in screen \cup needRedraw \cup els
               \/ \E u \in Thread : WillDraw(u, e)
        PROVE  e \in screen' \cup needRedraw' \cup els' \/ \E u \in Thread : WillDraw(u, e)'
    <3>1. ASSUME NEW u \in Thread, WillDraw(u, e) PROVE WillDraw(u, e)'
      <4>1. u # "console"
        BY <1>2, <3>1, NothingDrawn
      <4> QED
        BY <1>3, <1>4, <3>1, <4>1, OtherDraws
    <3> QED
      BY <1>3, <2>1, <3>1
  <2>2. elements' \subseteq Element
    BY <1>1, <1>3, <1>5, ConsoleTypes DEF TypeOK
  <2>3. NoneForgotten /\ (instance' => instance) /\ (Running' => Running)
    BY <1>1, <1>2, <1>3 DEF Running
  <2> QED
    BY <2>1, <2>2, <2>3, NoneForgottenIf
<1> QED
  BY <1>5, <1>6, <1>7, <1>8, <1>9, <1>10, <1>11, <1>12, ConsoleWhole

-----------------------------------------------------------------------------
(* What the server calls on the game thread.                                *)

\* A call of the game begins.
LEMMA CallKeeps ==
  ASSUME ConsoleIInv, NEW b \in Seq(Tasks), Call(b), bFirstTime' \in BOOLEAN,
         \A i \in 1 .. Len(b) :
           /\ b[i].stage = "start" /\ b[i].op \in {"add", "del", "draw", "clear", "timer"}
           /\ b[i].op \in {"add", "draw"} => b[i].e \in Controls
           /\ b[i].op = "del" => b[i].e = Loading
           /\ b[i].op = "draw" => b[i].e \in elements,
         \A i \in 2 .. Len(b) : b[i].op \in {"add", "del"}
  PROVE  ConsoleIInv'
<1>1. /\ TypeOK /\ AgendaTyped /\ GameTasks /\ ConsoleTasks /\ LockHeld /\ DeleteHeld
      /\ Ended /\ GhostsBounded /\ NoneForgotten
      /\ Running => Listed /\ MarkerListed /\ Haunted
      /\ agenda \in [Thread -> Seq(Tasks)] /\ todo \in [Thread -> SUBSET Element]
      /\ ghosts \in Nat
  BY ConsoleParts
<1>2. Running /\ agenda["game"] = << >> /\ "game" \in Thread /\ phase = "up"
  BY DEF Call, GameIdle, Running, Thread
<1>3. /\ instance' = instance /\ phase' = phase /\ elements' = elements
      /\ needRedraw' = needRedraw /\ screen' = screen /\ deleteLock' = deleteLock
      /\ elementsLock' = elementsLock /\ todo' = todo /\ cpc' = cpc /\ els' = els
      /\ events' = events /\ needClear' = needClear /\ hovered' = hovered
      /\ markerCreated' = markerCreated /\ exitFlag' = exitFlag /\ ghosts' = ghosts
      /\ early' = early
      /\ agenda' = [agenda EXCEPT !["game"] = b]
  BY DEF Call, life, lists, locks, work, console, input, past, Stages
<1>4. /\ agenda' \in [Thread -> Seq(Tasks)] /\ agenda'["game"] = b
      /\ OfGame = agenda["game"] /\ OfGame' = b /\ OfConsole' = OfConsole
      /\ \A u \in Thread : u # "game" => agenda'[u] = agenda[u]
      /\ Len(b) \in Nat
  BY <1>1, <1>2, <1>3, GivenTasks, LenProperties DEF OfConsole, OfGame, Thread
<1>5. TypeOK' /\ AgendaTyped'
  BY <1>1, <1>3, <1>4, ConsoleTypes, ConsoleTypesHold
<1>6. /\ GameTasks' /\ ConsoleTasks' /\ (KeyHeld' <=> KeyHeld) /\ (Deleting' <=> Deleting)
      /\ (DrawsLoading' <=> DrawsLoading)
  <2>1. ConsoleTasks' /\ (KeyHeld' <=> KeyHeld) /\ (DrawsLoading' <=> DrawsLoading)
    BY <1>1, <1>3, <1>4 DEF ConsoleTasks, KeyHeld, DrawsLoading
  <2>2. ~Deleting
    <3>1. Len(OfGame) = 0
      BY <1>2, <1>4
    <3> QED
      BY <3>1 DEF Deleting
  <2>3. ~Deleting'
    <3>1. Len(b) >= 1 => 1 \in 1 .. Len(b)
      BY <1>4
    <3> QED
      BY <1>4, <3>1 DEF Deleting
  <2>4. GameTasks'
    <3>1. \A i \in 2 .. Len(b) : i \in 1 .. Len(b)
      BY <1>4
    <3> QED
      BY <1>4, <3>1 DEF GameTasks
  <2> QED
    BY <2>1, <2>2, <2>3, <2>4
<1>7. LockHeld' /\ DeleteHeld'
  BY <1>1, <1>3, <1>6, LocksKept
<1>8. Ended' /\ GhostsBounded'
  BY <1>1, <1>2, <1>3 DEF Ended, GhostsBounded, Running
<1>9. Listed'
  <2>1. todo["game"] = {}
    <3>1. Len(agenda["game"]) = 0 /\ ~(Len(agenda["game"]) >= 1)
      BY <1>2
    <3>2. Clearing("game")
      BY <1>1, <1>2 DEF Listed
    <3> QED
      BY ONLY <3>1, <3>2 DEF Clearing
  <2>2. TasksListed("game")'
    BY <1>3, <1>4 DEF TasksListed, ElementListed
  <2>3. Clearing("game")'
    BY <1>3, <2>1 DEF Clearing
  <2>4. cpc' # "paint" => els' = {}
    BY <1>1, <1>2, <1>3 DEF Listed
  <2> QED
    BY <1>1, <1>2, <1>3, <1>4, <2>2, <2>3, <2>4, ListedIf
<1>10. MarkerListed'
  BY <1>1, <1>2, <1>3, <1>4 DEF MarkerListed
<1>11. Haunted'
  BY <1>1, <1>2, <1>3, <1>6, HauntedKept
<1>12. NoneForgotten'
  <2>1. ASSUME NEW e \in Element, e \in elements', instance, Running,
               \/ e \notin elements
               \/ e \in screen \cup needRedraw \cup els
               \/ \E u \in Thread : WillDraw(u, e)
        PROVE  e \in screen' \cup needRedraw' \cup els' \/ \E u \in Thread : WillDraw(u, e)'
    <3>1. ASSUME NEW u \in Thread, WillDraw(u, e) PROVE WillDraw(u, e)'
      <4>1. u # "game"
        BY <1>2, <3>1, NothingDrawn
      <4> QED
        BY <1>3, <1>4, <3>1, <4>1, OtherDraws
    <3> QED
      BY <1>3, <2>1, <3>1
  <2>2. elements' \subseteq Element
    BY <1>1, <1>3, <1>5, ConsoleTypes DEF TypeOK
  <2>3. NoneForgotten /\ (instance' => instance) /\ (Running' => Running)
    BY <1>1, <1>2, <1>3 DEF Running
  <2> QED
    BY <2>1, <2>2, <2>3, NoneForgottenIf
<1> QED
  BY <1>5, <1>6, <1>7, <1>8, <1>9, <1>10, <1>11, <1>12, ConsoleWhole

\* The plugin is unloaded: the console is no longer found.
LEMMA DoneKeeps ==
  ASSUME ConsoleIInv, Done
  PROVE  ConsoleIInv'
<1>1. /\ TypeOK /\ AgendaTyped /\ GameTasks /\ ConsoleTasks /\ LockHeld /\ DeleteHeld
      /\ Ended /\ GhostsBounded /\ NoneForgotten
      /\ Running => Listed /\ MarkerListed /\ Haunted
      /\ agenda \in [Thread -> Seq(Tasks)] /\ todo \in [Thread -> SUBSET Element]
      /\ ghosts \in Nat
  BY ConsoleParts
<1>2. Running /\ phase = "up" /\ "game" \in Thread
  BY DEF Done, GameIdle, Running, Thread
<1>3. /\ instance' = FALSE /\ phase' = "leaving" /\ elements' = elements
      /\ needRedraw' = needRedraw /\ screen' = screen /\ deleteLock' = deleteLock
      /\ elementsLock' = elementsLock /\ todo' = todo /\ cpc' = cpc /\ els' = els
      /\ events' = events /\ needClear' = needClear /\ hovered' = hovered
      /\ markerCreated' = markerCreated /\ exitFlag' = exitFlag
      /\ bFirstTime' = bFirstTime /\ ghosts' = ghosts /\ early' = early
      /\ agenda' = agenda
  BY DEF Done, life, lists, locks, work, console, input, past, Stages
<1>5. TypeOK' /\ AgendaTyped'
  <2>1. phase' \in {"up", "leaving", "freed", "exited", "torn", "crashed"}
    BY <1>3
  <2> QED
    BY <1>1, <1>3, <2>1, ConsoleTypes, ConsoleTypesHold
<1>6. /\ GameTasks' /\ ConsoleTasks' /\ (KeyHeld' <=> KeyHeld) /\ (Deleting' <=> Deleting)
      /\ (DrawsLoading' <=> DrawsLoading)
  BY <1>1, <1>2, <1>3
     DEF GameTasks, ConsoleTasks, KeyHeld, Deleting, DrawsLoading, OfGame, OfConsole
<1>7. LockHeld' /\ DeleteHeld'
  BY <1>1, <1>3, <1>6, LocksKept
<1>8. Ended' /\ GhostsBounded'
  BY <1>1, <1>2, <1>3 DEF Ended, GhostsBounded, Running
<1>9. Listed'
  BY <1>1, <1>2, <1>3 DEF Listed, TasksListed, Clearing, ElementListed
<1>10. MarkerListed'
  BY <1>1, <1>2, <1>3 DEF MarkerListed, OfConsole
<1>11. Haunted'
  BY <1>1, <1>2, <1>3, <1>6, HauntedKept
<1>12. NoneForgotten'
  BY <1>3 DEF NoneForgotten
<1> QED
  BY <1>5, <1>6, <1>7, <1>8, <1>9, <1>10, <1>11, <1>12, ConsoleWhole

\* The elements are freed when the thread has ended.
LEMMA DeletedKeeps ==
  ASSUME ConsoleIInv, Deleted
  PROVE  ConsoleIInv'
<1>1. /\ TypeOK /\ AgendaTyped /\ GameTasks /\ ConsoleTasks /\ LockHeld /\ DeleteHeld
      /\ Ended /\ GhostsBounded /\ NoneForgotten
      /\ Running => Listed /\ MarkerListed /\ Haunted
      /\ agenda \in [Thread -> Seq(Tasks)] /\ todo \in [Thread -> SUBSET Element]
      /\ ghosts \in Nat
  BY ConsoleParts
<1>2. cpc = "ended"
  BY DEF Deleted
<1>3. /\ instance' = instance /\ phase' = "freed" /\ elements' = {}
      /\ needRedraw' = needRedraw /\ screen' = screen /\ deleteLock' = deleteLock
      /\ elementsLock' = elementsLock /\ todo' = todo /\ cpc' = cpc /\ els' = els
      /\ events' = events /\ needClear' = needClear /\ hovered' = hovered
      /\ markerCreated' = markerCreated /\ exitFlag' = exitFlag
      /\ bFirstTime' = bFirstTime /\ ghosts' = ghosts /\ early' = early
      /\ agenda' = agenda
  BY DEF Deleted, life, lists, locks, work, console, input, past, Stages
<1>4. ~Running'
  BY <1>3 DEF Running
<1>5. TypeOK' /\ AgendaTyped'
  <2>1. /\ phase' \in {"up", "leaving", "freed", "exited", "torn", "crashed"}
        /\ elements' \subseteq Element
    BY <1>3
  <2> QED
    BY <1>1, <1>3, <2>1, ConsoleTypes, ConsoleTypesHold
<1>6. /\ GameTasks' /\ ConsoleTasks' /\ (KeyHeld' <=> KeyHeld) /\ (Deleting' <=> Deleting)
      /\ (DrawsLoading' <=> DrawsLoading)
  BY <1>1, <1>3
     DEF GameTasks, ConsoleTasks, KeyHeld, Deleting, DrawsLoading, OfGame, OfConsole
<1>7. LockHeld' /\ DeleteHeld'
  BY <1>1, <1>3, <1>6, LocksKept
<1>8. Ended' /\ GhostsBounded'
  BY <1>1, <1>2, <1>3 DEF Ended, GhostsBounded
<1>12. NoneForgotten'
  BY <1>4 DEF NoneForgotten
<1> QED
  BY <1>4, <1>5, <1>6, <1>7, <1>8, <1>12, ConsoleWhole

\* The controls are added one by one.
LEMMA InstallIs ==
  /\ InstallControls \in Seq(Tasks)
  /\ \A i \in 1 .. Len(InstallControls) :
       /\ InstallControls[i].op = "add" /\ InstallControls[i].stage = "start"
       /\ InstallControls[i].e \in Controls
<1> DEFINE count == Cardinality(Controls)
           s == SetToSeq(Controls)
<1>1. count \in Nat /\ ExistsBijection(1 .. count, Controls)
  BY FS_CardinalityType, ConsoleAssumption
<1>2. PICK f \in Bijection(1 .. count, Controls) : TRUE
  BY <1>1 DEF ExistsBijection
<1>3. f \in [1 .. count -> Controls] /\ IsInjective(f)
  BY <1>2 DEF Bijection, Injection
<1>4. s \in [1 .. count -> Controls]
  <2>1. \E g \in [1 .. count -> Controls] : IsInjective(g)
    BY <1>3
  <2>2. s = CHOOSE g \in [1 .. count -> Controls] : IsInjective(g)
    BY DEF SetToSeq
  <2> QED
    BY <2>1, <2>2
<1> HIDE DEF count, s
<1>5. InstallControls = [i \in 1 .. count |-> Add(s[i])]
  BY <1>4 DEF InstallControls, s
<1>6. ASSUME NEW e \in Controls
      PROVE  /\ Add(e) \in Tasks /\ Add(e).op = "add" /\ Add(e).e \in Controls
             /\ Add(e).stage = "start"
  BY NamesDiffer DEF Add, Task, Tasks, Operations, Stages
<1>7. /\ \A i \in 1 .. count : Add(s[i]) \in Tasks
      /\ \A i \in 1 .. count : Add(s[i]).op = "add" /\ Add(s[i]).stage = "start"
                           /\ Add(s[i]).e \in Controls
  BY <1>4, <1>6
<1>8. InstallControls \in [1 .. count -> Tasks]
  BY <1>5, <1>7
<1>9. InstallControls \in Seq(Tasks) /\ Len(InstallControls) = count
  <2>1. PICK w : w = InstallControls
    OBVIOUS
  <2>2. w \in Seq(Tasks) /\ Len(w) = count
    BY <1>1, <1>8, <2>1
  <2> QED
    BY <2>1, <2>2
<1> QED
  BY <1>5, <1>7, <1>9

\* __Timer2, when it runs for the first time.
LEMMA TimerFirstKeeps ==
  ASSUME ConsoleIInv, TimerFirst
  PROVE  ConsoleIInv'
<1>1. PICK b : b = <<Clear, Task("del", Loading)>> \o InstallControls
  OBVIOUS
<1>2. PICK s : s = InstallControls
  OBVIOUS
<1>3. PICK c : c = Clear
  OBVIOUS
<1>4. PICK d : d = Task("del", Loading)
  OBVIOUS
<1>5. PICK h : h = <<c, d>>
  OBVIOUS
<1>6. b = h \o s
  BY <1>1, <1>2, <1>3, <1>4, <1>5
<1>7. /\ c \in Tasks /\ c.op = "clear" /\ c.stage = "start"
      /\ d \in Tasks /\ d.op = "del" /\ d.stage = "start" /\ d.e = Loading
  BY <1>3, <1>4 DEF Clear, Task, Tasks, Operations, Stages, Element
<1>8. h \in Seq(Tasks) /\ Len(h) = 2 /\ h[1] = c /\ h[2] = d
  BY <1>5, <1>7
<1>9. /\ s \in Seq(Tasks) /\ Len(s) \in Nat
      /\ \A i \in 1 .. Len(s) : s[i].op = "add" /\ s[i].stage = "start" /\ s[i].e \in Controls
  BY <1>2, InstallIs, LenProperties
<1>10. /\ b \in Seq(Tasks) /\ Len(b) = Len(h) + Len(s)
       /\ \A i \in 1 .. Len(h) + Len(s) : b[i] = IF i <= Len(h) THEN h[i] ELSE s[i - Len(h)]
  BY <1>6, <1>8, <1>9, ConcatProperties
<1>11. ASSUME NEW i \in 1 .. Len(b)
       PROVE  \/ i = 1 /\ b[i] = c
              \/ i = 2 /\ b[i] = d
              \/ i > 2 /\ i - 2 \in 1 .. Len(s) /\ b[i] = s[i - 2]
  <2>1. i \in 1 .. Len(h) + Len(s) /\ (i = 1 \/ i = 2 \/ i > 2)
    BY <1>8, <1>9, <1>10
  <2>2. CASE i = 1
    BY <1>8, <1>10, <2>1, <2>2
  <2>3. CASE i = 2
    BY <1>8, <1>10, <2>1, <2>3
  <2>4. CASE i > 2
    <3>1. i - 2 \in 1 .. Len(s) /\ ~(i <= Len(h)) /\ i - Len(h) = i - 2
      BY <1>8, <1>9, <2>1, <2>4
    <3> QED
      BY <1>10, <2>1, <2>4, <3>1
  <2> QED
    BY <2>1, <2>2, <2>3, <2>4
<1>12. \A i \in 1 .. Len(b) :
         /\ b[i].stage = "start" /\ b[i].op \in {"add", "del", "draw", "clear", "timer"}
         /\ b[i].op \in {"add", "draw"} => b[i].e \in Controls
         /\ b[i].op = "del" => b[i].e = Loading
         /\ b[i].op = "draw" => b[i].e \in elements
  BY <1>7, <1>9, <1>11
<1>13. \A i \in 2 .. Len(b) : b[i].op \in {"add", "del"}
  <2>1. \A i \in 2 .. Len(b) : i \in 1 .. Len(b) /\ i # 1
    BY <1>8, <1>9, <1>10
  <2> QED
    BY <1>7, <1>9, <1>11, <2>1
<1>14. Call(b) /\ bFirstTime' \in BOOLEAN
  BY <1>1 DEF TimerFirst
<1> QED
  BY <1>10, <1>12, <1>13, <1>14, CallKeeps

\* A call of one task.
LEMMA CallOneKeeps ==
  ASSUME ConsoleIInv, NEW k \in Tasks, Call(<<k>>), bFirstTime' = bFirstTime,
         k.stage = "start", k.op \in {"draw", "clear", "timer"},
         k.op = "draw" => k.e \in Controls \cap elements
  PROVE  ConsoleIInv'
<1>1. PICK b : b = <<k>>
  OBVIOUS
<1>2. b \in Seq(Tasks) /\ Len(b) = 1 /\ b[1] = k /\ Call(b)
  BY <1>1
<1>3. \A i \in 1 .. 1 : i = 1
  OBVIOUS
<1>4. \A i \in 1 .. Len(b) :
        /\ b[i].stage = "start" /\ b[i].op \in {"add", "del", "draw", "clear", "timer"}
        /\ b[i].op \in {"add", "draw"} => b[i].e \in Controls
        /\ b[i].op = "del" => b[i].e = Loading
        /\ b[i].op = "draw" => b[i].e \in elements
  BY <1>2, <1>3
<1>5. \A i \in 2 .. Len(b) : b[i].op \in {"add", "del"}
  BY <1>2
<1>6. bFirstTime' \in BOOLEAN
  BY ConsoleParts, ConsoleTypes
<1> QED
  BY <1>2, <1>4, <1>5, <1>6, CallKeeps

\* Ctrl-C, a new world, and a line that is pushed.
LEMMA CallsKeep ==
  ASSUME ConsoleIInv, Timer \/ InitWorld \/ PushLine
  PROVE  ConsoleIInv'
<1>1. ASSUME NEW e \in Element \cup {None}, NEW op \in Operations
      PROVE  /\ Task(op, e) \in Tasks /\ Task(op, e).op = op /\ Task(op, e).e = e
             /\ Task(op, e).stage = "start"
  BY DEF Task, Tasks, Stages
<1>2. CASE Timer
  <2>1. PICK k : k = Task("timer", None)
    OBVIOUS
  <2>2. Call(<<k>>) /\ bFirstTime' = bFirstTime
    BY <1>2, <2>1 DEF Timer
  <2>3. k \in Tasks /\ k.op = "timer" /\ k.stage = "start"
    BY <1>1, <2>1 DEF Operations
  <2> QED
    BY <2>2, <2>3, CallOneKeeps
<1>3. CASE InitWorld
  <2>1. PICK k : k = Clear
    OBVIOUS
  <2>2. Call(<<k>>) /\ bFirstTime' = bFirstTime
    BY <1>3, <2>1 DEF InitWorld
  <2>3. k \in Tasks /\ k.op = "clear" /\ k.stage = "start"
    BY <1>1, <2>1 DEF Operations, Clear
  <2> QED
    BY <2>2, <2>3, CallOneKeeps
<1>4. CASE PushLine
  <2>1. PICK x \in Controls \cap elements : Call(<<Draw(x)>>)
    BY <1>4 DEF PushLine
  <2>2. PICK k : k = Draw(x)
    OBVIOUS
  <2>3. Call(<<k>>) /\ bFirstTime' = bFirstTime
    BY <1>4, <2>1, <2>2 DEF PushLine
  <2>4. k \in Tasks /\ k.op = "draw" /\ k.e = x /\ k.stage = "start"
    BY <1>1, <2>2, NamesDiffer DEF Operations, Draw
  <2> QED
    BY <2>1, <2>3, <2>4, CallOneKeeps
<1> QED
  BY <1>2, <1>3, <1>4

\* The events of the mouse, of the keys, and of the size of the screen.
LEMMA EventsKeep ==
  ASSUME ConsoleIInv, BufferSizeEvent \/ MouseEvent \/ KeyEvent
  PROVE  ConsoleIInv'
<1>1. needClear \in BOOLEAN
  BY ConsoleParts, ConsoleTypes
<1>2. ASSUME NEW op \in {"find", "key"}, Event(<<Look, Task(op, None)>>),
             needClear' = needClear
      PROVE  ConsoleIInv'
  <2>1. PICK k : k = Task(op, None)
    OBVIOUS
  <2>2. PICK l : l = Look
    OBVIOUS
  <2>3. /\ k \in Tasks /\ k.op \in {"find", "key"} /\ k.stage = "start"
        /\ l \in Tasks /\ l.op = "look" /\ l.stage = "start"
    BY <2>1, <2>2 DEF Look, Task, Tasks, Operations, Stages
  <2>4. PICK b : b = <<l, k>>
    OBVIOUS
  <2>5. b \in Seq(Tasks) /\ Len(b) = 2 /\ b[1] = l /\ b[2] = k
    BY <2>3, <2>4
  <2>6. Event(b) /\ needClear' \in BOOLEAN
    BY <1>1, <1>2, <2>1, <2>2, <2>4
  <2> QED
    BY <2>3, <2>5, <2>6, EventKeeps
<1>3. CASE BufferSizeEvent
  <2>1. << >> \in Seq(Tasks) /\ Len(<< >>) = 0
    OBVIOUS
  <2>2. PICK b \in Seq(Tasks) : b = << >> /\ Len(b) = 0
    BY <2>1
  <2>3. Event(b) /\ needClear' \in BOOLEAN
    BY <1>3, <2>2 DEF BufferSizeEvent
  <2>4. Len(b) = 0
    BY <2>2
  <2> QED
    BY <2>3, <2>4, EventKeeps
<1> QED
  BY <1>2, <1>3 DEF MouseEvent, KeyEvent

\* Nothing happens when all is over.
LEMMA ConsoleStutters ==
  ASSUME ConsoleIInv, UNCHANGED vars
  PROVE  ConsoleIInv'
<1>1. /\ TypeOK /\ AgendaTyped /\ GameTasks /\ ConsoleTasks /\ LockHeld /\ DeleteHeld
      /\ Ended /\ GhostsBounded /\ NoneForgotten
      /\ Running => Listed /\ MarkerListed /\ Haunted
  BY ConsoleParts
<1>2. /\ instance' = instance /\ phase' = phase /\ elements' = elements
      /\ needRedraw' = needRedraw /\ screen' = screen /\ deleteLock' = deleteLock
      /\ elementsLock' = elementsLock /\ agenda' = agenda /\ todo' = todo /\ cpc' = cpc
      /\ els' = els /\ events' = events /\ needClear' = needClear /\ hovered' = hovered
      /\ markerCreated' = markerCreated /\ exitFlag' = exitFlag
      /\ bFirstTime' = bFirstTime /\ ghosts' = ghosts
      /\ early' = early
  BY DEF vars, life, lists, locks, work, console, input, past
<1>3. TypeOK' /\ AgendaTyped'
  BY <1>1, <1>2, ConsoleTypes, ConsoleTypesHold
<1>4. /\ GameTasks' /\ ConsoleTasks' /\ (KeyHeld' <=> KeyHeld) /\ (Deleting' <=> Deleting)
      /\ (DrawsLoading' <=> DrawsLoading)
  BY <1>1, <1>2
     DEF GameTasks, ConsoleTasks, KeyHeld, Deleting, DrawsLoading, OfGame, OfConsole
<1>5. LockHeld' /\ DeleteHeld'
  BY <1>1, <1>2, <1>4, LocksKept
<1>6. Ended' /\ GhostsBounded'
  BY <1>1, <1>2 DEF Ended, GhostsBounded
<1>7. Running' => Listed'
  BY <1>1, <1>2 DEF Listed, TasksListed, Clearing, ElementListed, Running
<1>8. Running' => MarkerListed'
  BY <1>1, <1>2 DEF MarkerListed, OfConsole, Running
<1>9. Running' => Haunted'
  <2>1. ghosts \in Nat /\ (Running' <=> Running)
    BY <1>1, <1>2, ConsoleTypes DEF Running
  <2> QED
    BY <1>1, <1>2, <1>4, <2>1, HauntedKept
<1>10. NoneForgotten'
  BY <1>1, <1>2 DEF NoneForgotten, InHand, WillDraw, Running
<1> QED
  BY <1>3, <1>4, <1>5, <1>6, <1>7, <1>8, <1>9, <1>10, ConsoleWhole

-----------------------------------------------------------------------------
(* The invariant of the console.                                            *)

\* It holds when the plugin has been loaded.
LEMMA ConsoleStarts ==
  ASSUME Init
  PROVE  ConsoleIInv
<1>1. /\ instance = TRUE /\ phase = "up" /\ bFirstTime \in BOOLEAN
      /\ elements = (IF bFirstTime THEN {Loading} ELSE Controls)
      /\ needRedraw = elements /\ screen = {}
      /\ deleteLock = None /\ elementsLock = [owner |-> None, depth |-> 0]
      /\ agenda = [t \in Thread |-> << >>] /\ todo = [t \in Thread |-> {}]
      /\ cpc = "loop" /\ events = 0 /\ needClear = FALSE /\ els = {} /\ hovered = None
      /\ markerCreated = FALSE /\ exitFlag = FALSE /\ ghosts = 0 /\ early = TRUE
  BY DEF Init
<1>2. agenda \in [Thread -> Seq(Tasks)] /\ todo \in [Thread -> SUBSET Element]
  <2>1. PICK w : w = << >>
    OBVIOUS
  <2>2. w \in Seq(Tasks)
    BY <2>1
  <2>3. [t \in Thread |-> w] \in [Thread -> Seq(Tasks)]
    BY <2>2
  <2> QED
    BY <1>1, <2>1, <2>3
<1>3. /\ elements \subseteq Element
      /\ elementsLock \in [owner : Thread \cup {None}, depth : 0 .. 2]
  BY <1>1, NamesDiffer
<1>4. AgendaTyped
  BY <1>2 DEF AgendaTyped
<1>5. \A t \in Thread : Len(agenda[t]) = 0 /\ agenda[t] = << >> /\ todo[t] = {}
  BY <1>1
<1>6. Len(OfGame) = 0 /\ Len(OfConsole) = 0 /\ OfConsole = << >> /\ OfGame = << >>
  BY <1>5 DEF OfGame, OfConsole, Thread
<1>7. TypeOK
  <2>1. \A t \in Thread : \A i \in DOMAIN agenda[t] : IsTask(agenda[t][i])
    BY <1>5
  <2>2. events \in 0 .. MaxEvents /\ hovered \in Element \cup {None} /\ ghosts \in Nat
    BY <1>1, ConsoleAssumption
  <2>3. /\ {instance, needClear, markerCreated, exitFlag, bFirstTime, early} \subseteq BOOLEAN
        /\ {elements, needRedraw, screen, els} \subseteq SUBSET Element
    BY <1>1, <1>3
  <2> QED
    BY <1>1, <1>2, <1>3, <2>1, <2>2, <2>3 DEF TypeOK
<1>8. GameTasks /\ ConsoleTasks /\ ~KeyHeld /\ ~Deleting /\ ~DrawsLoading
  <2>1. GameTasks /\ ~Deleting
    BY <1>6 DEF GameTasks, Deleting
  <2>2. ConsoleTasks
    BY <1>6 DEF ConsoleTasks
  <2>3. ~KeyHeld /\ ~DrawsLoading
    BY <1>6 DEF KeyHeld, DrawsLoading
  <2> QED
    BY <2>1, <2>2, <2>3
<1>9. LockHeld /\ DeleteHeld
  BY <1>1, <1>8 DEF LockHeld, DeleteHeld
<1>10. Ended /\ GhostsBounded
  BY <1>1 DEF Ended, GhostsBounded
<1>11. Listed
  BY <1>1, <1>5 DEF Listed, TasksListed, Clearing, ElementListed
<1>12. MarkerListed
  BY <1>1, <1>6 DEF MarkerListed
<1>13. Haunted
  <2>1. hovered # Loading /\ Loading \notin els
    BY <1>1, NamesDiffer
  <2>2. Loading \notin elements => Loading \notin needRedraw
    BY <1>1
  <2>3. Loading \notin elements => Haunting = 0
    BY <1>8, <2>1, <2>2 DEF Haunting, Once
  <2> QED
    BY <1>1, <1>5, <2>3 DEF Haunted
<1>14. NoneForgotten
  BY <1>1 DEF NoneForgotten
<1> QED
  BY <1>4, <1>7, <1>8, <1>9, <1>10, <1>11, <1>12, <1>13, <1>14 DEF ConsoleIInv, Kept

\* A step of a task, whichever it is.
LEMMA TaskStepKeeps ==
  ASSUME ConsoleIInv, NEW t \in Thread, TaskStep(t)
  PROVE  ConsoleIInv'
<1>1. CASE AddTest(t)
  BY <1>1, TestGoesKeeps, TestEndsKeeps DEF AddTest
<1>2. CASE AddInsert(t)
  BY <1>2, AddInsertKeeps
<1>3. CASE AddDraw(t)
  BY <1>3, AddDrawKeeps
<1>4. CASE DelErase(t)
  BY <1>4, DelEraseKeeps
<1>5. CASE ClearWipe(t)
  BY <1>5, ClearWipeKeeps
<1>6. CASE ClearResize(t)
  BY <1>6, ClearResizeKeeps
<1>7. CASE ClearDraw(t)
  BY <1>7, ClearDrawEnds, ClearDrawGoes
<1>8. CASE DrawChange(t)
  BY <1>8, DrawChangeKeeps
<1>9. CASE DrawTest(t)
  BY <1>9, TestGoesKeeps, TestEndsKeeps DEF DrawTest
<1>10. CASE DrawMark(t)
  BY <1>10, DrawMarkKeeps
<1>11. CASE NullUsed(t)
  BY <1>11, NullUsedKeeps
<1>12. CASE LookTest(t)
  BY <1>12, TestGoesKeeps, TestEndsKeeps DEF LookTest
<1>13. CASE Looked(t)
  BY <1>13, LookedKeeps
<1>14. CASE Find(t)
  BY <1>14, FindKeeps
<1>15. CASE Click(t)
  BY <1>15, ClickKeeps
<1>16. CASE Move(t)
  BY <1>16, MoveKeeps
<1>17. CASE Setup(t)
  BY <1>17, SetupKeeps
<1>18. CASE KeyLock(t)
  BY <1>18, KeyLockKeeps
<1>19. CASE KeyTest(t)
  BY <1>19, KeyTestKeeps
<1>20. CASE KeyHandled(t)
  BY <1>20, KeyHandledKeeps
<1>21. CASE KeyUnlock(t)
  BY <1>21, KeyUnlockKeeps
<1> QED
  BY <1>1, <1>2, <1>3, <1>4, <1>5, <1>6, <1>7, <1>8, <1>9, <1>10, <1>11, <1>12,
     <1>13, <1>14, <1>15, <1>16, <1>17, <1>18, <1>19, <1>20, <1>21
     DEF TaskStep

\* Every step of the console keeps the invariant.
LEMMA ConsoleSteps ==
  ASSUME ConsoleIInv, [Next]_vars
  PROVE  ConsoleIInv'
<1>1. CASE BufferSizeEvent \/ MouseEvent \/ KeyEvent
  BY <1>1, EventsKeep
<1>2. CASE ConsoleStep
  <2>1. "console" \in Thread
    BY DEF Thread
  <2> QED
    BY <1>2, <2>1, LoopBeginsKeeps, EventsEndKeeps, UpdateTakeKeeps, PaintKeeps,
       UpdateEndKeeps, TaskStepKeeps
       DEF ConsoleStep
<1>3. CASE TimerFirst
  BY <1>3, TimerFirstKeeps
<1>4. CASE Timer \/ InitWorld \/ PushLine
  BY <1>4, CallsKeep
<1>5. CASE Done
  BY <1>5, DoneKeeps
<1>6. CASE Deleted
  BY <1>6, DeletedKeeps
<1>7. CASE GameStep
  <2>1. CASE TaskStep("game")
    <3>1. "game" \in Thread
      BY DEF Thread
    <3> QED
      BY <2>1, <3>1, TaskStepKeeps
  <2>2. CASE DelLock("game")
    BY <2>2, DelLockKeeps
  <2>3. CASE TimerExit("game")
    <3>1. /\ Running /\ phase' = "exited"
          /\ UNCHANGED <<instance, lists, locks, work, console, past>>
      BY <2>3 DEF TimerExit, AtTask
    <3> QED
      BY <3>1, StopKeeps
  <2> QED
    BY <1>7, <2>1, <2>2, <2>3 DEF GameStep
<1>8. CASE UNCHANGED vars
  BY <1>8, ConsoleStutters
<1> QED
  BY <1>1, <1>2, <1>3, <1>4, <1>5, <1>6, <1>7, <1>8 DEF Next, Over

\* The invariant holds always.
LEMMA ConsoleInvariant == Spec => []ConsoleIInv
<1>1. Init => ConsoleIInv
  BY ConsoleStarts
<1>2. ConsoleIInv /\ [Next]_vars => ConsoleIInv'
  BY ConsoleSteps
<1> QED
  BY <1>1, <1>2, PTL DEF Spec

-----------------------------------------------------------------------------
(* What the process dies of.                                                *)

\* What is used without being there was tested on the console's thread before the
\* unloading, which the game begins when it has nothing else to do.
UsedEarly == Len(OfConsole) >= 1 /\ OfConsole[1].stage = "use" => early

CrashIInv ==
  /\ instance => early
  /\ phase = "up" => instance
  /\ ~instance => OfGame = << >>
  /\ UsedEarly
  /\ CrashCause

\* Nothing dies before the unloading, ...
LEMMA CrashNotBefore ==
  ASSUME CrashIInv, instance, [Next]_vars
  PROVE  CrashIInv'
<1>1. ASSUME instance' = instance, early' = early \/ early' = instance, phase' # "crashed"
      PROVE  CrashIInv'
  <2>0. early
    BY DEF CrashIInv
  <2>1. early' /\ instance'
    BY ONLY <1>1, <2>0, instance, Zenon
  <2> QED
    BY <1>1, <2>1 DEF CrashIInv, UsedEarly, CrashCause
<1>2. phase # "crashed" /\ early
  BY DEF CrashIInv, CrashCause
<1>3. ASSUME NEW t \in Thread, TaskStep(t) PROVE CrashIInv'
  <2>1. instance' = instance /\ early' = early
    BY <1>3
       DEF TaskStep, AddTest, DrawTest, LookTest, Tested, AddInsert, AddDraw, DelErase,
           ClearWipe, ClearResize, ClearDraw, DrawChange, DrawMark, NullUsed, Looked, Find,
           Click, Move, Setup, ThroughInstance, KeyLock, KeyTest, KeyHandled, KeyUnlock,
           life, past
  <2>2. phase' \in {phase, "torn"}
    BY <1>3
       DEF TaskStep, AddTest, DrawTest, LookTest, Tested, AddInsert, AddDraw, DelErase,
           ClearWipe, ClearResize, ClearDraw, DrawChange, DrawMark, NullUsed, Looked, Find,
           Click, Move, Setup, ThroughInstance, KeyLock, KeyTest, KeyHandled, KeyUnlock,
           life, past, Changed
  <2> QED
    BY <1>1, <1>2, <2>1, <2>2
<1>4. CASE BufferSizeEvent \/ MouseEvent \/ KeyEvent
  BY <1>1, <1>2, <1>4 DEF BufferSizeEvent, MouseEvent, KeyEvent, Event, life
<1>5. CASE ConsoleStep
  <2>1. CASE TaskStep("console")
    BY <1>3, <2>1 DEF Thread
  <2>2. CASE LoopBegins \/ EventsEnd \/ UpdateTake \/ Paint \/ UpdateEnd
    BY <1>1, <1>2, <2>2 DEF LoopBegins, EventsEnd, UpdateTake, Paint, UpdateEnd, life, past
  <2> QED
    BY <1>5, <2>1, <2>2 DEF ConsoleStep
<1>6. CASE TimerFirst \/ Timer \/ InitWorld \/ PushLine
  BY <1>1, <1>2, <1>6 DEF TimerFirst, Timer, InitWorld, PushLine, Call, life
<1>7. CASE Done
  <2>1. /\ instance' = FALSE /\ phase' = "leaving" /\ early' = early /\ OfGame' = OfGame
        /\ OfGame = << >>
    BY <1>7 DEF Done, GameIdle, OfGame, work, past
  <2> QED
    BY <1>2, <2>1 DEF CrashIInv, UsedEarly, CrashCause
<1>8. CASE Deleted
  BY <1>1, <1>8 DEF Deleted, past
<1>9. CASE GameStep
  <2>1. CASE TaskStep("game")
    BY <1>3, <2>1 DEF Thread
  <2>2. CASE DelLock("game") \/ TimerExit("game")
    BY <1>1, <1>2, <2>2 DEF DelLock, TimerExit, life, past
  <2> QED
    BY <1>9, <2>1, <2>2 DEF GameStep
<1>10. CASE UNCHANGED vars
  BY <1>1, <1>2, <1>10 DEF vars, life, past
<1> QED
  BY <1>4, <1>5, <1>6, <1>7, <1>8, <1>9, <1>10 DEF Next, Over

\* ... and after it the console's thread uses only what it had tested before.
LEMMA FirstAfter ==
  ASSUME AgendaTyped, ConsoleTasks, agenda["console"] # << >>,
         NEW b \in Seq(Tasks), Len(b) >= 1 => b[1].stage # "use", Then("console", b)
  PROVE  OfGame' = OfGame /\ (Len(OfConsole') >= 1 => OfConsole'[1].stage # "use")
<1>1. "console" \in Thread
  BY DEF Thread
<1>2. /\ Len(agenda'["console"]) = Len(b) + Len(agenda["console"]) - 1
      /\ \A i \in 1 .. Len(b) : agenda'["console"][i] = b[i]
      /\ \A i \in 2 .. Len(agenda["console"]) :
           agenda'["console"][Len(b) + i - 1] = agenda["console"][i]
      /\ \A u \in Thread : u # "console" => agenda'[u] = agenda[u]
  BY <1>1, Becomes
<1>3. OfGame' = OfGame
  BY <1>2 DEF OfGame, Thread
<1>4. Len(b) \in Nat /\ Len(OfConsole) \in Nat /\ Len(OfConsole) >= 1
  BY <1>1, TasksAre, LenProperties DEF OfConsole
<1>5. CASE Len(b) >= 1
  <2>1. 1 \in 1 .. Len(b)
    BY <1>4, <1>5
  <2> QED
    BY <1>2, <1>3, <1>5, <2>1 DEF OfConsole
<1>6. CASE ~(Len(b) >= 1)
  <2>1. Len(b) = 0 /\ 0 + 2 - 1 = 1
    BY <1>4, <1>6
  <2>2. CASE Len(OfConsole) = 1
    <3>1. Len(OfConsole') = 0
      BY <1>2, <2>1, <2>2 DEF OfConsole
    <3> QED
      BY <1>3, <3>1
  <2>3. CASE Len(OfConsole) # 1
    <3>1. 2 \in 2 .. Len(OfConsole) /\ Len(OfConsole) >= 2
      BY <1>4, <2>3
    <3>2. OfConsole'[1] = OfConsole[2]
      BY <1>2, <2>1, <3>1 DEF OfConsole
    <3>3. OfConsole[2].stage # "use"
      BY <3>1 DEF ConsoleTasks, KeyDone
    <3> QED
      BY <1>3, <3>2, <3>3
  <2> QED
    BY <2>2, <2>3
<1> QED
  BY <1>5, <1>6

LEMMA CrashAfter ==
  ASSUME ConsoleIInv, CrashIInv, ~instance, [Next]_vars
  PROVE  CrashIInv'
<1>1. /\ TypeOK /\ AgendaTyped /\ GameTasks /\ ConsoleTasks
      /\ agenda \in [Thread -> Seq(Tasks)]
  BY ConsoleParts
<1>2. /\ OfGame = << >> /\ phase # "up" /\ agenda["game"] = << >>
      /\ phase # "crashed" \/ ~Running
      /\ "console" \in Thread /\ "game" \in Thread /\ << >> \in Seq(Tasks)
  BY DEF CrashIInv, OfGame, Running, Thread
<1>3. ASSUME instance' = instance, phase' \notin {"up", "crashed"}, OfGame' = OfGame,
             \/ ~(Len(OfConsole') >= 1 /\ OfConsole'[1].stage = "use")
             \/ early' = early /\ OfConsole' = OfConsole
      PROVE  CrashIInv'
  <2>1. UsedEarly'
    BY <1>3 DEF CrashIInv, UsedEarly
  <2> QED
    BY <1>2, <1>3, <2>1 DEF CrashIInv, CrashCause
<1>4. ASSUME agenda["console"] # << >>, instance' = instance, phase' \notin {"up", "crashed"},
             NEW b \in Seq(Tasks), Len(b) >= 1 => b[1].stage # "use", Then("console", b)
      PROVE  CrashIInv'
  BY <1>1, <1>3, <1>4, FirstAfter
<1>5. ASSUME agenda["console"] # << >>, instance' = instance, phase' \notin {"up", "crashed"},
             NEW stage \in Stages, stage # "use", GoOn("console", stage)
      PROVE  CrashIInv'
  <2>1. agenda'["game"] = agenda["game"] /\ agenda'["console"][1].stage = stage
    BY <1>1, <1>2, <1>5, GoesOn
  <2> QED
    BY <1>3, <1>5, <2>1 DEF OfGame, OfConsole
<1>7. CASE BufferSizeEvent \/ MouseEvent \/ KeyEvent
  <2>1. PICK b \in {<< >>, <<Look, Task("find", None)>>, <<Look, Task("key", None)>>} : Event(b)
    BY <1>7 DEF BufferSizeEvent, MouseEvent, KeyEvent
  <2>2. Len(b) >= 1 => b[1].stage = "start"
    BY DEF Look, Task
  <2>3. agenda' = [agenda EXCEPT !["console"] = b] /\ instance' = instance /\ phase' = phase
        /\ Running
    BY <2>1 DEF Event, Reading, life
  <2>4. OfConsole' = b /\ OfGame' = OfGame
    BY <1>1, <1>2, <2>3 DEF OfConsole, OfGame
  <2> QED
    BY <1>2, <1>3, <2>2, <2>3, <2>4
<1>8. CASE LoopBegins \/ UpdateTake \/ Paint \/ UpdateEnd \/ Deleted
  <2>1. /\ agenda' = agenda /\ instance' = instance /\ early' = early
        /\ phase' \in {phase, "freed"} /\ Running
    BY <1>8
       DEF LoopBegins, UpdateTake, Paint, UpdateEnd, Deleted, life, work, past, Running
  <2> QED
    BY <1>2, <1>3, <2>1 DEF OfConsole, OfGame
<1>9. CASE EventsEnd
  <2>1. /\ instance' = instance /\ early' = early /\ phase' = phase /\ Running
        /\ agenda' = [agenda EXCEPT !["console"] = <<Clear>>] \/ agenda' = agenda
    BY <1>9 DEF EventsEnd, life, past
  <2>2. CASE agenda' = [agenda EXCEPT !["console"] = <<Clear>>]
    <3>1. PICK c : c = Clear
      OBVIOUS
    <3>2. OfConsole' = <<c>> /\ OfGame' = OfGame /\ c.stage = "start"
      BY <1>1, <1>2, <2>2, <3>1 DEF OfConsole, OfGame, Clear, Task
    <3>3. OfConsole'[1] = c
      BY <3>2
    <3> QED
      BY <1>2, <1>3, <2>1, <3>2, <3>3
  <2>3. CASE agenda' = agenda
    BY <1>2, <1>3, <2>1, <2>3 DEF OfConsole, OfGame
  <2> QED
    BY <2>1, <2>2, <2>3
<1>10. CASE TaskStep("console")
  <2>a. /\ Running /\ agenda["console"] # << >> /\ phase \notin {"up", "crashed"}
        /\ Head(agenda["console"]) = OfConsole[1] /\ Len(OfConsole) >= 1
    <3>1. Running /\ agenda["console"] # << >>
      BY <1>10
         DEF TaskStep, AddTest, DrawTest, LookTest, Tested, AddInsert, AddDraw, DelErase,
             ClearWipe, ClearResize, ClearDraw, DrawChange, DrawMark, NullUsed, Looked, Find,
             Click, Move, Setup, ThroughInstance, KeyLock, KeyTest, KeyHandled, KeyUnlock,
             AtTask
    <3> QED
      BY <1>1, <1>2, <3>1, TasksAre DEF OfConsole
  <2>b. phase \notin {"up", "crashed"}
    BY <2>a
  <2>1. CASE AddTest("console") \/ DrawTest("console") \/ LookTest("console")
    <3>1. Finish("console") /\ instance' = instance /\ phase' = phase
      BY <2>1 DEF AddTest, DrawTest, LookTest, Tested, life
    <3>2. PICK b : b = << >>
      OBVIOUS
    <3>3. b \in Seq(Tasks) /\ ~(Len(b) >= 1) /\ Then("console", b)
      BY <1>2, <3>1, <3>2 DEF Finish
    <3>4. phase' \notin {"up", "crashed"}
      BY <2>b, <3>1
    <3> QED
      BY <1>4, <2>a, <3>1, <3>3, <3>4
  <2>2. CASE \/ AddDraw("console") \/ DrawMark("console") \/ KeyUnlock("console")
             \/ ClearDraw("console")
    <3>0. /\ instance' = instance /\ phase' = phase /\ early' = early
      BY <2>2 DEF AddDraw, DrawMark, KeyUnlock, ClearDraw, life, past
    <3>1. instance' = instance /\ phase' \notin {"up", "crashed"}
      BY <2>b, <3>0
    <3>2. CASE Finish("console")
      <4>2. PICK b : b = << >>
        OBVIOUS
      <4>3. b \in Seq(Tasks) /\ ~(Len(b) >= 1) /\ Then("console", b)
        BY <1>2, <3>2, <4>2 DEF Finish
      <4> QED
        BY <1>4, <2>a, <3>1, <4>3
    <3>3. CASE agenda' = agenda
      <4>1. OfConsole' = OfConsole /\ OfGame' = OfGame
        BY <3>3 DEF OfConsole, OfGame
      <4> QED
        BY <1>3, <3>0, <3>1, <4>1
    <3> QED
      BY <2>2, <3>2, <3>3 DEF AddDraw, DrawMark, KeyUnlock, ClearDraw
  <2>3. CASE \/ AddInsert("console") \/ ClearWipe("console") \/ ClearResize("console")
             \/ DrawChange("console") \/ KeyLock("console") \/ KeyTest("console")
    <3>1. instance' = instance /\ phase' \in {phase, "torn"}
      BY <2>3 DEF AddInsert, ClearWipe, ClearResize, DrawChange, KeyLock, KeyTest, Changed, life
    <3>2. PICK stage \in Stages : stage # "use" /\ GoOn("console", stage)
      BY <2>3
         DEF AddInsert, ClearWipe, ClearResize, DrawChange, KeyLock, KeyTest, Stages
    <3> QED
      BY <1>5, <2>a, <2>b, <3>1, <3>2
  <2>4. CASE DelErase("console")
    BY <1>1, <1>2, <2>4, AtTaskIs, WhoseTasks DEF DelErase
  <2>5. CASE NullUsed("console")
    <3>1. phase' = "crashed" /\ instance' = instance /\ agenda' = agenda /\ early' = early
      BY <2>5 DEF NullUsed, work, past
    <3>2. early
      BY <2>5, <2>a DEF NullUsed, CrashIInv, UsedEarly
    <3> QED
      BY <1>2, <3>1, <3>2 DEF CrashIInv, UsedEarly, CrashCause, OfGame, OfConsole
  <2>6. CASE Looked("console")
    <3>1. PICK k : k = [Draw(None) EXCEPT !.stage = "draw"]
      OBVIOUS
    <3>2. k \in Tasks /\ k.stage = "draw"
      BY <3>1 DEF Draw, Task, Tasks, Operations, Stages
    <3>3. PICK b : b = <<k>>
      OBVIOUS
    <3>4. b \in Seq(Tasks) /\ b[1] = k
      BY <3>2, <3>3
    <3>5. Then("console", b) /\ instance' = instance /\ phase' = phase
      BY <2>6, <3>1, <3>3 DEF Looked, life
    <3> QED
      BY <1>4, <2>a, <2>b, <3>2, <3>4, <3>5
  <2>7. CASE Find("console")
    <3>1. PICK found \in elements \cup {None} :
            \E clicks \in {<< >>} \cup {<<Task("click", found)>> : f \in {found} \cap Controls} :
              Then("console", Focus(found) \o clicks)
      BY <2>7 DEF Find
    <3>2. PICK clicks \in {<< >>} \cup {<<Task("click", found)>> : f \in {found} \cap Controls} :
            Then("console", Focus(found) \o clicks)
      BY <3>1
    <3>3. /\ hovered \in Element \cup {None} /\ found \in Element \cup {None}
          /\ clicks \in {<< >>, <<Task("click", found)>>}
      BY <1>1, ConsoleTypes
    <3>4. PICK b : b = Focus(found) \o clicks
      OBVIOUS
    <3>5. MouseTasks(b, found)
      BY <3>3, <3>4, MouseIs
    <3>6. b \in Seq(Tasks) /\ (Len(b) >= 1 => b[1].stage # "use")
      <4>1. b \in Seq(Tasks) /\ \A i \in 1 .. Len(b) : b[i].stage = "start"
        BY <3>5 DEF MouseTasks
      <4>2. Len(b) >= 1 => 1 \in 1 .. Len(b)
        BY <4>1, LenProperties
      <4> QED
        BY <4>1, <4>2
    <3>7. instance' = instance /\ phase' = phase /\ Then("console", b)
      BY <2>7, <3>2, <3>4 DEF Find, life
    <3> QED
      BY <1>4, <2>a, <2>b, <3>6, <3>7
  <2>8. CASE Click("console")
    <3>0. Of("console") \in Element \cup {None}
      BY <1>1, <1>2, <2>8, AtTaskIs DEF Click
    <3>1. PICK k : k = Task(IF markerCreated THEN "move" ELSE "add", Marker)
      OBVIOUS
    <3>2. PICK l : l = Task("setup", Of("console"))
      OBVIOUS
    <3>3. k \in Tasks /\ l \in Tasks /\ k.stage = "start"
      BY <3>0, <3>1, <3>2 DEF Task, Tasks, Operations, Stages, Element
    <3>4. PICK b : b = <<k, l>>
      OBVIOUS
    <3>5. b \in Seq(Tasks) /\ b[1] = k
      BY <3>3, <3>4
    <3>6. Then("console", b) /\ instance' = instance /\ phase' = phase
      BY <2>8, <3>1, <3>2, <3>4 DEF Click, life
    <3> QED
      BY <1>4, <2>a, <2>b, <3>3, <3>5, <3>6
  <2>9. CASE Move("console") \/ Setup("console")
    <3>1. /\ phase' = "crashed" /\ instance' = instance /\ agenda' = agenda /\ early' = early
          /\ Head(agenda["console"]).op \in {"move", "setup"}
      BY <2>9 DEF Move, Setup, ThroughInstance, AtTask, past
    <3> QED
      BY <1>2, <3>1 DEF CrashIInv, UsedEarly, CrashCause, OfGame, OfConsole
  <2>10. CASE KeyHandled("console")
    <3>1. PICK k : k = [Task("key", None) EXCEPT !.stage = "done"]
      OBVIOUS
    <3>2. k \in Tasks /\ k.stage = "done"
      BY <3>1 DEF Task, Tasks, Operations, Stages
    <3>3. PICK tasks \in {<< >>} \cup {<<Draw(x)>> : x \in Controls \cap elements} :
            Then("console", tasks \o <<k>>)
      BY <2>10, <3>1 DEF KeyHandled
    <3>4. PICK w : w = <<k>>
      OBVIOUS
    <3>5. w \in Seq(Tasks) /\ Len(w) = 1 /\ w[1] = k
      BY <3>2, <3>4
    <3>6. /\ tasks \in Seq(Tasks) /\ Len(tasks) \in 0 .. 1
          /\ Len(tasks) = 1 => tasks[1].stage = "start"
      <4>1. CASE tasks = << >>
        BY <4>1
      <4>2. CASE tasks # << >>
        <5>1. PICK x \in Controls \cap elements : tasks = <<Draw(x)>>
          BY <3>3, <4>2
        <5>2. PICK d : d = Draw(x)
          OBVIOUS
        <5>3. d \in Tasks /\ d.stage = "start"
          BY <5>2 DEF Draw, Task, Tasks, Operations, Stages, Element
        <5> QED
          BY <5>1, <5>2, <5>3
      <4> QED
        BY <4>1, <4>2
    <3>7. PICK b : b = tasks \o w
      OBVIOUS
    <3>8. /\ b \in Seq(Tasks) /\ Len(b) = Len(tasks) + Len(w)
          /\ \A i \in 1 .. Len(tasks) + Len(w) :
               b[i] = IF i <= Len(tasks) THEN tasks[i] ELSE w[i - Len(tasks)]
      BY <3>5, <3>6, <3>7, ConcatProperties
    <3>9. b[1].stage # "use"
      <4>1. 1 \in 1 .. Len(tasks) + Len(w) /\ (1 <= Len(tasks) => Len(tasks) = 1)
            /\ (~(1 <= Len(tasks)) => 1 - Len(tasks) = 1)
        BY <3>5, <3>6
      <4> QED
        BY <3>2, <3>5, <3>6, <3>8, <4>1
    <3>10. Then("console", b) /\ instance' = instance /\ phase' = phase
      BY <2>10, <3>3, <3>4, <3>7 DEF KeyHandled, life
    <3> QED
      BY <1>4, <2>a, <2>b, <3>8, <3>9, <3>10
  <2> QED
    BY <1>10, <2>1, <2>2, <2>3, <2>4, <2>5, <2>6, <2>7, <2>8, <2>9, <2>10 DEF TaskStep
<1>11. CASE TimerFirst \/ Timer \/ InitWorld \/ PushLine \/ Done
  BY <1>2, <1>11 DEF TimerFirst, Timer, InitWorld, PushLine, Call, Done, GameIdle
<1>12. CASE GameStep
  <2>1. agenda["game"] # << >>
    BY <1>12
       DEF GameStep, DelLock, TimerExit, TaskStep, AddTest, DrawTest, LookTest, Tested,
           AddInsert, AddDraw, DelErase, ClearWipe, ClearResize, ClearDraw, DrawChange,
           DrawMark, NullUsed, Looked, Find, Click, Move, Setup, ThroughInstance, KeyLock,
           KeyTest, KeyHandled, KeyUnlock, AtTask
  <2> QED
    BY <1>2, <2>1
<1>13. CASE UNCHANGED vars
  <2>1. /\ agenda' = agenda /\ instance' = instance /\ early' = early /\ phase' = phase
        /\ OfConsole' = OfConsole /\ OfGame' = OfGame
    BY <1>13 DEF vars, life, work, past, OfConsole, OfGame
  <2> QED
    BY <2>1 DEF CrashIInv, UsedEarly, CrashCause
<1> QED
  BY <1>7, <1>8, <1>9, <1>10, <1>11, <1>12, <1>13 DEF Next, ConsoleStep, Over

\* The process dies of nothing else.
LEMMA CrashInvariant == Spec => [](ConsoleIInv /\ CrashIInv)
<1>1. Init => ConsoleIInv /\ CrashIInv
  <2>1. SUFFICES ASSUME Init PROVE CrashIInv
    BY ConsoleStarts
  <2>2. OfConsole = << >> /\ OfGame = << >> /\ Len(OfConsole) = 0
    BY <2>1 DEF Init, OfConsole, OfGame, Thread
  <2> QED
    BY <2>1, <2>2 DEF Init, CrashIInv, UsedEarly, CrashCause
<1>2. ConsoleIInv /\ CrashIInv /\ [Next]_vars => (ConsoleIInv /\ CrashIInv)'
  BY ConsoleSteps, CrashNotBefore, CrashAfter
<1> QED
  BY <1>1, <1>2, PTL DEF Spec

\* For any number of controls: the state is one of the console's, a thread that has nothing
\* to do holds no lock, the elements are freed when the console's thread has ended, and the
\* process dies of a null pointer only while the plugin is unloaded, never on the game
\* thread: by an event read before, or by a click on a menu (ConsoleHelper.cpp 20-52,
\* 221-232, 299-329, 361, 380, 383-388; CHElement.cpp 24-28, 45-49, 423-446, 531-543).
THEOREM ConsoleSafe == Spec => []Inv
<1>1. ConsoleIInv /\ CrashIInv => Inv
  <2>1. SUFFICES ASSUME ConsoleIInv, CrashIInv PROVE Inv
    OBVIOUS
  <2>2. TypeOK /\ AgendaTyped /\ ConsoleTasks /\ LockHeld /\ DeleteHeld /\ Ended /\ CrashCause
    BY <2>1, ConsoleParts DEF CrashIInv
  <2>3. LocksReturned
    <3>1. SUFFICES ASSUME NEW t \in Thread, agenda[t] = << >>
                   PROVE  /\ elementsLock.owner # t
                          /\ deleteLock = t => t = "console" /\ cpc = "paint"
      BY DEF LocksReturned
    <3>2. CASE t = "game"
      <4>1. ~Deleting
        <5>1. Len(OfGame) = 0
          BY <3>1, <3>2 DEF OfGame
        <5> QED
          BY <5>1 DEF Deleting
      <4> QED
        BY <2>2, <3>2, <4>1, NamesDiffer DEF LockHeld, DeleteHeld
    <3>3. CASE t = "console"
      <4>1. ~KeyHeld
        <5>1. Len(OfConsole) = 0
          BY <3>1, <3>3 DEF OfConsole
        <5> QED
          BY <5>1 DEF KeyHeld
      <4> QED
        BY <2>2, <3>3, <4>1, NamesDiffer DEF LockHeld, DeleteHeld
    <3> QED
      BY <3>2, <3>3 DEF Thread
  <2>4. FreedAlone
    BY <2>2 DEF FreedAlone, Ended, ConsoleTasks, OfConsole
  <2> QED
    BY <2>2, <2>3, <2>4 DEF Inv
<1> QED
  BY <1>1, CrashInvariant, PTL

\* For any number of controls, whatever wipes and changes of both threads come between: each
\* element is on the screen as it looks now, or is to be painted, or will be drawn by a call
\* under way, as long as no list was changed under clear(); and a deleted one is painted at
\* most twice more (ConsoleHelper.cpp 20-52, 90-141, 234-272, 363-378).
THEOREM ScreenFollows == Spec => []ScreenTrue
<1>1. ConsoleIInv => ScreenTrue
  BY ConsoleParts DEF ScreenTrue
<1> QED
  BY <1>1, ConsoleInvariant, PTL

-----------------------------------------------------------------------------
(* The lines, their box and its scroll bar: LinesBox.                       *)

\* Between the steps of an operation the state is described by where the threads are.
Game == at["game"]
Operating == at["console"]

Places == Steps["game"] \cup Steps["console"]

Typed ==
  /\ LinesTypeOK
  /\ at \in [Thread -> Places] /\ npos \in [Thread -> Int]

\* Two threads are not in the lines at a time, if one of them changes them; and there is
\* one line too many only while a push goes on.
Apart ==
  /\ Game = "erasing" => n = limit + 1
  /\ Game \in {"idle", "pushing", "pop", "popped"} => n <= limit
  /\ Game \in Writes => Operating \notin Reads \cup Writes

\* Nothing is said to be right while both threads are at work, nor of the position if not
\* of the number of lines.
Alone ==
  /\ "rest" \notin crossed => crossed = {}
  /\ "total" \notin crossed =>
       /\ Game = "idle" \/ Operating = "idle"
       /\ Game \in {"pushed", "total", "follow", "show", "pop", "popped"} \cup Scrolling
            => linesHolder
       /\ lastPos => Operating \in {"idle", "drawing"}

\* Whatever has crossed, the bar does not count lines that are not there, but for the one
\* of an empty box.
NoMore ==
  /\ ~linesHolder => total = 1
  /\ total <= n \/ total = 1 \/ Operating = "cleared" \/ Game = "pop"

\* An empty box begins where its bar does, unless one of them is still to be set, or the
\* bar does not show an end.
BeginsWithBar == boxPos = pos \/ pos >= 0 \/ pos <= -visible

EmptyBox ==
  n = 0 =>
    \/ BeginsWithBar
    \/ Operating \in {"cleared", "move", "regions", "sync"} \/ Game \in {"regions", "sync"}

Counted ==
  /\ "total" \notin crossed /\ Operating = "cleared" => n = 0
  /\ linesHolder /\ Operating \notin {"copying", "clearing", "cleared"} =>
       /\ "total" \notin crossed /\ Game = "idle" => total = n \/ (n = 0 /\ total = 1)
       /\ "total" \notin crossed /\ Game \notin {"idle", "pushing", "pushed", "total", "pop"}
            => total = n
       /\ crossed = {} /\ Game = "pushing" => total = n \/ (n = 0 /\ total = 1)
       /\ crossed = {} /\ Game \in {"pushed", "total"}
            => total = n - 1 \/ (n = 1 /\ total = 1)
       /\ crossed = {} /\ Game = "pop" => total = n + 1

\* Where the bar may be.
InRange(p) == (p <= 0 \/ p <= total - visible) /\ (p >= 0 \/ p = total - visible)

Thumb == regions \in RegionsOf(total, pos, visible)

Ranged ==
  crossed = {} =>
    /\ Operating = "move" => InRange(npos["console"])
    /\ Game = "move" => InRange(npos["game"])
    /\ Operating \notin {"copying", "clearing", "cleared", "move"}
         /\ Game \notin {"follow", "move"} => InRange(pos)
    /\ Operating \in {"idle", "drawing", "sync"}
         /\ Game \notin {"follow", "move", "regions", "popped"} => Thumb
    /\ Game = "total" => (lastPos <=> total = visible + pos)
    /\ Game = "follow" => IF lastPos THEN pos = total - visible => Thumb ELSE InRange(pos)

\* The end, and where the box is that shows it.
BoxAtEnd == visible > 1 => boxPos < n /\ n <= boxPos + visible
BoxAtBar == visible > 1 => boxPos = pos

\* What a push has found, and does, if the box showed the end.
LinesFollow ==
  "total" \notin crossed /\ linesHolder /\ (Game = "pushed" \/ lastPos) =>
    /\ Game = "idle" => pos = n - visible /\ BoxAtEnd
    /\ Game = "pushed" => total < n \/ (total = 1 /\ n = 1 /\ BeginsWithBar)
    /\ Game \in {"total", "follow"} =>
         pos + visible < n \/ (n = 1 /\ pos = 1 - visible /\ BoxAtBar)
    /\ Game = "move" => npos["game"] = n - visible
    /\ Game \in {"regions", "sync"} => pos = n - visible
    /\ Game \in {"show", "size", "erasing"} => pos = n - visible /\ BoxAtBar
    /\ Game = "pop" => pos = n + 1 - visible /\ BoxAtBar
    /\ Game = "popped" => pos = n - visible /\ BoxAtEnd

\* The lines before the k-th that are in the box have been painted, but for its last row,
\* and but for a box that begins before the first line and behind its bar.
Painted(k) ==
  seen >= 0 /\ \A p \in seen .. k - 1 :
                 boxPos <= p /\ p < boxPos + visible =>
                   p >= pos + visible - 1 \/ (boxPos < 0 /\ pos >= 0)

Unseen ==
  crossed = {} /\ linesHolder =>
    /\ Operating \in {"idle", "drawing"} /\ Game \in {"idle", "pushing", "size"} => Painted(n)
    /\ Game \in {"pushed", "total", "follow", "show"} => Painted(n - 1)

Steady == Apart /\ Alone /\ NoMore /\ EmptyBox /\ Counted /\ Ranged /\ LinesFollow /\ Unseen

LinesIInv == Typed /\ (Defined => Steady)

\* The smaller and the larger of two numbers.
LEMMA SmallerLarger ==
  ASSUME NEW a \in Int, NEW b \in Int
  PROVE  /\ Smaller(a, b) = IF a <= b THEN a ELSE b
         /\ Larger(a, b) = IF a <= b THEN b ELSE a
<1>1. ASSUME a <= b PROVE Smaller(a, b) = a /\ Larger(a, b) = b
  BY <1>1 DEF Smaller, Larger, Min, Max
<1>2. ASSUME b <= a PROVE Smaller(a, b) = b /\ Larger(a, b) = a
  BY <1>2 DEF Smaller, Larger, Min, Max
<1> QED
  BY <1>1, <1>2

\* A division that is rounded up.
LEMMA RoundedUp ==
  ASSUME NEW a \in Int, NEW b \in Nat \ {0}
  PROVE  /\ Ceil(a, b) \in Int
         /\ a <= Ceil(a, b) * b /\ Ceil(a, b) * b < a + b
<1>1. PICK m \in Int : m = -a
  OBVIOUS
<1>2. PICK q \in Int, r \in 0 .. b - 1 : q = m \div b /\ m = q * b + r
  BY Division
<1>3. Ceil(a, b) = -q /\ (-q) * b = -(q * b) /\ q * b \in Int
  BY <1>1, <1>2 DEF Ceil
<1>4. a <= (-q) * b /\ (-q) * b < a + b
  BY ONLY <1>1, <1>2, <1>3, a \in Int, b \in Nat \ {0}
<1> QED
  BY <1>3, <1>4

\* Of two numbers whose product with a third differ by less than it, the first is at most
\* the second.
LEMMA Divided ==
  ASSUME NEW a \in Int, NEW b \in Int, NEW w \in Nat \ {0}, a * w < (b + 1) * w
  PROVE  a <= b
<1> SUFFICES ASSUME b + 1 <= a PROVE FALSE
  OBVIOUS
<1>1. (b + 1) * w <= a * w
  BY Scaled
<1>2. (b + 1) * w \in Int /\ a * w \in Int
  OBVIOUS
<1> QED
  BY ONLY <1>1, <1>2, a * w < (b + 1) * w

\* A quotient of the bar is the exact one, or by one more where that is a whole number.
LEMMA RoundedParts ==
  ASSUME NEW t \in Int, NEW p \in Int, NEW tot \in Nat \ {0}, NEW q \in FloatCeil(t, tot, p)
  PROVE  q \in Int /\ t * p <= q * tot /\ q * tot <= t * p + tot
<1> DEFINE x == t * p
<1>1. x \in Int
  OBVIOUS
<1> HIDE DEF x
<1>2. PICK a \in Int : a = Ceil(x, tot) /\ x <= a * tot /\ a * tot < x + tot
  BY <1>1, RoundedUp
<1>3. q = a \/ (x % tot = 0 /\ q = a + 1)
  BY <1>2 DEF FloatCeil, x
<1>4. CASE q = a
  <2>1. a * tot \in Int
    OBVIOUS
  <2> QED
    BY ONLY <1>1, <1>2, <1>4, <2>1, tot \in Nat \ {0} DEF x
<1>5. CASE x % tot = 0 /\ q = a + 1
  <2>1. PICK k \in Int : x = k * tot
    <3>1. x \div tot \in Int /\ x = tot * (x \div tot) + (x % tot)
      BY <1>1
    <3>2. PICK k \in Int : k = x \div tot
      BY <3>1
    <3>3. tot * k = k * tot /\ k * tot \in Int
      OBVIOUS
    <3>4. x = k * tot
      BY ONLY <1>5, <3>1, <3>2, <3>3
    <3> QED
      BY <3>4
  <2>2. a <= k
    <3>1. (k + 1) * tot = k * tot + tot /\ k * tot \in Int /\ a * tot \in Int
      OBVIOUS
    <3>2. a * tot < (k + 1) * tot
      BY ONLY <1>2, <2>1, <3>1
    <3> QED
      BY <3>2, Divided
  <2>3. a * tot <= k * tot
    BY <2>2, Scaled
  <2>4. (a + 1) * tot = a * tot + tot /\ a * tot \in Int /\ k * tot \in Int
    OBVIOUS
  <2>5. x <= q * tot /\ q * tot <= x + tot /\ q \in Int
    BY ONLY <1>2, <1>5, <2>1, <2>3, <2>4, tot \in Nat \ {0}
  <2> QED
    BY <2>5 DEF x
<1> QED
  BY <1>3, <1>4, <1>5

\* The regions of the bar: the quotients, of which the first is at least one.
LEMMA RegionsAre ==
  ASSUME NEW tot \in Nat \ {0}, NEW p \in Int, NEW h \in Nat, NEW r \in RegionsOf(tot, p, h)
  PROVE  \E a \in FloatCeil(h - 2, tot, h), b \in FloatCeil(h - 2, tot, p) :
           /\ r = <<Larger(1, a), Larger(0, b)>> /\ a \in Int /\ b \in Int
           /\ (h - 2) * h <= a * tot /\ a * tot <= (h - 2) * h + tot
           /\ (h - 2) * p <= b * tot /\ b * tot <= (h - 2) * p + tot
<1>1. PICK a \in FloatCeil(h - 2, tot, h), b \in FloatCeil(h - 2, tot, p) :
        r = <<Larger(1, a), Larger(0, b)>>
  BY DEF RegionsOf
<1>2. /\ a \in Int /\ (h - 2) * h <= a * tot /\ a * tot <= (h - 2) * h + tot
      /\ b \in Int /\ (h - 2) * p <= b * tot /\ b * tot <= (h - 2) * p + tot
  <2>1. h - 2 \in Int /\ h \in Int
    OBVIOUS
  <2> QED
    BY ONLY <2>1, RoundedParts, tot \in Nat \ {0}, p \in Int,
            a \in FloatCeil(h - 2, tot, h), b \in FloatCeil(h - 2, tot, p)
<1> QED
  BY <1>1, <1>2

\* The regions of the bar are numbers.
LEMMA RegionsTyped ==
  ASSUME NEW tot \in Nat, NEW p \in Int, NEW h \in Nat, NEW r \in RegionsOf(tot, p, h)
  PROVE  r \in (Nat \ {0}) \X Nat
<1>1. CASE tot = 0
  BY <1>1 DEF RegionsOf
<1>2. CASE tot # 0
  <2>1. PICK a \in Int, b \in Int : r = <<Larger(1, a), Larger(0, b)>>
    <3>1. tot \in Nat \ {0} /\ h - 2 \in Int /\ h \in Int
      BY <1>2
    <3>2. PICK a \in FloatCeil(h - 2, tot, h), b \in FloatCeil(h - 2, tot, p) :
            r = <<Larger(1, a), Larger(0, b)>>
      BY <1>2 DEF RegionsOf
    <3>3. a \in Int /\ b \in Int
      BY ONLY <3>1, <3>2, RoundedParts, p \in Int
    <3> QED
      BY <3>2, <3>3
  <2>2. Larger(1, a) \in Nat \ {0} /\ Larger(0, b) \in Nat
    BY SmallerLarger
  <2> QED
    BY <2>1, <2>2
<1> QED
  BY <1>1, <1>2

\* The thumb does not reach below the box.
LEMMA ThumbFits ==
  ASSUME NEW tot \in Nat, NEW p \in Nat, NEW h \in Nat, h > 2, tot >= h, p <= tot - h,
         NEW r \in RegionsOf(tot, p, h)
  PROVE  r[1] + r[2] <= h
<1> DEFINE x == (h - 2) * h
           y == (h - 2) * p
<1>1. x \in Nat /\ y \in Nat /\ x > 0
  <2>1. h - 2 \in Nat /\ h - 2 > 0 /\ h > 0
    OBVIOUS
  <2> QED
    BY <2>1
<1>2. x + y <= (h - 2) * tot
  <2>1. x + y = (h + p) * (h - 2) /\ (h - 2) * tot = tot * (h - 2)
    OBVIOUS
  <2>2. (h + p) * (h - 2) <= tot * (h - 2)
    BY Scaled
  <2> QED
    BY <2>1, <2>2
<1> HIDE DEF x, y
<1>0. tot \in Nat \ {0} /\ x \in Int /\ y \in Int /\ p \in Int
  BY <1>1
<1>3. PICK a \in Int, b \in Int :
        /\ r = <<Larger(1, a), Larger(0, b)>>
        /\ x <= a * tot /\ a * tot <= x + tot /\ y <= b * tot /\ b * tot <= y + tot
  BY <1>0, RegionsAre DEF x, y
<1>5. a * tot \in Int /\ b * tot \in Int
  OBVIOUS
<1>6. a >= 1
  <2> SUFFICES ASSUME a <= 0 PROVE FALSE
    OBVIOUS
  <2>1. a * tot <= 0 * tot
    BY Scaled
  <2>2. 0 * tot = 0
    OBVIOUS
  <2> QED
    BY ONLY <1>1, <1>3, <1>5, <2>1, <2>2
<1>7. b >= 0
  <2> SUFFICES ASSUME b + 1 <= 0 PROVE FALSE
    OBVIOUS
  <2>1. (b + 1) * tot <= 0 * tot
    BY Scaled
  <2>2. 0 * tot = 0 /\ (b + 1) * tot = b * tot + tot
    OBVIOUS
  <2> QED
    BY ONLY <1>1, <1>3, <1>5, <2>1, <2>2, tot \in Nat, tot >= h, h \in Nat, h > 2
<1>8. a + b <= h
  <2>1. (a + b) * tot = a * tot + b * tot
    OBVIOUS
  <2>2. (h + 1) * tot = (h - 2) * tot + tot + tot + tot /\ (h - 2) * tot \in Int
    OBVIOUS
  <2>3. (a + b) * tot < (h + 1) * tot
    BY ONLY <1>1, <1>2, <1>3, <1>5, <2>1, <2>2, tot \in Nat, tot >= h, h \in Nat, h > 2
  <2>4. tot \in Nat \ {0} /\ a + b \in Int /\ h \in Int
    OBVIOUS
  <2> QED
    BY <2>3, <2>4, Divided
<1>9. Larger(1, a) = a /\ Larger(0, b) = b
  BY <1>6, <1>7, SmallerLarger
<1>10. r[1] = a /\ r[2] = b
  BY <1>3, <1>9
<1> QED
  BY ONLY <1>8, <1>10

\* The types, one by one.
LEMMA LinesTypes ==
  ASSUME Typed
  PROVE  /\ n \in Nat /\ n <= limit + 1 /\ total \in Nat /\ total <= limit + 1
         /\ visible \in Heights /\ visible \in Nat \ {0} /\ limit \in Nat \ {0}
         /\ pos \in Int /\ boxPos \in Int /\ regions \in (Nat \ {0}) \X Nat
         /\ linesHolder \in BOOLEAN /\ needReceiveLines \in BOOLEAN /\ lastPos \in BOOLEAN
         /\ undefined \in BOOLEAN /\ crossed \subseteq {"total", "rest"}
         /\ Game \in Steps["game"] /\ Operating \in Steps["console"]
         /\ npos["game"] \in Int /\ npos["console"] \in Int
         /\ seen \in Int /\ -1 <= seen /\ seen <= limit + 1
BY LinesAssumption DEF Typed, LinesTypeOK, Game, Operating, Thread

\* The types hold again if the values are of them.
LEMMA LinesTypesHold ==
  ASSUME Typed,
         n' \in Nat, n' <= limit + 1, total' \in Nat, total' <= limit + 1,
         visible' \in Heights, pos' \in Int, boxPos' \in Int,
         regions' = regions \/ regions' \in RegionsOf(total', pos', visible'),
         linesHolder' \in BOOLEAN, needReceiveLines' \in BOOLEAN, lastPos' \in BOOLEAN,
         undefined' \in BOOLEAN, crossed' \subseteq {"total", "rest"},
         at' \in [Thread -> Places], Game' \in Steps["game"], Operating' \in Steps["console"],
         npos' \in [Thread -> Int], seen' = seen \/ seen' = -1 \/ seen' = n \/ seen' = n'
  PROVE  Typed'
<1>1. /\ n \in Nat /\ n <= limit + 1 /\ seen \in -1 .. limit + 1 /\ limit \in Nat \ {0}
      /\ regions \in (Nat \ {0}) \X Nat
  BY LinesTypes
<1>2. n' \in 0 .. limit + 1 /\ total' \in 0 .. limit + 1 /\ seen' \in -1 .. limit + 1
  BY <1>1
<1>3. regions' \in (Nat \ {0}) \X Nat
  <2>1. visible' \in Nat
    BY LinesAssumption
  <2> QED
    BY <1>1, <2>1, RegionsTyped
<1>4. \A t \in Thread : at'[t] \in Steps[t] /\ npos'[t] \in Int
  BY DEF Thread, Game, Operating
<1> QED
  BY <1>2, <1>3, <1>4 DEF Typed, LinesTypeOK

\* A thread goes on.
LEMMA GameGoes ==
  ASSUME Typed, NEW step \in Places, NEW wrong, wrong \subseteq {"total", "rest"},
         GoFrom("game", step, wrong)
  PROVE  /\ at' \in [Thread -> Places] /\ Game' = step /\ Operating' = Operating
         /\ Operating = "idle" => crossed' = wrong
         /\ Operating # "idle" => crossed' = {"total", "rest"}
<1>1. wrong \cup {"total", "rest"} = {"total", "rest"} /\ wrong \cup {} = wrong
  OBVIOUS
<1> QED
  BY <1>1 DEF Typed, GoFrom, Crossing, Other, Thread, Game, Operating

LEMMA ConsoleGoes ==
  ASSUME Typed, NEW step \in Places, NEW wrong, wrong \subseteq {"total", "rest"},
         GoFrom("console", step, wrong)
  PROVE  /\ at' \in [Thread -> Places] /\ Operating' = step /\ Game' = Game
         /\ Game = "idle" => crossed' = wrong
         /\ Game # "idle" => crossed' = {"total", "rest"}
<1>1. wrong \cup {"total", "rest"} = {"total", "rest"} /\ wrong \cup {} = wrong
  OBVIOUS
<1> QED
  BY <1>1 DEF Typed, GoFrom, Crossing, Other, Thread, Game, Operating

\* Where changePos goes is in the range.
LEMMA ClampedInRange ==
  ASSUME Typed, NEW p \in Int
  PROVE  /\ Clamped(p) \in Int /\ InRange(Clamped(p))
         /\ Clamped(total - visible) = total - visible
<1>1. /\ total \in Nat /\ visible \in Nat
  BY LinesTypes
<1>2. total - visible \in Int
  BY <1>1
<1>3. PICK m \in Int : m = Larger(p, 0) /\ m >= 0
  BY SmallerLarger
<1>4. Clamped(p) = IF m <= total - visible THEN m ELSE total - visible
  BY <1>2, <1>3, SmallerLarger DEF Clamped
<1>5. Clamped(total - visible) = total - visible
  <2>1. PICK k \in Int : k = Larger(total - visible, 0) /\ k >= total - visible
    BY <1>2, SmallerLarger
  <2> QED
    BY <1>2, <2>1, SmallerLarger DEF Clamped
<1> QED
  BY <1>2, <1>3, <1>4, <1>5 DEF InRange

\* A push begins.
LEMMA PushBeginKeeps ==
  ASSUME LinesIInv, Defined, PushBegin
  PROVE  LinesIInv'
<1>1. /\ Typed /\ Apart /\ Alone /\ NoMore /\ EmptyBox /\ Counted /\ Ranged /\ LinesFollow
      /\ Unseen
  BY DEF LinesIInv, Steady
<1>2. /\ Game = "idle"
      /\ GoFrom("game", "pushing", IF linesHolder THEN crossed \ {"total"} ELSE crossed)
      /\ undefined' \in BOOLEAN /\ (undefined' <=> Operating \in Reads \cup Writes) /\ n' = n
      /\ linesHolder' = linesHolder /\ needReceiveLines' = needReceiveLines /\ total' = total
      /\ pos' = pos /\ visible' = visible /\ regions' = regions /\ boxPos' = boxPos
      /\ npos' = npos /\ lastPos' = lastPos /\ seen' = seen
  BY <1>1 DEF Game, Operating, scroll, Go, PushBegin, Idle, EnterFrom, Other, Reads, Writes
<1>3. /\ at' \in [Thread -> Places] /\ Game' = "pushing" /\ Operating' = Operating
      /\ (Operating = "idle" => crossed' = IF linesHolder THEN crossed \ {"total"} ELSE crossed)
      /\ (Operating # "idle" => crossed' = {"total", "rest"})
  <2>1. "pushing" \in Places
    BY DEF Places, Steps
  <2>2. (IF linesHolder THEN crossed \ {"total"} ELSE crossed) \subseteq {"total", "rest"}
    BY <1>1, LinesTypes
  <2> QED
    BY ONLY <1>1, <1>2, <2>1, <2>2, GameGoes
<1>4. Typed'
  <2>1. /\ n' \in Nat /\ n' <= limit + 1 /\ total' \in Nat /\ total' <= limit + 1
        /\ visible' \in Heights /\ pos' \in Int /\ boxPos' \in Int /\ lastPos' \in BOOLEAN
        /\ linesHolder' \in BOOLEAN /\ needReceiveLines' \in BOOLEAN /\ undefined' \in BOOLEAN
        /\ npos' \in [Thread -> Int] /\ (seen' = seen \/ seen' = -1 \/ seen' = n \/ seen' = n')
    BY <1>1, <1>2, LinesTypes DEF Typed
  <2>2. /\ Game' \in Steps["game"] /\ Operating' \in Steps["console"]
        /\ crossed' \subseteq {"total", "rest"}
    BY <1>1, <1>2, <1>3, LinesTypes DEF Steps, Scrolling, Reads, Writes
  <2>3. regions' = regions \/ regions' \in RegionsOf(total', pos', visible')
    BY ONLY <1>2
  <2> QED
    BY ONLY <1>1, <1>3, <2>1, <2>2, <2>3, LinesTypesHold
<1>5. ASSUME Defined' PROVE Steady'
  <2>1. Apart'
    BY <1>1, <1>2, <1>3, LinesTypes, <1>5 DEF Apart, Writes, Reads, Defined
  <2>2. Alone'
    BY <1>1, <1>2, <1>3, LinesTypes, <1>5 DEF Alone, Scrolling, Defined
  <2>3. NoMore'
    BY <1>1, <1>2, <1>3, LinesTypes, <1>5 DEF NoMore, Defined
  <2>4. EmptyBox'
    BY <1>1, <1>2, <1>3, LinesTypes, <1>5 DEF EmptyBox, BeginsWithBar, Defined
  <2>5. Counted'
    BY <1>1, <1>2, <1>3, LinesTypes, <1>5 DEF Counted, Alone, Scrolling, Defined
  <2>6. Ranged'
    BY <1>1, <1>2, <1>3, LinesTypes, <1>5 DEF Ranged, Alone, InRange, Thumb, Scrolling, Defined
  <2>7. LinesFollow'
    BY <1>1, <1>2, <1>3, LinesTypes, <1>5 DEF LinesFollow, Alone, BoxAtEnd, BoxAtBar,
       BeginsWithBar,
       Scrolling, Defined
  <2>8. Unseen'
    BY <1>1, <1>2, <1>3, LinesTypes, <1>5 DEF Unseen, Alone, Painted, Scrolling, Defined
  <2> QED
    BY <2>1, <2>2, <2>3, <2>4, <2>5, <2>6, <2>7, <2>8 DEF Steady
<1> QED
  BY <1>4, <1>5 DEF LinesIInv

\* A line is there, and the box shows it.
LEMMA PushEndKeeps ==
  ASSUME LinesIInv, Defined, PushEnd, linesHolder
  PROVE  LinesIInv'
<1>1. /\ Typed /\ Apart /\ Alone /\ NoMore /\ EmptyBox /\ Counted /\ Ranged /\ LinesFollow
      /\ Unseen
  BY DEF LinesIInv, Steady
<1>2. /\ Game = "pushing" /\ linesHolder /\ GoFrom("game", "pushed", crossed) /\ n' = n + 1
      /\ linesHolder' = linesHolder /\ needReceiveLines' = needReceiveLines /\ total' = total
      /\ pos' = pos /\ visible' = visible /\ regions' = regions /\ boxPos' = boxPos
      /\ npos' = npos /\ lastPos' = lastPos /\ seen' = seen /\ undefined' = undefined
  BY <1>1 DEF Game, Operating, scroll, Go, PushEnd, At
<1>3. /\ at' \in [Thread -> Places] /\ Game' = "pushed" /\ Operating' = Operating
      /\ (Operating = "idle" => crossed' = crossed)
      /\ (Operating # "idle" => crossed' = {"total", "rest"})
  <2>1. "pushed" \in Places
    BY DEF Places, Steps
  <2>2. crossed \subseteq {"total", "rest"}
    BY <1>1, LinesTypes
  <2> QED
    BY ONLY <1>1, <1>2, <2>1, <2>2, GameGoes
<1>4. Typed'
  <2>1. /\ n' \in Nat /\ n' <= limit + 1 /\ total' \in Nat /\ total' <= limit + 1
        /\ visible' \in Heights /\ pos' \in Int /\ boxPos' \in Int /\ lastPos' \in BOOLEAN
        /\ linesHolder' \in BOOLEAN /\ needReceiveLines' \in BOOLEAN /\ undefined' \in BOOLEAN
        /\ npos' \in [Thread -> Int] /\ (seen' = seen \/ seen' = -1 \/ seen' = n \/ seen' = n')
    BY <1>1, <1>2, LinesTypes DEF Typed, Apart
  <2>2. /\ Game' \in Steps["game"] /\ Operating' \in Steps["console"]
        /\ crossed' \subseteq {"total", "rest"}
    BY <1>1, <1>2, <1>3, LinesTypes DEF Steps, Scrolling, Reads, Writes
  <2>3. regions' = regions \/ regions' \in RegionsOf(total', pos', visible')
    BY ONLY <1>2
  <2> QED
    BY ONLY <1>1, <1>3, <2>1, <2>2, <2>3, LinesTypesHold
<1>5. ASSUME Defined' PROVE Steady'
  <2>1. Apart'
    BY <1>1, <1>2, <1>3, LinesTypes, <1>5 DEF Apart, Writes, Reads, Defined
  <2>2. Alone'
    BY <1>1, <1>2, <1>3, LinesTypes, <1>5 DEF Alone, Scrolling, Defined
  <2>3. NoMore'
    BY <1>1, <1>2, <1>3, LinesTypes, <1>5 DEF NoMore, Defined
  <2>4. EmptyBox'
    BY <1>1, <1>2, <1>3, LinesTypes, <1>5 DEF EmptyBox, BeginsWithBar, Defined
  <2>5. Counted'
    BY <1>1, <1>2, <1>3, LinesTypes, <1>5 DEF Counted, Alone, Scrolling, Defined
  <2>6. Ranged'
    BY <1>1, <1>2, <1>3, LinesTypes, <1>5 DEF Ranged, Alone, InRange, Thumb, Scrolling, Defined
  <2>7. LinesFollow'
    BY <1>1, <1>2, <1>3, LinesTypes, <1>5 DEF LinesFollow, Alone, NoMore, EmptyBox, BoxAtEnd,
       BoxAtBar, BeginsWithBar, Scrolling, Defined
  <2>8. Unseen'
    BY <1>1, <1>2, <1>3, LinesTypes, <1>5 DEF Unseen, Alone, Painted, Scrolling, Defined
  <2> QED
    BY <2>1, <2>2, <2>3, <2>4, <2>5, <2>6, <2>7, <2>8 DEF Steady
<1> QED
  BY <1>4, <1>5 DEF LinesIInv

\* A line is there that the box does not show.
LEMMA PushEndElseKeeps ==
  ASSUME LinesIInv, Defined, PushEnd, ~linesHolder
  PROVE  LinesIInv'
<1>1. /\ Typed /\ Apart /\ Alone /\ NoMore /\ EmptyBox /\ Counted /\ Ranged /\ LinesFollow
      /\ Unseen
  BY DEF LinesIInv, Steady
<1>2. /\ Game = "pushing" /\ ~linesHolder /\ GoFrom("game", "size", crossed) /\ n' = n + 1
      /\ linesHolder' = linesHolder /\ needReceiveLines' = needReceiveLines /\ total' = total
      /\ pos' = pos /\ visible' = visible /\ regions' = regions /\ boxPos' = boxPos
      /\ npos' = npos /\ lastPos' = lastPos /\ seen' = seen /\ undefined' = undefined
  BY <1>1 DEF Game, Operating, scroll, Go, PushEnd, At
<1>3. /\ at' \in [Thread -> Places] /\ Game' = "size" /\ Operating' = Operating
      /\ (Operating = "idle" => crossed' = crossed)
      /\ (Operating # "idle" => crossed' = {"total", "rest"})
  <2>1. "size" \in Places
    BY DEF Places, Steps
  <2>2. crossed \subseteq {"total", "rest"}
    BY <1>1, LinesTypes
  <2> QED
    BY ONLY <1>1, <1>2, <2>1, <2>2, GameGoes
<1>4. Typed'
  <2>1. /\ n' \in Nat /\ n' <= limit + 1 /\ total' \in Nat /\ total' <= limit + 1
        /\ visible' \in Heights /\ pos' \in Int /\ boxPos' \in Int /\ lastPos' \in BOOLEAN
        /\ linesHolder' \in BOOLEAN /\ needReceiveLines' \in BOOLEAN /\ undefined' \in BOOLEAN
        /\ npos' \in [Thread -> Int] /\ (seen' = seen \/ seen' = -1 \/ seen' = n \/ seen' = n')
    BY <1>1, <1>2, LinesTypes DEF Typed, Apart
  <2>2. /\ Game' \in Steps["game"] /\ Operating' \in Steps["console"]
        /\ crossed' \subseteq {"total", "rest"}
    BY <1>1, <1>2, <1>3, LinesTypes DEF Steps, Scrolling, Reads, Writes
  <2>3. regions' = regions \/ regions' \in RegionsOf(total', pos', visible')
    BY ONLY <1>2
  <2> QED
    BY ONLY <1>1, <1>3, <2>1, <2>2, <2>3, LinesTypesHold
<1>5. ASSUME Defined' PROVE Steady'
  <2>1. Apart'
    BY <1>1, <1>2, <1>3, LinesTypes, <1>5 DEF Apart, Writes, Reads, Defined
  <2>2. Alone'
    BY <1>1, <1>2, <1>3, LinesTypes, <1>5 DEF Alone, Scrolling, Defined
  <2>3. NoMore'
    BY <1>1, <1>2, <1>3, LinesTypes, <1>5 DEF NoMore, Defined
  <2>4. EmptyBox'
    BY <1>1, <1>2, <1>3, LinesTypes, <1>5 DEF EmptyBox, BeginsWithBar, Defined
  <2>5. Counted'
    BY <1>1, <1>2, <1>3, LinesTypes, <1>5 DEF Counted, Alone, Scrolling, Defined
  <2>6. Ranged'
    BY <1>1, <1>2, <1>3, LinesTypes, <1>5 DEF Ranged, Alone, InRange, Thumb, Scrolling, Defined
  <2>7. LinesFollow'
    BY <1>1, <1>2, <1>3, LinesTypes, <1>5 DEF LinesFollow, Alone, BoxAtEnd, BoxAtBar,
       BeginsWithBar,
       Scrolling, Defined
  <2>8. Unseen'
    BY <1>1, <1>2, <1>3, LinesTypes, <1>5 DEF Unseen, Alone, Painted, Scrolling, Defined
  <2> QED
    BY <2>1, <2>2, <2>3, <2>4, <2>5, <2>6, <2>7, <2>8 DEF Steady
<1> QED
  BY <1>4, <1>5 DEF LinesIInv

\* The end is looked for.
LEMMA PushedKeeps ==
  ASSUME LinesIInv, Defined, Pushed
  PROVE  LinesIInv'
<1>1. /\ Typed /\ Apart /\ Alone /\ NoMore /\ EmptyBox /\ Counted /\ Ranged /\ LinesFollow
      /\ Unseen
  BY DEF LinesIInv, Steady
<1>2. /\ Game = "pushed" /\ GoFrom("game", "total", crossed)
      /\ lastPos' = (total = visible + pos) /\ n' = n /\ linesHolder' = linesHolder
      /\ needReceiveLines' = needReceiveLines /\ total' = total /\ pos' = pos
      /\ visible' = visible /\ regions' = regions /\ boxPos' = boxPos /\ npos' = npos
      /\ seen' = seen /\ undefined' = undefined
  BY <1>1 DEF Game, Operating, scroll, Go, Pushed, At
<1>3. /\ at' \in [Thread -> Places] /\ Game' = "total" /\ Operating' = Operating
      /\ (Operating = "idle" => crossed' = crossed)
      /\ (Operating # "idle" => crossed' = {"total", "rest"})
  <2>1. "total" \in Places
    BY DEF Places, Steps
  <2>2. crossed \subseteq {"total", "rest"}
    BY <1>1, LinesTypes
  <2> QED
    BY ONLY <1>1, <1>2, <2>1, <2>2, GameGoes
<1>4. Typed'
  <2>1. /\ n' \in Nat /\ n' <= limit + 1 /\ total' \in Nat /\ total' <= limit + 1
        /\ visible' \in Heights /\ pos' \in Int /\ boxPos' \in Int /\ lastPos' \in BOOLEAN
        /\ linesHolder' \in BOOLEAN /\ needReceiveLines' \in BOOLEAN /\ undefined' \in BOOLEAN
        /\ npos' \in [Thread -> Int] /\ (seen' = seen \/ seen' = -1 \/ seen' = n \/ seen' = n')
    BY <1>1, <1>2, LinesTypes DEF Typed
  <2>2. /\ Game' \in Steps["game"] /\ Operating' \in Steps["console"]
        /\ crossed' \subseteq {"total", "rest"}
    BY <1>1, <1>2, <1>3, LinesTypes DEF Steps, Scrolling, Reads, Writes
  <2>3. regions' = regions \/ regions' \in RegionsOf(total', pos', visible')
    BY ONLY <1>2
  <2> QED
    BY ONLY <1>1, <1>3, <2>1, <2>2, <2>3, LinesTypesHold
<1>5. ASSUME Defined' PROVE Steady'
  <2>1. Apart'
    BY <1>1, <1>2, <1>3, LinesTypes, <1>5 DEF Apart, Writes, Reads, Defined
  <2>2. Alone'
    BY <1>1, <1>2, <1>3, LinesTypes, <1>5 DEF Alone, Scrolling, Defined
  <2>3. NoMore'
    BY <1>1, <1>2, <1>3, LinesTypes, <1>5 DEF NoMore, Defined
  <2>4. EmptyBox'
    BY <1>1, <1>2, <1>3, LinesTypes, <1>5 DEF EmptyBox, BeginsWithBar, Defined
  <2>5. Counted'
    BY <1>1, <1>2, <1>3, LinesTypes, <1>5 DEF Counted, Alone, Scrolling, Defined
  <2>6. Ranged'
    BY <1>1, <1>2, <1>3, LinesTypes, <1>5 DEF Ranged, Alone, InRange, Thumb, Scrolling, Defined
  <2>7. LinesFollow'
    BY <1>1, <1>2, <1>3, LinesTypes, <1>5 DEF LinesFollow, Alone, BoxAtEnd, BoxAtBar,
       BeginsWithBar,
       Scrolling, Defined
  <2>8. Unseen'
    BY <1>1, <1>2, <1>3, LinesTypes, <1>5 DEF Unseen, Alone, Painted, Scrolling, Defined
  <2> QED
    BY <2>1, <2>2, <2>3, <2>4, <2>5, <2>6, <2>7, <2>8 DEF Steady
<1> QED
  BY <1>4, <1>5 DEF LinesIInv

\* The bar is told of the line.
LEMMA SetTotalKeeps ==
  ASSUME LinesIInv, Defined, SetTotal
  PROVE  LinesIInv'
<1>1. /\ Typed /\ Apart /\ Alone /\ NoMore /\ EmptyBox /\ Counted /\ Ranged /\ LinesFollow
      /\ Unseen
  BY DEF LinesIInv, Steady
<1>2. /\ Game = "total" /\ GoFrom("game", "follow", crossed) /\ total' = n
      /\ undefined' \in BOOLEAN /\ (undefined' <=> ~linesHolder) /\ n' = n
      /\ linesHolder' = linesHolder /\ needReceiveLines' = needReceiveLines /\ pos' = pos
      /\ visible' = visible /\ regions' = regions /\ boxPos' = boxPos /\ npos' = npos
      /\ lastPos' = lastPos /\ seen' = seen
  BY <1>1 DEF Game, Operating, scroll, Go, SetTotal, At, ThroughBox
<1>3. /\ at' \in [Thread -> Places] /\ Game' = "follow" /\ Operating' = Operating
      /\ (Operating = "idle" => crossed' = crossed)
      /\ (Operating # "idle" => crossed' = {"total", "rest"})
  <2>1. "follow" \in Places
    BY DEF Places, Steps
  <2>2. crossed \subseteq {"total", "rest"}
    BY <1>1, LinesTypes
  <2> QED
    BY ONLY <1>1, <1>2, <2>1, <2>2, GameGoes
<1>4. Typed'
  <2>1. /\ n' \in Nat /\ n' <= limit + 1 /\ total' \in Nat /\ total' <= limit + 1
        /\ visible' \in Heights /\ pos' \in Int /\ boxPos' \in Int /\ lastPos' \in BOOLEAN
        /\ linesHolder' \in BOOLEAN /\ needReceiveLines' \in BOOLEAN /\ undefined' \in BOOLEAN
        /\ npos' \in [Thread -> Int] /\ (seen' = seen \/ seen' = -1 \/ seen' = n \/ seen' = n')
    BY <1>1, <1>2, LinesTypes DEF Typed
  <2>2. /\ Game' \in Steps["game"] /\ Operating' \in Steps["console"]
        /\ crossed' \subseteq {"total", "rest"}
    BY <1>1, <1>2, <1>3, LinesTypes DEF Steps, Scrolling, Reads, Writes
  <2>3. regions' = regions \/ regions' \in RegionsOf(total', pos', visible')
    BY ONLY <1>2
  <2> QED
    BY ONLY <1>1, <1>3, <2>1, <2>2, <2>3, LinesTypesHold
<1>5. ASSUME Defined' PROVE Steady'
  <2>1. Apart'
    BY <1>1, <1>2, <1>3, LinesTypes, <1>5 DEF Apart, Writes, Reads, Defined
  <2>2. Alone'
    BY <1>1, <1>2, <1>3, LinesTypes, <1>5 DEF Alone, Scrolling, Defined
  <2>3. NoMore'
    BY <1>1, <1>2, <1>3, LinesTypes, <1>5 DEF NoMore, Defined
  <2>4. EmptyBox'
    BY <1>1, <1>2, <1>3, LinesTypes, <1>5 DEF EmptyBox, BeginsWithBar, Defined
  <2>5. Counted'
    BY <1>1, <1>2, <1>3, LinesTypes, <1>5 DEF Counted, Alone, Scrolling, Defined
  <2>6. Ranged'
    BY <1>1, <1>2, <1>3, LinesTypes, <1>5 DEF Ranged, Alone, Counted, InRange, Thumb, Scrolling,
       Defined
  <2>7. LinesFollow'
    BY <1>1, <1>2, <1>3, LinesTypes, <1>5 DEF LinesFollow, Alone, BoxAtEnd, BoxAtBar,
       BeginsWithBar,
       Scrolling, Defined
  <2>8. Unseen'
    BY <1>1, <1>2, <1>3, LinesTypes, <1>5 DEF Unseen, Alone, Painted, Scrolling, Defined
  <2> QED
    BY <2>1, <2>2, <2>3, <2>4, <2>5, <2>6, <2>7, <2>8 DEF Steady
<1> QED
  BY <1>4, <1>5 DEF LinesIInv

\* The box is at the end already.
LEMMA FollowStaysKeeps ==
  ASSUME LinesIInv, Defined, Follow, lastPos, Clamped(total - visible) = pos
  PROVE  LinesIInv'
<1>1. /\ Typed /\ Apart /\ Alone /\ NoMore /\ EmptyBox /\ Counted /\ Ranged /\ LinesFollow
      /\ Unseen
  BY DEF LinesIInv, Steady
<1>0. total - visible \in Int /\ Clamped(total - visible) = total - visible
  BY <1>1, LinesTypes, ClampedInRange
<1>2. /\ Game = "follow" /\ pos = total - visible /\ GoFrom("game", "show", crossed) /\ n' = n
      /\ linesHolder' = linesHolder /\ needReceiveLines' = needReceiveLines /\ total' = total
      /\ pos' = pos /\ visible' = visible /\ regions' = regions /\ boxPos' = boxPos
      /\ npos' = npos /\ lastPos' = lastPos /\ seen' = seen /\ undefined' = undefined
  BY <1>1, <1>0 DEF Game, Operating, scroll, Go, Follow, At, ChangePos
<1>3. /\ at' \in [Thread -> Places] /\ Game' = "show" /\ Operating' = Operating
      /\ (Operating = "idle" => crossed' = crossed)
      /\ (Operating # "idle" => crossed' = {"total", "rest"})
  <2>1. "show" \in Places
    BY DEF Places, Steps
  <2>2. crossed \subseteq {"total", "rest"}
    BY <1>1, LinesTypes
  <2> QED
    BY ONLY <1>1, <1>2, <2>1, <2>2, GameGoes
<1>4. Typed'
  <2>1. /\ n' \in Nat /\ n' <= limit + 1 /\ total' \in Nat /\ total' <= limit + 1
        /\ visible' \in Heights /\ pos' \in Int /\ boxPos' \in Int /\ lastPos' \in BOOLEAN
        /\ linesHolder' \in BOOLEAN /\ needReceiveLines' \in BOOLEAN /\ undefined' \in BOOLEAN
        /\ npos' \in [Thread -> Int] /\ (seen' = seen \/ seen' = -1 \/ seen' = n \/ seen' = n')
    BY <1>1, <1>2, <1>0, LinesTypes DEF Typed
  <2>2. /\ Game' \in Steps["game"] /\ Operating' \in Steps["console"]
        /\ crossed' \subseteq {"total", "rest"}
    BY <1>1, <1>2, <1>3, LinesTypes DEF Steps, Scrolling, Reads, Writes
  <2>3. regions' = regions \/ regions' \in RegionsOf(total', pos', visible')
    BY ONLY <1>2
  <2> QED
    BY ONLY <1>1, <1>3, <2>1, <2>2, <2>3, LinesTypesHold
<1>5. ASSUME Defined' PROVE Steady'
  <2>1. Apart'
    BY <1>1, <1>2, <1>3, <1>0, LinesTypes, <1>5 DEF Apart, Writes, Reads, Defined
  <2>2. Alone'
    BY <1>1, <1>2, <1>3, <1>0, LinesTypes, <1>5 DEF Alone, Scrolling, Defined
  <2>3. NoMore'
    BY <1>1, <1>2, <1>3, <1>0, LinesTypes, <1>5 DEF NoMore, Defined
  <2>4. EmptyBox'
    BY <1>1, <1>2, <1>3, <1>0, LinesTypes, <1>5 DEF EmptyBox, BeginsWithBar, Defined
  <2>5. Counted'
    BY <1>1, <1>2, <1>3, <1>0, LinesTypes, <1>5 DEF Counted, Alone, Scrolling, Defined
  <2>6. Ranged'
    BY <1>1, <1>2, <1>3, <1>0, LinesTypes, <1>5 DEF Ranged, Alone, InRange, Thumb, Scrolling,
       Defined
  <2>7. LinesFollow'
    BY <1>1, <1>2, <1>3, <1>0, LinesTypes, <1>5 DEF LinesFollow, Alone, Counted, BoxAtEnd,
       BoxAtBar,
       BeginsWithBar, Scrolling, Defined
  <2>8. Unseen'
    BY <1>1, <1>2, <1>3, <1>0, LinesTypes, <1>5 DEF Unseen, Alone, Painted, Scrolling, Defined
  <2> QED
    BY <2>1, <2>2, <2>3, <2>4, <2>5, <2>6, <2>7, <2>8 DEF Steady
<1> QED
  BY <1>4, <1>5 DEF LinesIInv

\* The box follows the end.
LEMMA FollowMovesKeeps ==
  ASSUME LinesIInv, Defined, Follow, lastPos, Clamped(total - visible) # pos
  PROVE  LinesIInv'
<1>1. /\ Typed /\ Apart /\ Alone /\ NoMore /\ EmptyBox /\ Counted /\ Ranged /\ LinesFollow
      /\ Unseen
  BY DEF LinesIInv, Steady
<1>0. total - visible \in Int /\ Clamped(total - visible) = total - visible
  BY <1>1, LinesTypes, ClampedInRange
<1>2. /\ Game = "follow" /\ pos # total - visible /\ GoFrom("game", "move", crossed)
      /\ npos' = [npos EXCEPT !["game"] = total - visible] /\ n' = n
      /\ linesHolder' = linesHolder /\ needReceiveLines' = needReceiveLines /\ total' = total
      /\ pos' = pos /\ visible' = visible /\ regions' = regions /\ boxPos' = boxPos
      /\ lastPos' = lastPos /\ seen' = seen /\ undefined' = undefined
  BY <1>1, <1>0 DEF Game, Operating, scroll, Go, Follow, At, ChangePos
<1>3. /\ at' \in [Thread -> Places] /\ Game' = "move" /\ Operating' = Operating
      /\ (Operating = "idle" => crossed' = crossed)
      /\ (Operating # "idle" => crossed' = {"total", "rest"})
  <2>1. "move" \in Places
    BY DEF Places, Steps, Scrolling
  <2>2. crossed \subseteq {"total", "rest"}
    BY <1>1, LinesTypes
  <2> QED
    BY ONLY <1>1, <1>2, <2>1, <2>2, GameGoes
<1>4. /\ npos' \in [Thread -> Int]
      /\ npos'["game"] = total - visible /\ npos'["console"] = npos["console"]
  BY <1>1, <1>2, <1>0, LinesTypes DEF Typed, Thread
<1>5. Typed'
  <2>1. /\ n' \in Nat /\ n' <= limit + 1 /\ total' \in Nat /\ total' <= limit + 1
        /\ visible' \in Heights /\ pos' \in Int /\ boxPos' \in Int /\ lastPos' \in BOOLEAN
        /\ linesHolder' \in BOOLEAN /\ needReceiveLines' \in BOOLEAN /\ undefined' \in BOOLEAN
        /\ npos' \in [Thread -> Int] /\ (seen' = seen \/ seen' = -1 \/ seen' = n \/ seen' = n')
    BY <1>1, <1>2, <1>4, <1>0, LinesTypes DEF Typed
  <2>2. /\ Game' \in Steps["game"] /\ Operating' \in Steps["console"]
        /\ crossed' \subseteq {"total", "rest"}
    BY <1>1, <1>2, <1>3, LinesTypes DEF Steps, Scrolling, Reads, Writes
  <2>3. regions' = regions \/ regions' \in RegionsOf(total', pos', visible')
    BY ONLY <1>2
  <2> QED
    BY ONLY <1>1, <1>3, <2>1, <2>2, <2>3, LinesTypesHold
<1>6. ASSUME Defined' PROVE Steady'
  <2>1. Apart'
    BY <1>1, <1>2, <1>3, <1>4, <1>0, LinesTypes, <1>6 DEF Apart, Writes, Reads, Defined
  <2>2. Alone'
    BY <1>1, <1>2, <1>3, <1>4, <1>0, LinesTypes, <1>6 DEF Alone, Scrolling, Defined
  <2>3. NoMore'
    BY <1>1, <1>2, <1>3, <1>4, <1>0, LinesTypes, <1>6 DEF NoMore, Defined
  <2>4. EmptyBox'
    BY <1>1, <1>2, <1>3, <1>4, <1>0, LinesTypes, <1>6 DEF EmptyBox, BeginsWithBar, Defined
  <2>5. Counted'
    BY <1>1, <1>2, <1>3, <1>4, <1>0, LinesTypes, <1>6 DEF Counted, Alone, Scrolling, Defined
  <2>6. Ranged'
    BY <1>1, <1>2, <1>3, <1>4, <1>0, LinesTypes, <1>6 DEF Ranged, Alone, InRange, Thumb,
       Scrolling, Defined
  <2>7. LinesFollow'
    BY <1>1, <1>2, <1>3, <1>4, <1>0, LinesTypes, <1>6 DEF LinesFollow, Alone, Counted, BoxAtEnd,
       BoxAtBar, BeginsWithBar, Scrolling, Defined
  <2>8. Unseen'
    BY <1>1, <1>2, <1>3, <1>4, <1>0, LinesTypes, <1>6 DEF Unseen, Alone, Painted, Scrolling,
       Defined
  <2> QED
    BY <2>1, <2>2, <2>3, <2>4, <2>5, <2>6, <2>7, <2>8 DEF Steady
<1> QED
  BY <1>5, <1>6 DEF LinesIInv

\* The box did not show the end.
LEMMA FollowNotKeeps ==
  ASSUME LinesIInv, Defined, Follow, ~lastPos
  PROVE  LinesIInv'
<1>1. /\ Typed /\ Apart /\ Alone /\ NoMore /\ EmptyBox /\ Counted /\ Ranged /\ LinesFollow
      /\ Unseen
  BY DEF LinesIInv, Steady
<1>2. /\ Game = "follow" /\ GoFrom("game", "show", crossed)
      /\ regions' \in RegionsOf(total, pos, visible) /\ n' = n /\ linesHolder' = linesHolder
      /\ needReceiveLines' = needReceiveLines /\ total' = total /\ pos' = pos
      /\ visible' = visible /\ boxPos' = boxPos /\ npos' = npos /\ lastPos' = lastPos
      /\ seen' = seen /\ undefined' = undefined
  BY <1>1 DEF Game, Operating, scroll, Go, Follow, At, ChangePos
<1>3. /\ at' \in [Thread -> Places] /\ Game' = "show" /\ Operating' = Operating
      /\ (Operating = "idle" => crossed' = crossed)
      /\ (Operating # "idle" => crossed' = {"total", "rest"})
  <2>1. "show" \in Places
    BY DEF Places, Steps
  <2>2. crossed \subseteq {"total", "rest"}
    BY <1>1, LinesTypes
  <2> QED
    BY ONLY <1>1, <1>2, <2>1, <2>2, GameGoes
<1>4. Typed'
  <2>1. /\ n' \in Nat /\ n' <= limit + 1 /\ total' \in Nat /\ total' <= limit + 1
        /\ visible' \in Heights /\ pos' \in Int /\ boxPos' \in Int /\ lastPos' \in BOOLEAN
        /\ linesHolder' \in BOOLEAN /\ needReceiveLines' \in BOOLEAN /\ undefined' \in BOOLEAN
        /\ npos' \in [Thread -> Int] /\ (seen' = seen \/ seen' = -1 \/ seen' = n \/ seen' = n')
    BY <1>1, <1>2, LinesTypes DEF Typed
  <2>2. /\ Game' \in Steps["game"] /\ Operating' \in Steps["console"]
        /\ crossed' \subseteq {"total", "rest"}
    BY <1>1, <1>2, <1>3, LinesTypes DEF Steps, Scrolling, Reads, Writes
  <2>3. regions' = regions \/ regions' \in RegionsOf(total', pos', visible')
    BY ONLY <1>2
  <2> QED
    BY ONLY <1>1, <1>3, <2>1, <2>2, <2>3, LinesTypesHold
<1>5. ASSUME Defined' PROVE Steady'
  <2>1. Apart'
    BY <1>1, <1>2, <1>3, LinesTypes, <1>5 DEF Apart, Writes, Reads, Defined
  <2>2. Alone'
    BY <1>1, <1>2, <1>3, LinesTypes, <1>5 DEF Alone, Scrolling, Defined
  <2>3. NoMore'
    BY <1>1, <1>2, <1>3, LinesTypes, <1>5 DEF NoMore, Defined
  <2>4. EmptyBox'
    BY <1>1, <1>2, <1>3, LinesTypes, <1>5 DEF EmptyBox, BeginsWithBar, Defined
  <2>5. Counted'
    BY <1>1, <1>2, <1>3, LinesTypes, <1>5 DEF Counted, Alone, Scrolling, Defined
  <2>6. Ranged'
    BY <1>1, <1>2, <1>3, LinesTypes, <1>5 DEF Ranged, Alone, InRange, Thumb, Scrolling, Defined
  <2>7. LinesFollow'
    BY <1>1, <1>2, <1>3, LinesTypes, <1>5 DEF LinesFollow, Alone, BoxAtEnd, BoxAtBar,
       BeginsWithBar,
       Scrolling, Defined
  <2>8. Unseen'
    BY <1>1, <1>2, <1>3, LinesTypes, <1>5 DEF Unseen, Alone, Painted, Scrolling, Defined
  <2> QED
    BY <2>1, <2>2, <2>3, <2>4, <2>5, <2>6, <2>7, <2>8 DEF Steady
<1> QED
  BY <1>4, <1>5 DEF LinesIInv

\* The box is to be drawn, if the line is in it.
LEMMA ShowKeeps ==
  ASSUME LinesIInv, Defined, Show
  PROVE  LinesIInv'
<1>1. /\ Typed /\ Apart /\ Alone /\ NoMore /\ EmptyBox /\ Counted /\ Ranged /\ LinesFollow
      /\ Unseen
  BY DEF LinesIInv, Steady
<1>2. /\ Game = "show" /\ GoFrom("game", "size", crossed)
      /\ seen' = (IF boxPos >= 0 /\ n > boxPos /\ (visible + pos < 0 \/ n < visible + pos)
                  THEN n ELSE seen)
      /\ undefined' \in BOOLEAN /\ (undefined' <=> ~linesHolder) /\ n' = n
      /\ linesHolder' = linesHolder /\ needReceiveLines' = needReceiveLines /\ total' = total
      /\ pos' = pos /\ visible' = visible /\ regions' = regions /\ boxPos' = boxPos
      /\ npos' = npos /\ lastPos' = lastPos
  BY <1>1 DEF Game, Operating, scroll, Go, Show, At, ThroughBox, ShowLine, SizeAbove,
     SizeBelow
<1>3. /\ at' \in [Thread -> Places] /\ Game' = "size" /\ Operating' = Operating
      /\ (Operating = "idle" => crossed' = crossed)
      /\ (Operating # "idle" => crossed' = {"total", "rest"})
  <2>1. "size" \in Places
    BY DEF Places, Steps
  <2>2. crossed \subseteq {"total", "rest"}
    BY <1>1, LinesTypes
  <2> QED
    BY ONLY <1>1, <1>2, <2>1, <2>2, GameGoes
<1>4. Typed'
  <2>1. /\ n' \in Nat /\ n' <= limit + 1 /\ total' \in Nat /\ total' <= limit + 1
        /\ visible' \in Heights /\ pos' \in Int /\ boxPos' \in Int /\ lastPos' \in BOOLEAN
        /\ linesHolder' \in BOOLEAN /\ needReceiveLines' \in BOOLEAN /\ undefined' \in BOOLEAN
        /\ npos' \in [Thread -> Int] /\ (seen' = seen \/ seen' = -1 \/ seen' = n \/ seen' = n')
    BY <1>1, <1>2, LinesTypes DEF Typed
  <2>2. /\ Game' \in Steps["game"] /\ Operating' \in Steps["console"]
        /\ crossed' \subseteq {"total", "rest"}
    BY <1>1, <1>2, <1>3, LinesTypes DEF Steps, Scrolling, Reads, Writes
  <2>3. regions' = regions \/ regions' \in RegionsOf(total', pos', visible')
    BY ONLY <1>2
  <2> QED
    BY ONLY <1>1, <1>3, <2>1, <2>2, <2>3, LinesTypesHold
<1>5. ASSUME Defined' PROVE Steady'
  <2>1. Apart'
    BY <1>1, <1>2, <1>3, LinesTypes, <1>5 DEF Apart, Writes, Reads, Defined
  <2>2. Alone'
    BY <1>1, <1>2, <1>3, LinesTypes, <1>5 DEF Alone, Scrolling, Defined
  <2>3. NoMore'
    BY <1>1, <1>2, <1>3, LinesTypes, <1>5 DEF NoMore, Defined
  <2>4. EmptyBox'
    BY <1>1, <1>2, <1>3, LinesTypes, <1>5 DEF EmptyBox, BeginsWithBar, Defined
  <2>5. Counted'
    BY <1>1, <1>2, <1>3, LinesTypes, <1>5 DEF Counted, Alone, Scrolling, Defined
  <2>6. Ranged'
    BY <1>1, <1>2, <1>3, LinesTypes, <1>5 DEF Ranged, Alone, InRange, Thumb, Scrolling, Defined
  <2>7. LinesFollow'
    BY <1>1, <1>2, <1>3, LinesTypes, <1>5 DEF LinesFollow, Alone, BoxAtEnd, BoxAtBar,
       BeginsWithBar,
       Scrolling, Defined
  <2>8. Unseen'
    <3> SUFFICES ASSUME crossed' = {}, linesHolder'
                 PROVE  Operating' \in {"idle", "drawing"} => Painted(n)'
      BY <1>3 DEF Unseen
    <3>1. /\ Operating = "idle" /\ crossed = {} /\ linesHolder /\ Painted(n - 1) /\ InRange(pos)
          /\ total = n
      BY <1>1, <1>2, <1>3 DEF Unseen, Ranged, Counted
    <3>2. n \in Nat /\ pos \in Int /\ boxPos \in Int /\ visible \in Nat /\ seen \in Int
      BY <1>1, LinesTypes
    <3>3. CASE seen' = n
      BY <1>2, <3>2, <3>3 DEF Painted
    <3>4. CASE seen' = seen /\ ~(boxPos >= 0 /\ n > boxPos /\ (visible + pos < 0 \/ n < visible + pos))
      <4>1. \A p \in seen .. n - 1 :
              boxPos <= p /\ p < boxPos + visible =>
                p >= pos + visible - 1 \/ (boxPos < 0 /\ pos >= 0)
        <5> SUFFICES ASSUME NEW p \in seen .. n - 1, boxPos <= p, p < boxPos + visible
                     PROVE  p >= pos + visible - 1 \/ (boxPos < 0 /\ pos >= 0)
          OBVIOUS
        <5>1. CASE p = n - 1
          BY ONLY <3>1, <3>2, <3>4, <5>1, boxPos <= p DEF InRange
        <5>2. CASE p # n - 1
          BY <3>1, <3>2, <5>2 DEF Painted
        <5> QED
          BY <5>1, <5>2
      <4> QED
        BY <1>2, <3>1, <3>4, <4>1 DEF Painted
    <3> QED
      BY <1>2, <3>3, <3>4
  <2> QED
    BY <2>1, <2>2, <2>3, <2>4, <2>5, <2>6, <2>7, <2>8 DEF Steady
<1> QED
  BY <1>4, <1>5 DEF LinesIInv

\* There is a line too many.
LEMMA SizeBeginKeeps ==
  ASSUME LinesIInv, Defined, Size, n > limit
  PROVE  LinesIInv'
<1>1. /\ Typed /\ Apart /\ Alone /\ NoMore /\ EmptyBox /\ Counted /\ Ranged /\ LinesFollow
      /\ Unseen
  BY DEF LinesIInv, Steady
<1>2. /\ Game = "size" /\ n > limit /\ GoFrom("game", "erasing", crossed)
      /\ undefined' \in BOOLEAN /\ (undefined' <=> Operating \in Reads \cup Writes) /\ n' = n
      /\ linesHolder' = linesHolder /\ needReceiveLines' = needReceiveLines /\ total' = total
      /\ pos' = pos /\ visible' = visible /\ regions' = regions /\ boxPos' = boxPos
      /\ npos' = npos /\ lastPos' = lastPos /\ seen' = seen
  BY <1>1 DEF Game, Operating, scroll, Go, Size, At, Enter, EnterFrom, Other, Reads, Writes
<1>3. /\ at' \in [Thread -> Places] /\ Game' = "erasing" /\ Operating' = Operating
      /\ (Operating = "idle" => crossed' = crossed)
      /\ (Operating # "idle" => crossed' = {"total", "rest"})
  <2>1. "erasing" \in Places
    BY DEF Places, Steps
  <2>2. crossed \subseteq {"total", "rest"}
    BY <1>1, LinesTypes
  <2> QED
    BY ONLY <1>1, <1>2, <2>1, <2>2, GameGoes
<1>4. Typed'
  <2>1. /\ n' \in Nat /\ n' <= limit + 1 /\ total' \in Nat /\ total' <= limit + 1
        /\ visible' \in Heights /\ pos' \in Int /\ boxPos' \in Int /\ lastPos' \in BOOLEAN
        /\ linesHolder' \in BOOLEAN /\ needReceiveLines' \in BOOLEAN /\ undefined' \in BOOLEAN
        /\ npos' \in [Thread -> Int] /\ (seen' = seen \/ seen' = -1 \/ seen' = n \/ seen' = n')
    BY <1>1, <1>2, LinesTypes DEF Typed
  <2>2. /\ Game' \in Steps["game"] /\ Operating' \in Steps["console"]
        /\ crossed' \subseteq {"total", "rest"}
    BY <1>1, <1>2, <1>3, LinesTypes DEF Steps, Scrolling, Reads, Writes
  <2>3. regions' = regions \/ regions' \in RegionsOf(total', pos', visible')
    BY ONLY <1>2
  <2> QED
    BY ONLY <1>1, <1>3, <2>1, <2>2, <2>3, LinesTypesHold
<1>5. ASSUME Defined' PROVE Steady'
  <2>1. Apart'
    BY <1>1, <1>2, <1>3, LinesTypes, <1>5 DEF Apart, Writes, Reads, Defined
  <2>2. Alone'
    BY <1>1, <1>2, <1>3, LinesTypes, <1>5 DEF Alone, Scrolling, Defined
  <2>3. NoMore'
    BY <1>1, <1>2, <1>3, LinesTypes, <1>5 DEF NoMore, Defined
  <2>4. EmptyBox'
    BY <1>1, <1>2, <1>3, LinesTypes, <1>5 DEF EmptyBox, BeginsWithBar, Defined
  <2>5. Counted'
    BY <1>1, <1>2, <1>3, LinesTypes, <1>5 DEF Counted, Alone, Scrolling, Defined
  <2>6. Ranged'
    BY <1>1, <1>2, <1>3, LinesTypes, <1>5 DEF Ranged, Alone, InRange, Thumb, Scrolling, Defined
  <2>7. LinesFollow'
    BY <1>1, <1>2, <1>3, LinesTypes, <1>5 DEF LinesFollow, Alone, BoxAtEnd, BoxAtBar,
       BeginsWithBar,
       Scrolling, Defined
  <2>8. Unseen'
    BY <1>1, <1>2, <1>3, LinesTypes, <1>5 DEF Unseen, Alone, Painted, Scrolling, Defined
  <2> QED
    BY <2>1, <2>2, <2>3, <2>4, <2>5, <2>6, <2>7, <2>8 DEF Steady
<1> QED
  BY <1>4, <1>5 DEF LinesIInv

\* The push is over.
LEMMA SizeKeeps ==
  ASSUME LinesIInv, Defined, Size, ~(n > limit)
  PROVE  LinesIInv'
<1>1. /\ Typed /\ Apart /\ Alone /\ NoMore /\ EmptyBox /\ Counted /\ Ranged /\ LinesFollow
      /\ Unseen
  BY DEF LinesIInv, Steady
<1>2. /\ Game = "size" /\ ~(n > limit) /\ GoFrom("game", "idle", crossed) /\ undefined' = FALSE
      /\ n' = n /\ linesHolder' = linesHolder /\ needReceiveLines' = needReceiveLines
      /\ total' = total /\ pos' = pos /\ visible' = visible /\ regions' = regions
      /\ boxPos' = boxPos /\ npos' = npos /\ lastPos' = lastPos /\ seen' = seen
  BY <1>1 DEF Game, Operating, scroll, Go, Size, At
<1>3. /\ at' \in [Thread -> Places] /\ Game' = "idle" /\ Operating' = Operating
      /\ (Operating = "idle" => crossed' = crossed)
      /\ (Operating # "idle" => crossed' = {"total", "rest"})
  <2>1. "idle" \in Places
    BY DEF Places, Steps
  <2>2. crossed \subseteq {"total", "rest"}
    BY <1>1, LinesTypes
  <2> QED
    BY ONLY <1>1, <1>2, <2>1, <2>2, GameGoes
<1>4. Typed'
  <2>1. /\ n' \in Nat /\ n' <= limit + 1 /\ total' \in Nat /\ total' <= limit + 1
        /\ visible' \in Heights /\ pos' \in Int /\ boxPos' \in Int /\ lastPos' \in BOOLEAN
        /\ linesHolder' \in BOOLEAN /\ needReceiveLines' \in BOOLEAN /\ undefined' \in BOOLEAN
        /\ npos' \in [Thread -> Int] /\ (seen' = seen \/ seen' = -1 \/ seen' = n \/ seen' = n')
    BY <1>1, <1>2, LinesTypes DEF Typed
  <2>2. /\ Game' \in Steps["game"] /\ Operating' \in Steps["console"]
        /\ crossed' \subseteq {"total", "rest"}
    BY <1>1, <1>2, <1>3, LinesTypes DEF Steps, Scrolling, Reads, Writes
  <2>3. regions' = regions \/ regions' \in RegionsOf(total', pos', visible')
    BY ONLY <1>2
  <2> QED
    BY ONLY <1>1, <1>3, <2>1, <2>2, <2>3, LinesTypesHold
<1>5. ASSUME Defined' PROVE Steady'
  <2>1. Apart'
    BY <1>1, <1>2, <1>3, LinesTypes, <1>5 DEF Apart, Writes, Reads, Defined
  <2>2. Alone'
    BY <1>1, <1>2, <1>3, LinesTypes, <1>5 DEF Alone, Scrolling, Defined
  <2>3. NoMore'
    BY <1>1, <1>2, <1>3, LinesTypes, <1>5 DEF NoMore, Defined
  <2>4. EmptyBox'
    BY <1>1, <1>2, <1>3, LinesTypes, <1>5 DEF EmptyBox, BeginsWithBar, Defined
  <2>5. Counted'
    BY <1>1, <1>2, <1>3, LinesTypes, <1>5 DEF Counted, Alone, Scrolling, Defined
  <2>6. Ranged'
    BY <1>1, <1>2, <1>3, LinesTypes, <1>5 DEF Ranged, Alone, InRange, Thumb, Scrolling, Defined
  <2>7. LinesFollow'
    BY <1>1, <1>2, <1>3, LinesTypes, <1>5 DEF LinesFollow, Alone, BoxAtEnd, BoxAtBar,
       BeginsWithBar,
       Scrolling, Defined
  <2>8. Unseen'
    BY <1>1, <1>2, <1>3, LinesTypes, <1>5 DEF Unseen, Alone, Painted, Scrolling, Defined
  <2> QED
    BY <2>1, <2>2, <2>3, <2>4, <2>5, <2>6, <2>7, <2>8 DEF Steady
<1> QED
  BY <1>4, <1>5 DEF LinesIInv

\* The oldest line is erased from the box.
LEMMA EraseEndKeeps ==
  ASSUME LinesIInv, Defined, EraseEnd, linesHolder
  PROVE  LinesIInv'
<1>1. /\ Typed /\ Apart /\ Alone /\ NoMore /\ EmptyBox /\ Counted /\ Ranged /\ LinesFollow
      /\ Unseen
  BY DEF LinesIInv, Steady
<1>2. /\ Game = "erasing" /\ linesHolder /\ GoFrom("game", "pop", crossed) /\ n' = n - 1
      /\ seen' = -1 /\ linesHolder' = linesHolder /\ needReceiveLines' = needReceiveLines
      /\ total' = total /\ pos' = pos /\ visible' = visible /\ regions' = regions
      /\ boxPos' = boxPos /\ npos' = npos /\ lastPos' = lastPos /\ undefined' = undefined
  BY <1>1 DEF Game, Operating, scroll, Go, EraseEnd, At
<1>3. /\ at' \in [Thread -> Places] /\ Game' = "pop" /\ Operating' = Operating
      /\ (Operating = "idle" => crossed' = crossed)
      /\ (Operating # "idle" => crossed' = {"total", "rest"})
  <2>1. "pop" \in Places
    BY DEF Places, Steps
  <2>2. crossed \subseteq {"total", "rest"}
    BY <1>1, LinesTypes
  <2> QED
    BY ONLY <1>1, <1>2, <2>1, <2>2, GameGoes
<1>4. Typed'
  <2>1. /\ n' \in Nat /\ n' <= limit + 1 /\ total' \in Nat /\ total' <= limit + 1
        /\ visible' \in Heights /\ pos' \in Int /\ boxPos' \in Int /\ lastPos' \in BOOLEAN
        /\ linesHolder' \in BOOLEAN /\ needReceiveLines' \in BOOLEAN /\ undefined' \in BOOLEAN
        /\ npos' \in [Thread -> Int] /\ (seen' = seen \/ seen' = -1 \/ seen' = n \/ seen' = n')
    BY <1>1, <1>2, LinesTypes DEF Typed, Apart
  <2>2. /\ Game' \in Steps["game"] /\ Operating' \in Steps["console"]
        /\ crossed' \subseteq {"total", "rest"}
    BY <1>1, <1>2, <1>3, LinesTypes DEF Steps, Scrolling, Reads, Writes
  <2>3. regions' = regions \/ regions' \in RegionsOf(total', pos', visible')
    BY ONLY <1>2
  <2> QED
    BY ONLY <1>1, <1>3, <2>1, <2>2, <2>3, LinesTypesHold
<1>5. ASSUME Defined' PROVE Steady'
  <2>1. Apart'
    BY <1>1, <1>2, <1>3, LinesTypes, <1>5 DEF Apart, Writes, Reads, Defined
  <2>2. Alone'
    BY <1>1, <1>2, <1>3, LinesTypes, <1>5 DEF Alone, Scrolling, Defined
  <2>3. NoMore'
    BY <1>1, <1>2, <1>3, LinesTypes, <1>5 DEF NoMore, Defined
  <2>4. EmptyBox'
    BY <1>1, <1>2, <1>3, LinesTypes, <1>5 DEF EmptyBox, Apart, BeginsWithBar, Writes, Reads,
       Defined
  <2>5. Counted'
    BY <1>1, <1>2, <1>3, LinesTypes, <1>5 DEF Counted, Alone, Scrolling, Defined
  <2>6. Ranged'
    BY <1>1, <1>2, <1>3, LinesTypes, <1>5 DEF Ranged, Alone, InRange, Thumb, Scrolling, Defined
  <2>7. LinesFollow'
    BY <1>1, <1>2, <1>3, LinesTypes, <1>5 DEF LinesFollow, Alone, BoxAtEnd, BoxAtBar,
       BeginsWithBar,
       Scrolling, Defined
  <2>8. Unseen'
    BY <1>1, <1>2, <1>3, LinesTypes, <1>5 DEF Unseen, Alone, Painted, Scrolling, Defined
  <2> QED
    BY <2>1, <2>2, <2>3, <2>4, <2>5, <2>6, <2>7, <2>8 DEF Steady
<1> QED
  BY <1>4, <1>5 DEF LinesIInv

\* The oldest line is erased from lines that the box does not show.
LEMMA EraseEndElseKeeps ==
  ASSUME LinesIInv, Defined, EraseEnd, ~linesHolder
  PROVE  LinesIInv'
<1>1. /\ Typed /\ Apart /\ Alone /\ NoMore /\ EmptyBox /\ Counted /\ Ranged /\ LinesFollow
      /\ Unseen
  BY DEF LinesIInv, Steady
<1>2. /\ Game = "erasing" /\ ~linesHolder /\ GoFrom("game", "idle", crossed) /\ n' = n - 1
      /\ seen' = -1 /\ linesHolder' = linesHolder /\ needReceiveLines' = needReceiveLines
      /\ total' = total /\ pos' = pos /\ visible' = visible /\ regions' = regions
      /\ boxPos' = boxPos /\ npos' = npos /\ lastPos' = lastPos /\ undefined' = undefined
  BY <1>1 DEF Game, Operating, scroll, Go, EraseEnd, At
<1>3. /\ at' \in [Thread -> Places] /\ Game' = "idle" /\ Operating' = Operating
      /\ (Operating = "idle" => crossed' = crossed)
      /\ (Operating # "idle" => crossed' = {"total", "rest"})
  <2>1. "idle" \in Places
    BY DEF Places, Steps
  <2>2. crossed \subseteq {"total", "rest"}
    BY <1>1, LinesTypes
  <2> QED
    BY ONLY <1>1, <1>2, <2>1, <2>2, GameGoes
<1>4. Typed'
  <2>1. /\ n' \in Nat /\ n' <= limit + 1 /\ total' \in Nat /\ total' <= limit + 1
        /\ visible' \in Heights /\ pos' \in Int /\ boxPos' \in Int /\ lastPos' \in BOOLEAN
        /\ linesHolder' \in BOOLEAN /\ needReceiveLines' \in BOOLEAN /\ undefined' \in BOOLEAN
        /\ npos' \in [Thread -> Int] /\ (seen' = seen \/ seen' = -1 \/ seen' = n \/ seen' = n')
    BY <1>1, <1>2, LinesTypes DEF Typed, Apart
  <2>2. /\ Game' \in Steps["game"] /\ Operating' \in Steps["console"]
        /\ crossed' \subseteq {"total", "rest"}
    BY <1>1, <1>2, <1>3, LinesTypes DEF Steps, Scrolling, Reads, Writes
  <2>3. regions' = regions \/ regions' \in RegionsOf(total', pos', visible')
    BY ONLY <1>2
  <2> QED
    BY ONLY <1>1, <1>3, <2>1, <2>2, <2>3, LinesTypesHold
<1>5. ASSUME Defined' PROVE Steady'
  <2>1. Apart'
    BY <1>1, <1>2, <1>3, LinesTypes, <1>5 DEF Apart, Writes, Reads, Defined
  <2>2. Alone'
    BY <1>1, <1>2, <1>3, LinesTypes, <1>5 DEF Alone, Scrolling, Defined
  <2>3. NoMore'
    BY <1>1, <1>2, <1>3, LinesTypes, <1>5 DEF NoMore, Defined
  <2>4. EmptyBox'
    BY <1>1, <1>2, <1>3, LinesTypes, <1>5 DEF EmptyBox, Apart, BeginsWithBar, Writes, Reads,
       Defined
  <2>5. Counted'
    BY <1>1, <1>2, <1>3, LinesTypes, <1>5 DEF Counted, Alone, Scrolling, Defined
  <2>6. Ranged'
    BY <1>1, <1>2, <1>3, LinesTypes, <1>5 DEF Ranged, Alone, InRange, Thumb, Scrolling, Defined
  <2>7. LinesFollow'
    BY <1>1, <1>2, <1>3, LinesTypes, <1>5 DEF LinesFollow, Alone, BoxAtEnd, BoxAtBar,
       BeginsWithBar,
       Scrolling, Defined
  <2>8. Unseen'
    BY <1>1, <1>2, <1>3, LinesTypes, <1>5 DEF Unseen, Alone, Painted, Scrolling, Defined
  <2> QED
    BY <2>1, <2>2, <2>3, <2>4, <2>5, <2>6, <2>7, <2>8 DEF Steady
<1> QED
  BY <1>4, <1>5 DEF LinesIInv

\* The bar is told of the erasing.
LEMMA PopKeeps ==
  ASSUME LinesIInv, Defined, Pop
  PROVE  LinesIInv'
<1>1. /\ Typed /\ Apart /\ Alone /\ NoMore /\ EmptyBox /\ Counted /\ Ranged /\ LinesFollow
      /\ Unseen
  BY DEF LinesIInv, Steady
<1>0. Smaller(pos, n - visible) = IF pos <= n - visible THEN pos ELSE n - visible
  BY <1>1, LinesTypes, SmallerLarger
<1>2. /\ Game = "pop" /\ GoFrom("game", "popped", crossed) /\ total' = n
      /\ pos' = (IF pos <= n - visible THEN pos ELSE n - visible)
      /\ undefined' \in BOOLEAN /\ (undefined' <=> ~linesHolder) /\ n' = n
      /\ linesHolder' = linesHolder /\ needReceiveLines' = needReceiveLines
      /\ visible' = visible /\ regions' = regions /\ boxPos' = boxPos /\ npos' = npos
      /\ lastPos' = lastPos /\ seen' = seen
  BY <1>1, <1>0 DEF Game, Operating, scroll, Go, Pop, At, ThroughBox
<1>3. /\ at' \in [Thread -> Places] /\ Game' = "popped" /\ Operating' = Operating
      /\ (Operating = "idle" => crossed' = crossed)
      /\ (Operating # "idle" => crossed' = {"total", "rest"})
  <2>1. "popped" \in Places
    BY DEF Places, Steps
  <2>2. crossed \subseteq {"total", "rest"}
    BY <1>1, LinesTypes
  <2> QED
    BY ONLY <1>1, <1>2, <2>1, <2>2, GameGoes
<1>4. Typed'
  <2>1. /\ n' \in Nat /\ n' <= limit + 1 /\ total' \in Nat /\ total' <= limit + 1
        /\ visible' \in Heights /\ pos' \in Int /\ boxPos' \in Int /\ lastPos' \in BOOLEAN
        /\ linesHolder' \in BOOLEAN /\ needReceiveLines' \in BOOLEAN /\ undefined' \in BOOLEAN
        /\ npos' \in [Thread -> Int] /\ (seen' = seen \/ seen' = -1 \/ seen' = n \/ seen' = n')
    BY <1>1, <1>2, <1>0, LinesTypes DEF Typed
  <2>2. /\ Game' \in Steps["game"] /\ Operating' \in Steps["console"]
        /\ crossed' \subseteq {"total", "rest"}
    BY <1>1, <1>2, <1>3, LinesTypes DEF Steps, Scrolling, Reads, Writes
  <2>3. regions' = regions \/ regions' \in RegionsOf(total', pos', visible')
    BY ONLY <1>2
  <2> QED
    BY ONLY <1>1, <1>3, <2>1, <2>2, <2>3, LinesTypesHold
<1>5. ASSUME Defined' PROVE Steady'
  <2>1. Apart'
    BY <1>1, <1>2, <1>3, <1>0, LinesTypes, <1>5 DEF Apart, Writes, Reads, Defined
  <2>2. Alone'
    BY <1>1, <1>2, <1>3, <1>0, LinesTypes, <1>5 DEF Alone, Scrolling, Defined
  <2>3. NoMore'
    BY <1>1, <1>2, <1>3, <1>0, LinesTypes, <1>5 DEF NoMore, Defined
  <2>4. EmptyBox'
    BY <1>1, <1>2, <1>3, <1>0, LinesTypes, <1>5 DEF EmptyBox, BeginsWithBar, Defined
  <2>5. Counted'
    BY <1>1, <1>2, <1>3, <1>0, LinesTypes, <1>5 DEF Counted, Alone, Scrolling, Defined
  <2>6. Ranged'
    BY <1>1, <1>2, <1>3, <1>0, LinesTypes, <1>5 DEF Ranged, Alone, Counted, InRange, Thumb,
       Scrolling, Defined
  <2>7. LinesFollow'
    BY <1>1, <1>2, <1>3, <1>0, LinesTypes, <1>5 DEF LinesFollow, Alone, BoxAtEnd, BoxAtBar,
       BeginsWithBar, Scrolling, Defined
  <2>8. Unseen'
    BY <1>1, <1>2, <1>3, <1>0, LinesTypes, <1>5 DEF Unseen, Alone, Painted, Scrolling, Defined
  <2> QED
    BY <2>1, <2>2, <2>3, <2>4, <2>5, <2>6, <2>7, <2>8 DEF Steady
<1> QED
  BY <1>4, <1>5 DEF LinesIInv

\* The thumb is put right after an erasing.
LEMMA PoppedKeeps ==
  ASSUME LinesIInv, Defined, Popped
  PROVE  LinesIInv'
<1>1. /\ Typed /\ Apart /\ Alone /\ NoMore /\ EmptyBox /\ Counted /\ Ranged /\ LinesFollow
      /\ Unseen
  BY DEF LinesIInv, Steady
<1>2. /\ Game = "popped" /\ GoFrom("game", "idle", crossed)
      /\ regions' \in RegionsOf(total, pos, visible) /\ seen' = n /\ n' = n
      /\ linesHolder' = linesHolder /\ needReceiveLines' = needReceiveLines /\ total' = total
      /\ pos' = pos /\ visible' = visible /\ boxPos' = boxPos /\ npos' = npos
      /\ lastPos' = lastPos /\ undefined' = undefined
  BY <1>1 DEF Game, Operating, scroll, Go, Popped, At
<1>3. /\ at' \in [Thread -> Places] /\ Game' = "idle" /\ Operating' = Operating
      /\ (Operating = "idle" => crossed' = crossed)
      /\ (Operating # "idle" => crossed' = {"total", "rest"})
  <2>1. "idle" \in Places
    BY DEF Places, Steps
  <2>2. crossed \subseteq {"total", "rest"}
    BY <1>1, LinesTypes
  <2> QED
    BY ONLY <1>1, <1>2, <2>1, <2>2, GameGoes
<1>4. Typed'
  <2>1. /\ n' \in Nat /\ n' <= limit + 1 /\ total' \in Nat /\ total' <= limit + 1
        /\ visible' \in Heights /\ pos' \in Int /\ boxPos' \in Int /\ lastPos' \in BOOLEAN
        /\ linesHolder' \in BOOLEAN /\ needReceiveLines' \in BOOLEAN /\ undefined' \in BOOLEAN
        /\ npos' \in [Thread -> Int] /\ (seen' = seen \/ seen' = -1 \/ seen' = n \/ seen' = n')
    BY <1>1, <1>2, LinesTypes DEF Typed
  <2>2. /\ Game' \in Steps["game"] /\ Operating' \in Steps["console"]
        /\ crossed' \subseteq {"total", "rest"}
    BY <1>1, <1>2, <1>3, LinesTypes DEF Steps, Scrolling, Reads, Writes
  <2>3. regions' = regions \/ regions' \in RegionsOf(total', pos', visible')
    BY ONLY <1>2
  <2> QED
    BY ONLY <1>1, <1>3, <2>1, <2>2, <2>3, LinesTypesHold
<1>5. ASSUME Defined' PROVE Steady'
  <2>1. Apart'
    BY <1>1, <1>2, <1>3, LinesTypes, <1>5 DEF Apart, Writes, Reads, Defined
  <2>2. Alone'
    BY <1>1, <1>2, <1>3, LinesTypes, <1>5 DEF Alone, Scrolling, Defined
  <2>3. NoMore'
    BY <1>1, <1>2, <1>3, LinesTypes, <1>5 DEF NoMore, Defined
  <2>4. EmptyBox'
    BY <1>1, <1>2, <1>3, LinesTypes, <1>5 DEF EmptyBox, BeginsWithBar, Defined
  <2>5. Counted'
    BY <1>1, <1>2, <1>3, LinesTypes, <1>5 DEF Counted, Alone, Scrolling, Defined
  <2>6. Ranged'
    BY <1>1, <1>2, <1>3, LinesTypes, <1>5 DEF Ranged, Alone, InRange, Thumb, Scrolling, Defined
  <2>7. LinesFollow'
    BY <1>1, <1>2, <1>3, LinesTypes, <1>5 DEF LinesFollow, Alone, BoxAtEnd, BoxAtBar,
       BeginsWithBar,
       Scrolling, Defined
  <2>8. Unseen'
    BY <1>1, <1>2, <1>3, LinesTypes, <1>5 DEF Unseen, Alone, Painted, Scrolling, Defined
  <2> QED
    BY <2>1, <2>2, <2>3, <2>4, <2>5, <2>6, <2>7, <2>8 DEF Steady
<1> QED
  BY <1>4, <1>5 DEF LinesIInv

\* The game thread sets the position of the bar.
LEMMA GameMoveKeeps ==
  ASSUME LinesIInv, Defined, ForceSetPos("game")
  PROVE  LinesIInv'
<1>1. /\ Typed /\ Apart /\ Alone /\ NoMore /\ EmptyBox /\ Counted /\ Ranged /\ LinesFollow
      /\ Unseen
  BY DEF LinesIInv, Steady
<1>2. /\ Game = "move" /\ GoFrom("game", "regions", crossed) /\ pos' = npos["game"]
      /\ npos' = [npos EXCEPT !["game"] = 0] /\ n' = n /\ linesHolder' = linesHolder
      /\ needReceiveLines' = needReceiveLines /\ total' = total /\ visible' = visible
      /\ regions' = regions /\ boxPos' = boxPos /\ lastPos' = lastPos /\ seen' = seen
      /\ undefined' = undefined
  BY <1>1 DEF Game, Operating, scroll, Go, ForceSetPos, At
<1>3. /\ at' \in [Thread -> Places] /\ Game' = "regions" /\ Operating' = Operating
      /\ (Operating = "idle" => crossed' = crossed)
      /\ (Operating # "idle" => crossed' = {"total", "rest"})
  <2>1. "regions" \in Places
    BY DEF Places, Steps, Scrolling
  <2>2. crossed \subseteq {"total", "rest"}
    BY <1>1, LinesTypes
  <2> QED
    BY ONLY <1>1, <1>2, <2>1, <2>2, GameGoes
<1>4. /\ npos' \in [Thread -> Int]
      /\ npos'["game"] = 0 /\ npos'["console"] = npos["console"]
  BY <1>1, <1>2, LinesTypes DEF Typed, Thread
<1>5. Typed'
  <2>1. /\ n' \in Nat /\ n' <= limit + 1 /\ total' \in Nat /\ total' <= limit + 1
        /\ visible' \in Heights /\ pos' \in Int /\ boxPos' \in Int /\ lastPos' \in BOOLEAN
        /\ linesHolder' \in BOOLEAN /\ needReceiveLines' \in BOOLEAN /\ undefined' \in BOOLEAN
        /\ npos' \in [Thread -> Int] /\ (seen' = seen \/ seen' = -1 \/ seen' = n \/ seen' = n')
    BY <1>1, <1>2, <1>4, LinesTypes DEF Typed
  <2>2. /\ Game' \in Steps["game"] /\ Operating' \in Steps["console"]
        /\ crossed' \subseteq {"total", "rest"}
    BY <1>1, <1>2, <1>3, LinesTypes DEF Steps, Scrolling, Reads, Writes
  <2>3. regions' = regions \/ regions' \in RegionsOf(total', pos', visible')
    BY ONLY <1>2
  <2> QED
    BY ONLY <1>1, <1>3, <2>1, <2>2, <2>3, LinesTypesHold
<1>6. ASSUME Defined' PROVE Steady'
  <2>1. Apart'
    BY <1>1, <1>2, <1>3, <1>4, LinesTypes, <1>6 DEF Apart, Writes, Reads, Defined
  <2>2. Alone'
    BY <1>1, <1>2, <1>3, <1>4, LinesTypes, <1>6 DEF Alone, Scrolling, Defined
  <2>3. NoMore'
    BY <1>1, <1>2, <1>3, <1>4, LinesTypes, <1>6 DEF NoMore, Defined
  <2>4. EmptyBox'
    BY <1>1, <1>2, <1>3, <1>4, LinesTypes, <1>6 DEF EmptyBox, BeginsWithBar, Defined
  <2>5. Counted'
    BY <1>1, <1>2, <1>3, <1>4, LinesTypes, <1>6 DEF Counted, Alone, Scrolling, Defined
  <2>6. Ranged'
    BY <1>1, <1>2, <1>3, <1>4, LinesTypes, <1>6 DEF Ranged, Alone, InRange, Thumb, Scrolling,
       Defined
  <2>7. LinesFollow'
    BY <1>1, <1>2, <1>3, <1>4, LinesTypes, <1>6 DEF LinesFollow, Alone, BoxAtEnd, BoxAtBar,
       BeginsWithBar, Scrolling, Defined
  <2>8. Unseen'
    BY <1>1, <1>2, <1>3, <1>4, LinesTypes, <1>6 DEF Unseen, Alone, Painted, Scrolling, Defined
  <2> QED
    BY <2>1, <2>2, <2>3, <2>4, <2>5, <2>6, <2>7, <2>8 DEF Steady
<1> QED
  BY <1>5, <1>6 DEF LinesIInv

\* The game thread sets the thumb.
LEMMA GameRegionsKeeps ==
  ASSUME LinesIInv, Defined, Regions("game")
  PROVE  LinesIInv'
<1>1. /\ Typed /\ Apart /\ Alone /\ NoMore /\ EmptyBox /\ Counted /\ Ranged /\ LinesFollow
      /\ Unseen
  BY DEF LinesIInv, Steady
<1>2. /\ Game = "regions" /\ GoFrom("game", "sync", crossed)
      /\ regions' \in RegionsOf(total, pos, visible) /\ n' = n /\ linesHolder' = linesHolder
      /\ needReceiveLines' = needReceiveLines /\ total' = total /\ pos' = pos
      /\ visible' = visible /\ boxPos' = boxPos /\ npos' = npos /\ lastPos' = lastPos
      /\ seen' = seen /\ undefined' = undefined
  BY <1>1 DEF Game, Operating, scroll, Go, Regions, At
<1>3. /\ at' \in [Thread -> Places] /\ Game' = "sync" /\ Operating' = Operating
      /\ (Operating = "idle" => crossed' = crossed)
      /\ (Operating # "idle" => crossed' = {"total", "rest"})
  <2>1. "sync" \in Places
    BY DEF Places, Steps, Scrolling
  <2>2. crossed \subseteq {"total", "rest"}
    BY <1>1, LinesTypes
  <2> QED
    BY ONLY <1>1, <1>2, <2>1, <2>2, GameGoes
<1>4. Typed'
  <2>1. /\ n' \in Nat /\ n' <= limit + 1 /\ total' \in Nat /\ total' <= limit + 1
        /\ visible' \in Heights /\ pos' \in Int /\ boxPos' \in Int /\ lastPos' \in BOOLEAN
        /\ linesHolder' \in BOOLEAN /\ needReceiveLines' \in BOOLEAN /\ undefined' \in BOOLEAN
        /\ npos' \in [Thread -> Int] /\ (seen' = seen \/ seen' = -1 \/ seen' = n \/ seen' = n')
    BY <1>1, <1>2, LinesTypes DEF Typed
  <2>2. /\ Game' \in Steps["game"] /\ Operating' \in Steps["console"]
        /\ crossed' \subseteq {"total", "rest"}
    BY <1>1, <1>2, <1>3, LinesTypes DEF Steps, Scrolling, Reads, Writes
  <2>3. regions' = regions \/ regions' \in RegionsOf(total', pos', visible')
    BY ONLY <1>2
  <2> QED
    BY ONLY <1>1, <1>3, <2>1, <2>2, <2>3, LinesTypesHold
<1>5. ASSUME Defined' PROVE Steady'
  <2>1. Apart'
    BY <1>1, <1>2, <1>3, LinesTypes, <1>5 DEF Apart, Writes, Reads, Defined
  <2>2. Alone'
    BY <1>1, <1>2, <1>3, LinesTypes, <1>5 DEF Alone, Scrolling, Defined
  <2>3. NoMore'
    BY <1>1, <1>2, <1>3, LinesTypes, <1>5 DEF NoMore, Defined
  <2>4. EmptyBox'
    BY <1>1, <1>2, <1>3, LinesTypes, <1>5 DEF EmptyBox, BeginsWithBar, Defined
  <2>5. Counted'
    BY <1>1, <1>2, <1>3, LinesTypes, <1>5 DEF Counted, Alone, Scrolling, Defined
  <2>6. Ranged'
    BY <1>1, <1>2, <1>3, LinesTypes, <1>5 DEF Ranged, Alone, InRange, Thumb, Scrolling, Defined
  <2>7. LinesFollow'
    BY <1>1, <1>2, <1>3, LinesTypes, <1>5 DEF LinesFollow, Alone, BoxAtEnd, BoxAtBar,
       BeginsWithBar,
       Scrolling, Defined
  <2>8. Unseen'
    BY <1>1, <1>2, <1>3, LinesTypes, <1>5 DEF Unseen, Alone, Painted, Scrolling, Defined
  <2> QED
    BY <2>1, <2>2, <2>3, <2>4, <2>5, <2>6, <2>7, <2>8 DEF Steady
<1> QED
  BY <1>4, <1>5 DEF LinesIInv

\* The game thread sets the box to where the bar is.
LEMMA GameSyncKeeps ==
  ASSUME LinesIInv, Defined, Sync("game")
  PROVE  LinesIInv'
<1>1. /\ Typed /\ Apart /\ Alone /\ NoMore /\ EmptyBox /\ Counted /\ Ranged /\ LinesFollow
      /\ Unseen
  BY DEF LinesIInv, Steady
<1>2. /\ Game = "sync" /\ GoFrom("game", "show", crossed) /\ boxPos' = pos /\ seen' = n
      /\ n' = n /\ linesHolder' = linesHolder /\ needReceiveLines' = needReceiveLines
      /\ total' = total /\ pos' = pos /\ visible' = visible /\ regions' = regions
      /\ npos' = npos /\ lastPos' = lastPos /\ undefined' = undefined
  BY <1>1 DEF Game, Operating, scroll, Go, Sync, At
<1>3. /\ at' \in [Thread -> Places] /\ Game' = "show" /\ Operating' = Operating
      /\ (Operating = "idle" => crossed' = crossed)
      /\ (Operating # "idle" => crossed' = {"total", "rest"})
  <2>1. "show" \in Places
    BY DEF Places, Steps
  <2>2. crossed \subseteq {"total", "rest"}
    BY <1>1, LinesTypes
  <2> QED
    BY ONLY <1>1, <1>2, <2>1, <2>2, GameGoes
<1>4. Typed'
  <2>1. /\ n' \in Nat /\ n' <= limit + 1 /\ total' \in Nat /\ total' <= limit + 1
        /\ visible' \in Heights /\ pos' \in Int /\ boxPos' \in Int /\ lastPos' \in BOOLEAN
        /\ linesHolder' \in BOOLEAN /\ needReceiveLines' \in BOOLEAN /\ undefined' \in BOOLEAN
        /\ npos' \in [Thread -> Int] /\ (seen' = seen \/ seen' = -1 \/ seen' = n \/ seen' = n')
    BY <1>1, <1>2, LinesTypes DEF Typed
  <2>2. /\ Game' \in Steps["game"] /\ Operating' \in Steps["console"]
        /\ crossed' \subseteq {"total", "rest"}
    BY <1>1, <1>2, <1>3, LinesTypes DEF Steps, Scrolling, Reads, Writes
  <2>3. regions' = regions \/ regions' \in RegionsOf(total', pos', visible')
    BY ONLY <1>2
  <2> QED
    BY ONLY <1>1, <1>3, <2>1, <2>2, <2>3, LinesTypesHold
<1>5. ASSUME Defined' PROVE Steady'
  <2>1. Apart'
    BY <1>1, <1>2, <1>3, LinesTypes, <1>5 DEF Apart, Writes, Reads, Defined
  <2>2. Alone'
    BY <1>1, <1>2, <1>3, LinesTypes, <1>5 DEF Alone, Scrolling, Defined
  <2>3. NoMore'
    BY <1>1, <1>2, <1>3, LinesTypes, <1>5 DEF NoMore, Defined
  <2>4. EmptyBox'
    BY <1>1, <1>2, <1>3, LinesTypes, <1>5 DEF EmptyBox, BeginsWithBar, Defined
  <2>5. Counted'
    BY <1>1, <1>2, <1>3, LinesTypes, <1>5 DEF Counted, Alone, Scrolling, Defined
  <2>6. Ranged'
    BY <1>1, <1>2, <1>3, LinesTypes, <1>5 DEF Ranged, Alone, InRange, Thumb, Scrolling, Defined
  <2>7. LinesFollow'
    BY <1>1, <1>2, <1>3, LinesTypes, <1>5 DEF LinesFollow, Alone, BoxAtEnd, BoxAtBar,
       BeginsWithBar,
       Scrolling, Defined
  <2>8. Unseen'
    BY <1>1, <1>2, <1>3, LinesTypes, <1>5 DEF Unseen, Alone, Painted, Scrolling, Defined
  <2> QED
    BY <2>1, <2>2, <2>3, <2>4, <2>5, <2>6, <2>7, <2>8 DEF Steady
<1> QED
  BY <1>4, <1>5 DEF LinesIInv

\* The operator sets the position of the bar.
LEMMA ConsoleMoveKeeps ==
  ASSUME LinesIInv, Defined, ForceSetPos("console")
  PROVE  LinesIInv'
<1>1. /\ Typed /\ Apart /\ Alone /\ NoMore /\ EmptyBox /\ Counted /\ Ranged /\ LinesFollow
      /\ Unseen
  BY DEF LinesIInv, Steady
<1>2. /\ Operating = "move" /\ GoFrom("console", "regions", crossed) /\ pos' = npos["console"]
      /\ npos' = [npos EXCEPT !["console"] = 0] /\ n' = n /\ linesHolder' = linesHolder
      /\ needReceiveLines' = needReceiveLines /\ total' = total /\ visible' = visible
      /\ regions' = regions /\ boxPos' = boxPos /\ lastPos' = lastPos /\ seen' = seen
      /\ undefined' = undefined
  BY <1>1 DEF Game, Operating, scroll, Go, ForceSetPos, At
<1>3. /\ at' \in [Thread -> Places] /\ Operating' = "regions" /\ Game' = Game
      /\ (Game = "idle" => crossed' = crossed)
      /\ (Game # "idle" => crossed' = {"total", "rest"})
  <2>1. "regions" \in Places
    BY DEF Places, Steps, Scrolling
  <2>2. crossed \subseteq {"total", "rest"}
    BY <1>1, LinesTypes
  <2> QED
    BY ONLY <1>1, <1>2, <2>1, <2>2, ConsoleGoes
<1>4. /\ npos' \in [Thread -> Int]
      /\ npos'["console"] = 0 /\ npos'["game"] = npos["game"]
  BY <1>1, <1>2, LinesTypes DEF Typed, Thread
<1>5. Typed'
  <2>1. /\ n' \in Nat /\ n' <= limit + 1 /\ total' \in Nat /\ total' <= limit + 1
        /\ visible' \in Heights /\ pos' \in Int /\ boxPos' \in Int /\ lastPos' \in BOOLEAN
        /\ linesHolder' \in BOOLEAN /\ needReceiveLines' \in BOOLEAN /\ undefined' \in BOOLEAN
        /\ npos' \in [Thread -> Int] /\ (seen' = seen \/ seen' = -1 \/ seen' = n \/ seen' = n')
    BY <1>1, <1>2, <1>4, LinesTypes DEF Typed
  <2>2. /\ Game' \in Steps["game"] /\ Operating' \in Steps["console"]
        /\ crossed' \subseteq {"total", "rest"}
    BY <1>1, <1>2, <1>3, LinesTypes DEF Steps, Scrolling, Reads, Writes
  <2>3. regions' = regions \/ regions' \in RegionsOf(total', pos', visible')
    BY ONLY <1>2
  <2> QED
    BY ONLY <1>1, <1>3, <2>1, <2>2, <2>3, LinesTypesHold
<1>6. ASSUME Defined' PROVE Steady'
  <2>1. Apart'
    BY <1>1, <1>2, <1>3, <1>4, LinesTypes, <1>6 DEF Apart, Writes, Reads, Defined
  <2>2. Alone'
    BY <1>1, <1>2, <1>3, <1>4, LinesTypes, <1>6 DEF Alone, Scrolling, Defined
  <2>3. NoMore'
    BY <1>1, <1>2, <1>3, <1>4, LinesTypes, <1>6 DEF NoMore, Defined
  <2>4. EmptyBox'
    BY <1>1, <1>2, <1>3, <1>4, LinesTypes, <1>6 DEF EmptyBox, BeginsWithBar, Defined
  <2>5. Counted'
    BY <1>1, <1>2, <1>3, <1>4, LinesTypes, <1>6 DEF Counted, Alone, Scrolling, Defined
  <2>6. Ranged'
    BY <1>1, <1>2, <1>3, <1>4, LinesTypes, <1>6 DEF Ranged, Alone, InRange, Thumb, Scrolling,
       Defined
  <2>7. LinesFollow'
    BY <1>1, <1>2, <1>3, <1>4, LinesTypes, <1>6 DEF LinesFollow, Alone, BoxAtEnd, BoxAtBar,
       BeginsWithBar, Scrolling, Defined
  <2>8. Unseen'
    BY <1>1, <1>2, <1>3, <1>4, LinesTypes, <1>6 DEF Unseen, Alone, Painted, Scrolling, Defined
  <2> QED
    BY <2>1, <2>2, <2>3, <2>4, <2>5, <2>6, <2>7, <2>8 DEF Steady
<1> QED
  BY <1>5, <1>6 DEF LinesIInv

\* The operator sets the thumb.
LEMMA ConsoleRegionsKeeps ==
  ASSUME LinesIInv, Defined, Regions("console")
  PROVE  LinesIInv'
<1>1. /\ Typed /\ Apart /\ Alone /\ NoMore /\ EmptyBox /\ Counted /\ Ranged /\ LinesFollow
      /\ Unseen
  BY DEF LinesIInv, Steady
<1>2. /\ Operating = "regions" /\ GoFrom("console", "sync", crossed)
      /\ regions' \in RegionsOf(total, pos, visible) /\ n' = n /\ linesHolder' = linesHolder
      /\ needReceiveLines' = needReceiveLines /\ total' = total /\ pos' = pos
      /\ visible' = visible /\ boxPos' = boxPos /\ npos' = npos /\ lastPos' = lastPos
      /\ seen' = seen /\ undefined' = undefined
  BY <1>1 DEF Game, Operating, scroll, Go, Regions, At
<1>3. /\ at' \in [Thread -> Places] /\ Operating' = "sync" /\ Game' = Game
      /\ (Game = "idle" => crossed' = crossed)
      /\ (Game # "idle" => crossed' = {"total", "rest"})
  <2>1. "sync" \in Places
    BY DEF Places, Steps, Scrolling
  <2>2. crossed \subseteq {"total", "rest"}
    BY <1>1, LinesTypes
  <2> QED
    BY ONLY <1>1, <1>2, <2>1, <2>2, ConsoleGoes
<1>4. Typed'
  <2>1. /\ n' \in Nat /\ n' <= limit + 1 /\ total' \in Nat /\ total' <= limit + 1
        /\ visible' \in Heights /\ pos' \in Int /\ boxPos' \in Int /\ lastPos' \in BOOLEAN
        /\ linesHolder' \in BOOLEAN /\ needReceiveLines' \in BOOLEAN /\ undefined' \in BOOLEAN
        /\ npos' \in [Thread -> Int] /\ (seen' = seen \/ seen' = -1 \/ seen' = n \/ seen' = n')
    BY <1>1, <1>2, LinesTypes DEF Typed
  <2>2. /\ Game' \in Steps["game"] /\ Operating' \in Steps["console"]
        /\ crossed' \subseteq {"total", "rest"}
    BY <1>1, <1>2, <1>3, LinesTypes DEF Steps, Scrolling, Reads, Writes
  <2>3. regions' = regions \/ regions' \in RegionsOf(total', pos', visible')
    BY ONLY <1>2
  <2> QED
    BY ONLY <1>1, <1>3, <2>1, <2>2, <2>3, LinesTypesHold
<1>5. ASSUME Defined' PROVE Steady'
  <2>1. Apart'
    BY <1>1, <1>2, <1>3, LinesTypes, <1>5 DEF Apart, Writes, Reads, Defined
  <2>2. Alone'
    BY <1>1, <1>2, <1>3, LinesTypes, <1>5 DEF Alone, Scrolling, Defined
  <2>3. NoMore'
    BY <1>1, <1>2, <1>3, LinesTypes, <1>5 DEF NoMore, Defined
  <2>4. EmptyBox'
    BY <1>1, <1>2, <1>3, LinesTypes, <1>5 DEF EmptyBox, BeginsWithBar, Defined
  <2>5. Counted'
    BY <1>1, <1>2, <1>3, LinesTypes, <1>5 DEF Counted, Alone, Scrolling, Defined
  <2>6. Ranged'
    BY <1>1, <1>2, <1>3, LinesTypes, <1>5 DEF Ranged, Alone, InRange, Thumb, Scrolling, Defined
  <2>7. LinesFollow'
    BY <1>1, <1>2, <1>3, LinesTypes, <1>5 DEF LinesFollow, Alone, BoxAtEnd, BoxAtBar,
       BeginsWithBar,
       Scrolling, Defined
  <2>8. Unseen'
    BY <1>1, <1>2, <1>3, LinesTypes, <1>5 DEF Unseen, Alone, Painted, Scrolling, Defined
  <2> QED
    BY <2>1, <2>2, <2>3, <2>4, <2>5, <2>6, <2>7, <2>8 DEF Steady
<1> QED
  BY <1>4, <1>5 DEF LinesIInv

\* The operator sets the box to where the bar is.
LEMMA ConsoleSyncKeeps ==
  ASSUME LinesIInv, Defined, Sync("console")
  PROVE  LinesIInv'
<1>1. /\ Typed /\ Apart /\ Alone /\ NoMore /\ EmptyBox /\ Counted /\ Ranged /\ LinesFollow
      /\ Unseen
  BY DEF LinesIInv, Steady
<1>2. /\ Operating = "sync" /\ GoFrom("console", "idle", crossed) /\ boxPos' = pos /\ seen' = n
      /\ n' = n /\ linesHolder' = linesHolder /\ needReceiveLines' = needReceiveLines
      /\ total' = total /\ pos' = pos /\ visible' = visible /\ regions' = regions
      /\ npos' = npos /\ lastPos' = lastPos /\ undefined' = undefined
  BY <1>1 DEF Game, Operating, scroll, Go, Sync, At
<1>3. /\ at' \in [Thread -> Places] /\ Operating' = "idle" /\ Game' = Game
      /\ (Game = "idle" => crossed' = crossed)
      /\ (Game # "idle" => crossed' = {"total", "rest"})
  <2>1. "idle" \in Places
    BY DEF Places, Steps
  <2>2. crossed \subseteq {"total", "rest"}
    BY <1>1, LinesTypes
  <2> QED
    BY ONLY <1>1, <1>2, <2>1, <2>2, ConsoleGoes
<1>4. Typed'
  <2>1. /\ n' \in Nat /\ n' <= limit + 1 /\ total' \in Nat /\ total' <= limit + 1
        /\ visible' \in Heights /\ pos' \in Int /\ boxPos' \in Int /\ lastPos' \in BOOLEAN
        /\ linesHolder' \in BOOLEAN /\ needReceiveLines' \in BOOLEAN /\ undefined' \in BOOLEAN
        /\ npos' \in [Thread -> Int] /\ (seen' = seen \/ seen' = -1 \/ seen' = n \/ seen' = n')
    BY <1>1, <1>2, LinesTypes DEF Typed
  <2>2. /\ Game' \in Steps["game"] /\ Operating' \in Steps["console"]
        /\ crossed' \subseteq {"total", "rest"}
    BY <1>1, <1>2, <1>3, LinesTypes DEF Steps, Scrolling, Reads, Writes
  <2>3. regions' = regions \/ regions' \in RegionsOf(total', pos', visible')
    BY ONLY <1>2
  <2> QED
    BY ONLY <1>1, <1>3, <2>1, <2>2, <2>3, LinesTypesHold
<1>5. ASSUME Defined' PROVE Steady'
  <2>1. Apart'
    BY <1>1, <1>2, <1>3, LinesTypes, <1>5 DEF Apart, Writes, Reads, Defined
  <2>2. Alone'
    BY <1>1, <1>2, <1>3, LinesTypes, <1>5 DEF Alone, Scrolling, Defined
  <2>3. NoMore'
    BY <1>1, <1>2, <1>3, LinesTypes, <1>5 DEF NoMore, Defined
  <2>4. EmptyBox'
    BY <1>1, <1>2, <1>3, LinesTypes, <1>5 DEF EmptyBox, BeginsWithBar, Defined
  <2>5. Counted'
    BY <1>1, <1>2, <1>3, LinesTypes, <1>5 DEF Counted, Alone, Scrolling, Defined
  <2>6. Ranged'
    BY <1>1, <1>2, <1>3, LinesTypes, <1>5 DEF Ranged, Alone, InRange, Thumb, Scrolling, Defined
  <2>7. LinesFollow'
    BY <1>1, <1>2, <1>3, LinesTypes, <1>5 DEF LinesFollow, Alone, BoxAtEnd, BoxAtBar,
       BeginsWithBar,
       Scrolling, Defined
  <2>8. Unseen'
    BY <1>1, <1>2, <1>3, LinesTypes, <1>5 DEF Unseen, Alone, Painted, Scrolling, Defined
  <2> QED
    BY <2>1, <2>2, <2>3, <2>4, <2>5, <2>6, <2>7, <2>8 DEF Steady
<1> QED
  BY <1>4, <1>5 DEF LinesIInv

\* The operator scrolls.
LEMMA ScrollsKeeps ==
  ASSUME LinesIInv, Defined, NEW p \in Int, Idle("console"), Operator,
         Go("console", "move"), npos' = [npos EXCEPT !["console"] = Clamped(p)],
         UNCHANGED <<n, linesHolder, needReceiveLines, scroll, boxPos, seen, undefined>>
  PROVE  LinesIInv'
<1>1. /\ Typed /\ Apart /\ Alone /\ NoMore /\ EmptyBox /\ Counted /\ Ranged /\ LinesFollow
      /\ Unseen
  BY DEF LinesIInv, Steady
<1>0. PICK q \in Int : q = Clamped(p) /\ InRange(q)
  BY <1>1, ClampedInRange
<1>2. /\ Operating = "idle" /\ GoFrom("console", "move", crossed) /\ lastPos' = FALSE
      /\ npos' = [npos EXCEPT !["console"] = q] /\ n' = n /\ linesHolder' = linesHolder
      /\ needReceiveLines' = needReceiveLines /\ total' = total /\ pos' = pos
      /\ visible' = visible /\ regions' = regions /\ boxPos' = boxPos /\ seen' = seen
      /\ undefined' = undefined
  BY <1>1, <1>0 DEF Game, Operating, scroll, Go, Idle, Operator
<1>3. /\ at' \in [Thread -> Places] /\ Operating' = "move" /\ Game' = Game
      /\ (Game = "idle" => crossed' = crossed)
      /\ (Game # "idle" => crossed' = {"total", "rest"})
  <2>1. "move" \in Places
    BY DEF Places, Steps, Scrolling
  <2>2. crossed \subseteq {"total", "rest"}
    BY <1>1, LinesTypes
  <2> QED
    BY ONLY <1>1, <1>2, <2>1, <2>2, ConsoleGoes
<1>4. /\ npos' \in [Thread -> Int]
      /\ npos'["console"] = q /\ npos'["game"] = npos["game"]
  BY <1>1, <1>2, <1>0, LinesTypes DEF Typed, Thread
<1>5. Typed'
  <2>1. /\ n' \in Nat /\ n' <= limit + 1 /\ total' \in Nat /\ total' <= limit + 1
        /\ visible' \in Heights /\ pos' \in Int /\ boxPos' \in Int /\ lastPos' \in BOOLEAN
        /\ linesHolder' \in BOOLEAN /\ needReceiveLines' \in BOOLEAN /\ undefined' \in BOOLEAN
        /\ npos' \in [Thread -> Int] /\ (seen' = seen \/ seen' = -1 \/ seen' = n \/ seen' = n')
    BY <1>1, <1>2, <1>4, <1>0, LinesTypes DEF Typed
  <2>2. /\ Game' \in Steps["game"] /\ Operating' \in Steps["console"]
        /\ crossed' \subseteq {"total", "rest"}
    BY <1>1, <1>2, <1>3, LinesTypes DEF Steps, Scrolling, Reads, Writes
  <2>3. regions' = regions \/ regions' \in RegionsOf(total', pos', visible')
    BY ONLY <1>2
  <2> QED
    BY ONLY <1>1, <1>3, <2>1, <2>2, <2>3, LinesTypesHold
<1>6. ASSUME Defined' PROVE Steady'
  <2>1. Apart'
    BY <1>1, <1>2, <1>3, <1>4, <1>0, LinesTypes, <1>6 DEF Apart, Writes, Reads, Defined
  <2>2. Alone'
    BY <1>1, <1>2, <1>3, <1>4, <1>0, LinesTypes, <1>6 DEF Alone, Scrolling, Defined
  <2>3. NoMore'
    BY <1>1, <1>2, <1>3, <1>4, <1>0, LinesTypes, <1>6 DEF NoMore, Defined
  <2>4. EmptyBox'
    BY <1>1, <1>2, <1>3, <1>4, <1>0, LinesTypes, <1>6 DEF EmptyBox, BeginsWithBar, Defined
  <2>5. Counted'
    BY <1>1, <1>2, <1>3, <1>4, <1>0, LinesTypes, <1>6 DEF Counted, Alone, Scrolling, Defined
  <2>6. Ranged'
    BY <1>1, <1>2, <1>3, <1>4, <1>0, LinesTypes, <1>6 DEF Ranged, Alone, InRange, Thumb,
       Scrolling, Defined
  <2>7. LinesFollow'
    BY <1>1, <1>2, <1>3, <1>4, <1>0, LinesTypes, <1>6 DEF LinesFollow, Alone, BoxAtEnd,
       BoxAtBar,
       BeginsWithBar, Scrolling, Defined
  <2>8. Unseen'
    BY <1>1, <1>2, <1>3, <1>4, <1>0, LinesTypes, <1>6 DEF Unseen, Alone, Painted, Scrolling,
       Defined
  <2> QED
    BY <2>1, <2>2, <2>3, <2>4, <2>5, <2>6, <2>7, <2>8 DEF Steady
<1> QED
  BY <1>5, <1>6 DEF LinesIInv

\* The bar is there already: after the wheel the box is set all the same.
LEMMA ScrollEndsKeeps ==
  ASSUME LinesIInv, Defined, NEW step \in {"sync", "idle"}, Idle("console"), Operator,
         Go("console", step),
         UNCHANGED <<n, linesHolder, needReceiveLines, scroll, boxPos, npos, seen, undefined>>
  PROVE  LinesIInv'
<1>1. /\ Typed /\ Apart /\ Alone /\ NoMore /\ EmptyBox /\ Counted /\ Ranged /\ LinesFollow
      /\ Unseen
  BY DEF LinesIInv, Steady
<1>2. /\ Operating = "idle" /\ GoFrom("console", step, crossed) /\ lastPos' = FALSE /\ n' = n
      /\ linesHolder' = linesHolder /\ needReceiveLines' = needReceiveLines /\ total' = total
      /\ pos' = pos /\ visible' = visible /\ regions' = regions /\ boxPos' = boxPos
      /\ npos' = npos /\ seen' = seen /\ undefined' = undefined
  BY <1>1 DEF Game, Operating, scroll, Go, Idle, Operator
<1>3. /\ at' \in [Thread -> Places] /\ Operating' = step /\ Game' = Game
      /\ (Game = "idle" => crossed' = crossed)
      /\ (Game # "idle" => crossed' = {"total", "rest"})
  <2>1. step \in Places
    BY DEF Places, Steps, Scrolling
  <2>2. crossed \subseteq {"total", "rest"}
    BY <1>1, LinesTypes
  <2> QED
    BY ONLY <1>1, <1>2, <2>1, <2>2, ConsoleGoes
<1>4. Typed'
  <2>1. /\ n' \in Nat /\ n' <= limit + 1 /\ total' \in Nat /\ total' <= limit + 1
        /\ visible' \in Heights /\ pos' \in Int /\ boxPos' \in Int /\ lastPos' \in BOOLEAN
        /\ linesHolder' \in BOOLEAN /\ needReceiveLines' \in BOOLEAN /\ undefined' \in BOOLEAN
        /\ npos' \in [Thread -> Int] /\ (seen' = seen \/ seen' = -1 \/ seen' = n \/ seen' = n')
    BY <1>1, <1>2, LinesTypes DEF Typed
  <2>2. /\ Game' \in Steps["game"] /\ Operating' \in Steps["console"]
        /\ crossed' \subseteq {"total", "rest"}
    BY <1>1, <1>2, <1>3, LinesTypes DEF Steps, Scrolling, Reads, Writes
  <2>3. regions' = regions \/ regions' \in RegionsOf(total', pos', visible')
    BY ONLY <1>2
  <2> QED
    BY ONLY <1>1, <1>3, <2>1, <2>2, <2>3, LinesTypesHold
<1>5. ASSUME Defined' PROVE Steady'
  <2>1. Apart'
    BY <1>1, <1>2, <1>3, LinesTypes, <1>5 DEF Apart, Writes, Reads, Defined
  <2>2. Alone'
    BY <1>1, <1>2, <1>3, LinesTypes, <1>5 DEF Alone, Scrolling, Defined
  <2>3. NoMore'
    BY <1>1, <1>2, <1>3, LinesTypes, <1>5 DEF NoMore, Defined
  <2>4. EmptyBox'
    BY <1>1, <1>2, <1>3, LinesTypes, <1>5 DEF EmptyBox, BeginsWithBar, Defined
  <2>5. Counted'
    BY <1>1, <1>2, <1>3, LinesTypes, <1>5 DEF Counted, Alone, Scrolling, Defined
  <2>6. Ranged'
    BY <1>1, <1>2, <1>3, LinesTypes, <1>5 DEF Ranged, Alone, InRange, Thumb, Scrolling, Defined
  <2>7. LinesFollow'
    BY <1>1, <1>2, <1>3, LinesTypes, <1>5 DEF LinesFollow, Alone, BoxAtEnd, BoxAtBar,
       BeginsWithBar,
       Scrolling, Defined
  <2>8. Unseen'
    BY <1>1, <1>2, <1>3, LinesTypes, <1>5 DEF Unseen, Alone, Painted, Scrolling, Defined
  <2> QED
    BY <2>1, <2>2, <2>3, <2>4, <2>5, <2>6, <2>7, <2>8 DEF Steady
<1> QED
  BY <1>4, <1>5 DEF LinesIInv

\* The box shows another section.
LEMMA SetupLinesHolderKeeps ==
  ASSUME LinesIInv, Defined, NEW on \in BOOLEAN, SetupLinesHolder(on)
  PROVE  LinesIInv'
<1>1. /\ Typed /\ Apart /\ Alone /\ NoMore /\ EmptyBox /\ Counted /\ Ranged /\ LinesFollow
      /\ Unseen
  BY DEF LinesIInv, Steady
<1>0. limit \in Nat /\ 0 <= limit + 1 /\ 1 <= limit + 1
  BY LinesAssumption
<1>2. /\ Operating = "idle" /\ GoFrom("console", "move", {}) /\ lastPos' = FALSE
      /\ linesHolder' = on /\ boxPos' = 0 /\ total' = (IF on THEN n ELSE 1)
      /\ npos' = [npos EXCEPT !["console"] = 0] /\ seen' = -1 /\ n' = n
      /\ needReceiveLines' = needReceiveLines /\ pos' = pos /\ visible' = visible
      /\ regions' = regions /\ undefined' = undefined
  BY <1>1, <1>0 DEF Game, Operating, scroll, Go, SetupLinesHolder, Idle, Operator
<1>3. /\ at' \in [Thread -> Places] /\ Operating' = "move" /\ Game' = Game
      /\ (Game = "idle" => crossed' = {}) /\ (Game # "idle" => crossed' = {"total", "rest"})
  <2>1. "move" \in Places
    BY DEF Places, Steps, Scrolling
  <2>2. {} \subseteq {"total", "rest"}
    BY <1>1, LinesTypes
  <2> QED
    BY ONLY <1>1, <1>2, <2>1, <2>2, ConsoleGoes
<1>4. /\ npos' \in [Thread -> Int]
      /\ npos'["console"] = 0 /\ npos'["game"] = npos["game"]
  BY <1>1, <1>2, <1>0, LinesTypes DEF Typed, Thread
<1>5. Typed'
  <2>1. /\ n' \in Nat /\ n' <= limit + 1 /\ total' \in Nat /\ total' <= limit + 1
        /\ visible' \in Heights /\ pos' \in Int /\ boxPos' \in Int /\ lastPos' \in BOOLEAN
        /\ linesHolder' \in BOOLEAN /\ needReceiveLines' \in BOOLEAN /\ undefined' \in BOOLEAN
        /\ npos' \in [Thread -> Int] /\ (seen' = seen \/ seen' = -1 \/ seen' = n \/ seen' = n')
    BY <1>1, <1>2, <1>4, <1>0, LinesTypes DEF Typed
  <2>2. /\ Game' \in Steps["game"] /\ Operating' \in Steps["console"]
        /\ crossed' \subseteq {"total", "rest"}
    BY <1>1, <1>2, <1>3, LinesTypes DEF Steps, Scrolling, Reads, Writes
  <2>3. regions' = regions \/ regions' \in RegionsOf(total', pos', visible')
    BY ONLY <1>2
  <2> QED
    BY ONLY <1>1, <1>3, <2>1, <2>2, <2>3, LinesTypesHold
<1>6. ASSUME Defined' PROVE Steady'
  <2>1. Apart'
    BY <1>1, <1>2, <1>3, <1>4, <1>0, LinesTypes, <1>6 DEF Apart, Writes, Reads, Defined
  <2>2. Alone'
    BY <1>1, <1>2, <1>3, <1>4, <1>0, LinesTypes, <1>6 DEF Alone, Scrolling, Defined
  <2>3. NoMore'
    BY <1>1, <1>2, <1>3, <1>4, <1>0, LinesTypes, <1>6 DEF NoMore, Defined
  <2>4. EmptyBox'
    BY <1>1, <1>2, <1>3, <1>4, <1>0, LinesTypes, <1>6 DEF EmptyBox, BeginsWithBar, Defined
  <2>5. Counted'
    BY <1>1, <1>2, <1>3, <1>4, <1>0, LinesTypes, <1>6 DEF Counted, Alone, Scrolling, Defined
  <2>6. Ranged'
    BY <1>1, <1>2, <1>3, <1>4, <1>0, LinesTypes, <1>6 DEF Ranged, Alone, InRange, Thumb,
       Scrolling, Defined
  <2>7. LinesFollow'
    BY <1>1, <1>2, <1>3, <1>4, <1>0, LinesTypes, <1>6 DEF LinesFollow, Alone, BoxAtEnd,
       BoxAtBar,
       BeginsWithBar, Scrolling, Defined
  <2>8. Unseen'
    BY <1>1, <1>2, <1>3, <1>4, <1>0, LinesTypes, <1>6 DEF Unseen, Alone, Painted, Scrolling,
       Defined
  <2> QED
    BY <2>1, <2>2, <2>3, <2>4, <2>5, <2>6, <2>7, <2>8 DEF Steady
<1> QED
  BY <1>5, <1>6 DEF LinesIInv

\* The lines are copied.
LEMMA KeyCKeeps ==
  ASSUME LinesIInv, Defined, KeyC
  PROVE  LinesIInv'
<1>1. /\ Typed /\ Apart /\ Alone /\ NoMore /\ EmptyBox /\ Counted /\ Ranged /\ LinesFollow
      /\ Unseen
  BY DEF LinesIInv, Steady
<1>2. /\ Operating = "idle" /\ linesHolder /\ GoFrom("console", "copying", {})
      /\ lastPos' = FALSE /\ undefined' \in BOOLEAN /\ (undefined' <=> Game \in Writes)
      /\ n' = n /\ linesHolder' = linesHolder /\ needReceiveLines' = needReceiveLines
      /\ total' = total /\ pos' = pos /\ visible' = visible /\ regions' = regions
      /\ boxPos' = boxPos /\ npos' = npos /\ seen' = seen
  BY <1>1 DEF Game, Operating, scroll, Go, KeyC, Idle, EnterFrom, Other, Reads, Writes, Operator
<1>3. /\ at' \in [Thread -> Places] /\ Operating' = "copying" /\ Game' = Game
      /\ (Game = "idle" => crossed' = {}) /\ (Game # "idle" => crossed' = {"total", "rest"})
  <2>1. "copying" \in Places
    BY DEF Places, Steps, Reads
  <2>2. {} \subseteq {"total", "rest"}
    BY <1>1, LinesTypes
  <2> QED
    BY ONLY <1>1, <1>2, <2>1, <2>2, ConsoleGoes
<1>4. Typed'
  <2>1. /\ n' \in Nat /\ n' <= limit + 1 /\ total' \in Nat /\ total' <= limit + 1
        /\ visible' \in Heights /\ pos' \in Int /\ boxPos' \in Int /\ lastPos' \in BOOLEAN
        /\ linesHolder' \in BOOLEAN /\ needReceiveLines' \in BOOLEAN /\ undefined' \in BOOLEAN
        /\ npos' \in [Thread -> Int] /\ (seen' = seen \/ seen' = -1 \/ seen' = n \/ seen' = n')
    BY <1>1, <1>2, LinesTypes DEF Typed
  <2>2. /\ Game' \in Steps["game"] /\ Operating' \in Steps["console"]
        /\ crossed' \subseteq {"total", "rest"}
    BY <1>1, <1>2, <1>3, LinesTypes DEF Steps, Scrolling, Reads, Writes
  <2>3. regions' = regions \/ regions' \in RegionsOf(total', pos', visible')
    BY ONLY <1>2
  <2> QED
    BY ONLY <1>1, <1>3, <2>1, <2>2, <2>3, LinesTypesHold
<1>5. ASSUME Defined' PROVE Steady'
  <2>1. Apart'
    BY <1>1, <1>2, <1>3, LinesTypes, <1>5 DEF Apart, Writes, Reads, Defined
  <2>2. Alone'
    BY <1>1, <1>2, <1>3, LinesTypes, <1>5 DEF Alone, Scrolling, Defined
  <2>3. NoMore'
    BY <1>1, <1>2, <1>3, LinesTypes, <1>5 DEF NoMore, Defined
  <2>4. EmptyBox'
    BY <1>1, <1>2, <1>3, LinesTypes, <1>5 DEF EmptyBox, BeginsWithBar, Defined
  <2>5. Counted'
    BY <1>1, <1>2, <1>3, LinesTypes, <1>5 DEF Counted, Alone, Scrolling, Defined
  <2>6. Ranged'
    BY <1>1, <1>2, <1>3, LinesTypes, <1>5 DEF Ranged, Alone, InRange, Thumb, Scrolling, Defined
  <2>7. LinesFollow'
    BY <1>1, <1>2, <1>3, LinesTypes, <1>5 DEF LinesFollow, Alone, BoxAtEnd, BoxAtBar,
       BeginsWithBar,
       Scrolling, Defined
  <2>8. Unseen'
    BY <1>1, <1>2, <1>3, LinesTypes, <1>5 DEF Unseen, Alone, Painted, Scrolling, Defined
  <2> QED
    BY <2>1, <2>2, <2>3, <2>4, <2>5, <2>6, <2>7, <2>8 DEF Steady
<1> QED
  BY <1>4, <1>5 DEF LinesIInv

\* The clearing begins.
LEMMA ClearBeginKeeps ==
  ASSUME LinesIInv, Defined, ClearBegin
  PROVE  LinesIInv'
<1>1. /\ Typed /\ Apart /\ Alone /\ NoMore /\ EmptyBox /\ Counted /\ Ranged /\ LinesFollow
      /\ Unseen
  BY DEF LinesIInv, Steady
<1>2. /\ Operating = "copying" /\ GoFrom("console", "clearing", crossed) /\ lastPos' = FALSE
      /\ undefined' \in BOOLEAN /\ (undefined' <=> Game \in Reads \cup Writes) /\ n' = n
      /\ linesHolder' = linesHolder /\ needReceiveLines' = needReceiveLines /\ total' = total
      /\ pos' = pos /\ visible' = visible /\ regions' = regions /\ boxPos' = boxPos
      /\ npos' = npos /\ seen' = seen
  BY <1>1 DEF Game, Operating, scroll, Go, ClearBegin, At, Enter, EnterFrom, Other, Reads,
     Writes, Operator
<1>3. /\ at' \in [Thread -> Places] /\ Operating' = "clearing" /\ Game' = Game
      /\ (Game = "idle" => crossed' = crossed)
      /\ (Game # "idle" => crossed' = {"total", "rest"})
  <2>1. "clearing" \in Places
    BY DEF Places, Steps
  <2>2. crossed \subseteq {"total", "rest"}
    BY <1>1, LinesTypes
  <2> QED
    BY ONLY <1>1, <1>2, <2>1, <2>2, ConsoleGoes
<1>4. Typed'
  <2>1. /\ n' \in Nat /\ n' <= limit + 1 /\ total' \in Nat /\ total' <= limit + 1
        /\ visible' \in Heights /\ pos' \in Int /\ boxPos' \in Int /\ lastPos' \in BOOLEAN
        /\ linesHolder' \in BOOLEAN /\ needReceiveLines' \in BOOLEAN /\ undefined' \in BOOLEAN
        /\ npos' \in [Thread -> Int] /\ (seen' = seen \/ seen' = -1 \/ seen' = n \/ seen' = n')
    BY <1>1, <1>2, LinesTypes DEF Typed
  <2>2. /\ Game' \in Steps["game"] /\ Operating' \in Steps["console"]
        /\ crossed' \subseteq {"total", "rest"}
    BY <1>1, <1>2, <1>3, LinesTypes DEF Steps, Scrolling, Reads, Writes
  <2>3. regions' = regions \/ regions' \in RegionsOf(total', pos', visible')
    BY ONLY <1>2
  <2> QED
    BY ONLY <1>1, <1>3, <2>1, <2>2, <2>3, LinesTypesHold
<1>5. ASSUME Defined' PROVE Steady'
  <2>1. Apart'
    BY <1>1, <1>2, <1>3, LinesTypes, <1>5 DEF Apart, Writes, Reads, Defined
  <2>2. Alone'
    BY <1>1, <1>2, <1>3, LinesTypes, <1>5 DEF Alone, Scrolling, Defined
  <2>3. NoMore'
    BY <1>1, <1>2, <1>3, LinesTypes, <1>5 DEF NoMore, Defined
  <2>4. EmptyBox'
    BY <1>1, <1>2, <1>3, LinesTypes, <1>5 DEF EmptyBox, BeginsWithBar, Defined
  <2>5. Counted'
    BY <1>1, <1>2, <1>3, LinesTypes, <1>5 DEF Counted, Alone, Scrolling, Defined
  <2>6. Ranged'
    BY <1>1, <1>2, <1>3, LinesTypes, <1>5 DEF Ranged, Alone, InRange, Thumb, Scrolling, Defined
  <2>7. LinesFollow'
    BY <1>1, <1>2, <1>3, LinesTypes, <1>5 DEF LinesFollow, Alone, BoxAtEnd, BoxAtBar,
       BeginsWithBar,
       Scrolling, Defined
  <2>8. Unseen'
    BY <1>1, <1>2, <1>3, LinesTypes, <1>5 DEF Unseen, Alone, Painted, Scrolling, Defined
  <2> QED
    BY <2>1, <2>2, <2>3, <2>4, <2>5, <2>6, <2>7, <2>8 DEF Steady
<1> QED
  BY <1>4, <1>5 DEF LinesIInv

\* The lines are cleared.
LEMMA ClearEndKeeps ==
  ASSUME LinesIInv, Defined, ClearEnd
  PROVE  LinesIInv'
<1>1. /\ Typed /\ Apart /\ Alone /\ NoMore /\ EmptyBox /\ Counted /\ Ranged /\ LinesFollow
      /\ Unseen
  BY DEF LinesIInv, Steady
<1>0. limit \in Nat /\ 0 <= limit + 1 /\ 1 <= limit + 1
  BY LinesAssumption
<1>2. /\ Operating = "clearing" /\ GoFrom("console", "cleared", crossed) /\ lastPos' = FALSE
      /\ n' = 0 /\ seen' = -1 /\ linesHolder' = linesHolder
      /\ needReceiveLines' = needReceiveLines /\ total' = total /\ pos' = pos
      /\ visible' = visible /\ regions' = regions /\ boxPos' = boxPos /\ npos' = npos
      /\ undefined' = undefined
  BY <1>1, <1>0 DEF Game, Operating, scroll, Go, ClearEnd, At, Operator
<1>3. /\ at' \in [Thread -> Places] /\ Operating' = "cleared" /\ Game' = Game
      /\ (Game = "idle" => crossed' = crossed)
      /\ (Game # "idle" => crossed' = {"total", "rest"})
  <2>1. "cleared" \in Places
    BY DEF Places, Steps
  <2>2. crossed \subseteq {"total", "rest"}
    BY <1>1, LinesTypes
  <2> QED
    BY ONLY <1>1, <1>2, <2>1, <2>2, ConsoleGoes
<1>4. Typed'
  <2>1. /\ n' \in Nat /\ n' <= limit + 1 /\ total' \in Nat /\ total' <= limit + 1
        /\ visible' \in Heights /\ pos' \in Int /\ boxPos' \in Int /\ lastPos' \in BOOLEAN
        /\ linesHolder' \in BOOLEAN /\ needReceiveLines' \in BOOLEAN /\ undefined' \in BOOLEAN
        /\ npos' \in [Thread -> Int] /\ (seen' = seen \/ seen' = -1 \/ seen' = n \/ seen' = n')
    BY <1>1, <1>2, <1>0, LinesTypes DEF Typed
  <2>2. /\ Game' \in Steps["game"] /\ Operating' \in Steps["console"]
        /\ crossed' \subseteq {"total", "rest"}
    BY <1>1, <1>2, <1>3, LinesTypes DEF Steps, Scrolling, Reads, Writes
  <2>3. regions' = regions \/ regions' \in RegionsOf(total', pos', visible')
    BY ONLY <1>2
  <2> QED
    BY ONLY <1>1, <1>3, <2>1, <2>2, <2>3, LinesTypesHold
<1>5. ASSUME Defined' PROVE Steady'
  <2>1. Apart'
    BY <1>1, <1>2, <1>3, <1>0, LinesTypes, <1>5 DEF Apart, Writes, Reads, Defined
  <2>2. Alone'
    BY <1>1, <1>2, <1>3, <1>0, LinesTypes, <1>5 DEF Alone, Scrolling, Defined
  <2>3. NoMore'
    BY <1>1, <1>2, <1>3, <1>0, LinesTypes, <1>5 DEF NoMore, Defined
  <2>4. EmptyBox'
    BY <1>1, <1>2, <1>3, <1>0, LinesTypes, <1>5 DEF EmptyBox, BeginsWithBar, Defined
  <2>5. Counted'
    BY <1>1, <1>2, <1>3, <1>0, LinesTypes, <1>5 DEF Counted, Alone, Scrolling, Defined
  <2>6. Ranged'
    BY <1>1, <1>2, <1>3, <1>0, LinesTypes, <1>5 DEF Ranged, Alone, InRange, Thumb, Scrolling,
       Defined
  <2>7. LinesFollow'
    BY <1>1, <1>2, <1>3, <1>0, LinesTypes, <1>5 DEF LinesFollow, Alone, BoxAtEnd, BoxAtBar,
       BeginsWithBar, Scrolling, Defined
  <2>8. Unseen'
    BY <1>1, <1>2, <1>3, <1>0, LinesTypes, <1>5 DEF Unseen, Alone, Painted, Scrolling, Defined
  <2> QED
    BY <2>1, <2>2, <2>3, <2>4, <2>5, <2>6, <2>7, <2>8 DEF Steady
<1> QED
  BY <1>4, <1>5 DEF LinesIInv

\* The bar is told of the clearing.
LEMMA ClearedKeeps ==
  ASSUME LinesIInv, Defined, Cleared
  PROVE  LinesIInv'
<1>1. /\ Typed /\ Apart /\ Alone /\ NoMore /\ EmptyBox /\ Counted /\ Ranged /\ LinesFollow
      /\ Unseen
  BY DEF LinesIInv, Steady
<1>0. limit \in Nat /\ 0 <= limit + 1 /\ 1 <= limit + 1
  BY LinesAssumption
<1>2. /\ Operating = "cleared" /\ GoFrom("console", "move", crossed) /\ lastPos' = FALSE
      /\ total' = 1 /\ npos' = [npos EXCEPT !["console"] = 0] /\ n' = n
      /\ linesHolder' = linesHolder /\ needReceiveLines' = needReceiveLines /\ pos' = pos
      /\ visible' = visible /\ regions' = regions /\ boxPos' = boxPos /\ seen' = seen
      /\ undefined' = undefined
  BY <1>1, <1>0 DEF Game, Operating, scroll, Go, Cleared, At, Operator
<1>3. /\ at' \in [Thread -> Places] /\ Operating' = "move" /\ Game' = Game
      /\ (Game = "idle" => crossed' = crossed)
      /\ (Game # "idle" => crossed' = {"total", "rest"})
  <2>1. "move" \in Places
    BY DEF Places, Steps, Scrolling
  <2>2. crossed \subseteq {"total", "rest"}
    BY <1>1, LinesTypes
  <2> QED
    BY ONLY <1>1, <1>2, <2>1, <2>2, ConsoleGoes
<1>4. /\ npos' \in [Thread -> Int]
      /\ npos'["console"] = 0 /\ npos'["game"] = npos["game"]
  BY <1>1, <1>2, <1>0, LinesTypes DEF Typed, Thread
<1>5. Typed'
  <2>1. /\ n' \in Nat /\ n' <= limit + 1 /\ total' \in Nat /\ total' <= limit + 1
        /\ visible' \in Heights /\ pos' \in Int /\ boxPos' \in Int /\ lastPos' \in BOOLEAN
        /\ linesHolder' \in BOOLEAN /\ needReceiveLines' \in BOOLEAN /\ undefined' \in BOOLEAN
        /\ npos' \in [Thread -> Int] /\ (seen' = seen \/ seen' = -1 \/ seen' = n \/ seen' = n')
    BY <1>1, <1>2, <1>4, <1>0, LinesTypes DEF Typed
  <2>2. /\ Game' \in Steps["game"] /\ Operating' \in Steps["console"]
        /\ crossed' \subseteq {"total", "rest"}
    BY <1>1, <1>2, <1>3, LinesTypes DEF Steps, Scrolling, Reads, Writes
  <2>3. regions' = regions \/ regions' \in RegionsOf(total', pos', visible')
    BY ONLY <1>2
  <2> QED
    BY ONLY <1>1, <1>3, <2>1, <2>2, <2>3, LinesTypesHold
<1>6. ASSUME Defined' PROVE Steady'
  <2>1. Apart'
    BY <1>1, <1>2, <1>3, <1>4, <1>0, LinesTypes, <1>6 DEF Apart, Writes, Reads, Defined
  <2>2. Alone'
    BY <1>1, <1>2, <1>3, <1>4, <1>0, LinesTypes, <1>6 DEF Alone, Scrolling, Defined
  <2>3. NoMore'
    BY <1>1, <1>2, <1>3, <1>4, <1>0, LinesTypes, <1>6 DEF NoMore, Defined
  <2>4. EmptyBox'
    BY <1>1, <1>2, <1>3, <1>4, <1>0, LinesTypes, <1>6 DEF EmptyBox, BeginsWithBar, Defined
  <2>5. Counted'
    BY <1>1, <1>2, <1>3, <1>4, <1>0, LinesTypes, <1>6 DEF Counted, Alone, Scrolling, Defined
  <2>6. Ranged'
    BY <1>1, <1>2, <1>3, <1>4, <1>0, LinesTypes, <1>6 DEF Ranged, Alone, InRange, Thumb,
       Scrolling, Defined
  <2>7. LinesFollow'
    BY <1>1, <1>2, <1>3, <1>4, <1>0, LinesTypes, <1>6 DEF LinesFollow, Alone, BoxAtEnd,
       BoxAtBar,
       BeginsWithBar, Scrolling, Defined
  <2>8. Unseen'
    BY <1>1, <1>2, <1>3, <1>4, <1>0, LinesTypes, <1>6 DEF Unseen, Alone, Painted, Scrolling,
       Defined
  <2> QED
    BY <2>1, <2>2, <2>3, <2>4, <2>5, <2>6, <2>7, <2>8 DEF Steady
<1> QED
  BY <1>5, <1>6 DEF LinesIInv

\* The box has another height.
LEMMA ResizeKeeps ==
  ASSUME LinesIInv, Defined, NEW h \in Heights, Resize(h)
  PROVE  LinesIInv'
<1>1. /\ Typed /\ Apart /\ Alone /\ NoMore /\ EmptyBox /\ Counted /\ Ranged /\ LinesFollow
      /\ Unseen
  BY DEF LinesIInv, Steady
<1>0. PICK m \in Int : /\ m = Larger(0, Smaller(pos, total - h))
                      /\ m >= 0 /\ (m = 0 \/ m <= total - h)
  <2>1. h \in Nat /\ pos \in Int /\ total - h \in Int
    BY <1>1, LinesAssumption, LinesTypes
  <2>2. PICK k \in Int : k = Smaller(pos, total - h) /\ k <= total - h
    BY <2>1, SmallerLarger
  <2> QED
    BY <2>2, SmallerLarger
<1>2. /\ Operating = "idle" /\ GoFrom("console", "resized", crossed) /\ lastPos' = FALSE
      /\ visible' = h /\ pos' = m /\ n' = n /\ linesHolder' = linesHolder
      /\ needReceiveLines' = needReceiveLines /\ total' = total /\ regions' = regions
      /\ boxPos' = boxPos /\ npos' = npos /\ seen' = seen /\ undefined' = undefined
  BY <1>1, <1>0 DEF Game, Operating, scroll, Go, Resize, Idle, Operator
<1>3. /\ at' \in [Thread -> Places] /\ Operating' = "resized" /\ Game' = Game
      /\ (Game = "idle" => crossed' = crossed)
      /\ (Game # "idle" => crossed' = {"total", "rest"})
  <2>1. "resized" \in Places
    BY DEF Places, Steps
  <2>2. crossed \subseteq {"total", "rest"}
    BY <1>1, LinesTypes
  <2> QED
    BY ONLY <1>1, <1>2, <2>1, <2>2, ConsoleGoes
<1>4. Typed'
  <2>1. /\ n' \in Nat /\ n' <= limit + 1 /\ total' \in Nat /\ total' <= limit + 1
        /\ visible' \in Heights /\ pos' \in Int /\ boxPos' \in Int /\ lastPos' \in BOOLEAN
        /\ linesHolder' \in BOOLEAN /\ needReceiveLines' \in BOOLEAN /\ undefined' \in BOOLEAN
        /\ npos' \in [Thread -> Int] /\ (seen' = seen \/ seen' = -1 \/ seen' = n \/ seen' = n')
    BY <1>1, <1>2, <1>0, LinesTypes DEF Typed
  <2>2. /\ Game' \in Steps["game"] /\ Operating' \in Steps["console"]
        /\ crossed' \subseteq {"total", "rest"}
    BY <1>1, <1>2, <1>3, LinesTypes DEF Steps, Scrolling, Reads, Writes
  <2>3. regions' = regions \/ regions' \in RegionsOf(total', pos', visible')
    BY ONLY <1>2
  <2> QED
    BY ONLY <1>1, <1>3, <2>1, <2>2, <2>3, LinesTypesHold
<1>5. ASSUME Defined' PROVE Steady'
  <2>1. Apart'
    BY <1>1, <1>2, <1>3, <1>0, LinesTypes, <1>5 DEF Apart, Writes, Reads, Defined
  <2>2. Alone'
    BY <1>1, <1>2, <1>3, <1>0, LinesTypes, <1>5 DEF Alone, Scrolling, Defined
  <2>3. NoMore'
    BY <1>1, <1>2, <1>3, <1>0, LinesTypes, <1>5 DEF NoMore, Defined
  <2>4. EmptyBox'
    BY <1>1, <1>2, <1>3, <1>0, LinesTypes, <1>5 DEF EmptyBox, BeginsWithBar, Defined
  <2>5. Counted'
    BY <1>1, <1>2, <1>3, <1>0, LinesTypes, <1>5 DEF Counted, Alone, Scrolling, Defined
  <2>6. Ranged'
    BY <1>1, <1>2, <1>3, <1>0, LinesTypes, <1>5 DEF Ranged, Alone, InRange, Thumb, Scrolling,
       Defined
  <2>7. LinesFollow'
    BY <1>1, <1>2, <1>3, <1>0, LinesTypes, <1>5 DEF LinesFollow, Alone, BoxAtEnd, BoxAtBar,
       BeginsWithBar, Scrolling, Defined
  <2>8. Unseen'
    BY <1>1, <1>2, <1>3, <1>0, LinesTypes, <1>5 DEF Unseen, Alone, Painted, Scrolling, Defined
  <2> QED
    BY <2>1, <2>2, <2>3, <2>4, <2>5, <2>6, <2>7, <2>8 DEF Steady
<1> QED
  BY <1>4, <1>5 DEF LinesIInv

\* The thumb is put right after a change of the height.
LEMMA ResizedKeeps ==
  ASSUME LinesIInv, Defined, Resized
  PROVE  LinesIInv'
<1>1. /\ Typed /\ Apart /\ Alone /\ NoMore /\ EmptyBox /\ Counted /\ Ranged /\ LinesFollow
      /\ Unseen
  BY DEF LinesIInv, Steady
<1>2. /\ Operating = "resized" /\ GoFrom("console", "idle", crossed)
      /\ regions' \in RegionsOf(total, pos, visible) /\ seen' = n /\ n' = n
      /\ linesHolder' = linesHolder /\ needReceiveLines' = needReceiveLines /\ total' = total
      /\ pos' = pos /\ visible' = visible /\ boxPos' = boxPos /\ npos' = npos
      /\ lastPos' = lastPos /\ undefined' = undefined
  BY <1>1 DEF Game, Operating, scroll, Go, Resized, At
<1>3. /\ at' \in [Thread -> Places] /\ Operating' = "idle" /\ Game' = Game
      /\ (Game = "idle" => crossed' = crossed)
      /\ (Game # "idle" => crossed' = {"total", "rest"})
  <2>1. "idle" \in Places
    BY DEF Places, Steps
  <2>2. crossed \subseteq {"total", "rest"}
    BY <1>1, LinesTypes
  <2> QED
    BY ONLY <1>1, <1>2, <2>1, <2>2, ConsoleGoes
<1>4. Typed'
  <2>1. /\ n' \in Nat /\ n' <= limit + 1 /\ total' \in Nat /\ total' <= limit + 1
        /\ visible' \in Heights /\ pos' \in Int /\ boxPos' \in Int /\ lastPos' \in BOOLEAN
        /\ linesHolder' \in BOOLEAN /\ needReceiveLines' \in BOOLEAN /\ undefined' \in BOOLEAN
        /\ npos' \in [Thread -> Int] /\ (seen' = seen \/ seen' = -1 \/ seen' = n \/ seen' = n')
    BY <1>1, <1>2, LinesTypes DEF Typed
  <2>2. /\ Game' \in Steps["game"] /\ Operating' \in Steps["console"]
        /\ crossed' \subseteq {"total", "rest"}
    BY <1>1, <1>2, <1>3, LinesTypes DEF Steps, Scrolling, Reads, Writes
  <2>3. regions' = regions \/ regions' \in RegionsOf(total', pos', visible')
    BY ONLY <1>2
  <2> QED
    BY ONLY <1>1, <1>3, <2>1, <2>2, <2>3, LinesTypesHold
<1>5. ASSUME Defined' PROVE Steady'
  <2>1. Apart'
    BY <1>1, <1>2, <1>3, LinesTypes, <1>5 DEF Apart, Writes, Reads, Defined
  <2>2. Alone'
    BY <1>1, <1>2, <1>3, LinesTypes, <1>5 DEF Alone, Scrolling, Defined
  <2>3. NoMore'
    BY <1>1, <1>2, <1>3, LinesTypes, <1>5 DEF NoMore, Defined
  <2>4. EmptyBox'
    BY <1>1, <1>2, <1>3, LinesTypes, <1>5 DEF EmptyBox, BeginsWithBar, Defined
  <2>5. Counted'
    BY <1>1, <1>2, <1>3, LinesTypes, <1>5 DEF Counted, Alone, Scrolling, Defined
  <2>6. Ranged'
    BY <1>1, <1>2, <1>3, LinesTypes, <1>5 DEF Ranged, Alone, InRange, Thumb, Scrolling, Defined
  <2>7. LinesFollow'
    BY <1>1, <1>2, <1>3, LinesTypes, <1>5 DEF LinesFollow, Alone, BoxAtEnd, BoxAtBar,
       BeginsWithBar,
       Scrolling, Defined
  <2>8. Unseen'
    BY <1>1, <1>2, <1>3, LinesTypes, <1>5 DEF Unseen, Alone, Painted, Scrolling, Defined
  <2> QED
    BY <2>1, <2>2, <2>3, <2>4, <2>5, <2>6, <2>7, <2>8 DEF Steady
<1> QED
  BY <1>4, <1>5 DEF LinesIInv

\* The box is drawn.
LEMMA DrawBeginKeeps ==
  ASSUME LinesIInv, Defined, DrawBegin
  PROVE  LinesIInv'
<1>1. /\ Typed /\ Apart /\ Alone /\ NoMore /\ EmptyBox /\ Counted /\ Ranged /\ LinesFollow
      /\ Unseen
  BY DEF LinesIInv, Steady
<1>2. /\ Operating = "idle" /\ linesHolder /\ GoFrom("console", "drawing", crossed)
      /\ undefined' \in BOOLEAN /\ (undefined' <=> Game \in Writes) /\ n' = n
      /\ linesHolder' = linesHolder /\ needReceiveLines' = needReceiveLines /\ total' = total
      /\ pos' = pos /\ visible' = visible /\ regions' = regions /\ boxPos' = boxPos
      /\ npos' = npos /\ lastPos' = lastPos /\ seen' = seen
  BY <1>1 DEF Game, Operating, scroll, Go, DrawBegin, Idle, Enter, EnterFrom, Other, Reads,
     Writes
<1>3. /\ at' \in [Thread -> Places] /\ Operating' = "drawing" /\ Game' = Game
      /\ (Game = "idle" => crossed' = crossed)
      /\ (Game # "idle" => crossed' = {"total", "rest"})
  <2>1. "drawing" \in Places
    BY DEF Places, Steps, Reads
  <2>2. crossed \subseteq {"total", "rest"}
    BY <1>1, LinesTypes
  <2> QED
    BY ONLY <1>1, <1>2, <2>1, <2>2, ConsoleGoes
<1>4. Typed'
  <2>1. /\ n' \in Nat /\ n' <= limit + 1 /\ total' \in Nat /\ total' <= limit + 1
        /\ visible' \in Heights /\ pos' \in Int /\ boxPos' \in Int /\ lastPos' \in BOOLEAN
        /\ linesHolder' \in BOOLEAN /\ needReceiveLines' \in BOOLEAN /\ undefined' \in BOOLEAN
        /\ npos' \in [Thread -> Int] /\ (seen' = seen \/ seen' = -1 \/ seen' = n \/ seen' = n')
    BY <1>1, <1>2, LinesTypes DEF Typed
  <2>2. /\ Game' \in Steps["game"] /\ Operating' \in Steps["console"]
        /\ crossed' \subseteq {"total", "rest"}
    BY <1>1, <1>2, <1>3, LinesTypes DEF Steps, Scrolling, Reads, Writes
  <2>3. regions' = regions \/ regions' \in RegionsOf(total', pos', visible')
    BY ONLY <1>2
  <2> QED
    BY ONLY <1>1, <1>3, <2>1, <2>2, <2>3, LinesTypesHold
<1>5. ASSUME Defined' PROVE Steady'
  <2>1. Apart'
    BY <1>1, <1>2, <1>3, LinesTypes, <1>5 DEF Apart, Writes, Reads, Defined
  <2>2. Alone'
    BY <1>1, <1>2, <1>3, LinesTypes, <1>5 DEF Alone, Scrolling, Defined
  <2>3. NoMore'
    BY <1>1, <1>2, <1>3, LinesTypes, <1>5 DEF NoMore, Defined
  <2>4. EmptyBox'
    BY <1>1, <1>2, <1>3, LinesTypes, <1>5 DEF EmptyBox, BeginsWithBar, Defined
  <2>5. Counted'
    BY <1>1, <1>2, <1>3, LinesTypes, <1>5 DEF Counted, Alone, Scrolling, Defined
  <2>6. Ranged'
    BY <1>1, <1>2, <1>3, LinesTypes, <1>5 DEF Ranged, Alone, InRange, Thumb, Scrolling, Defined
  <2>7. LinesFollow'
    BY <1>1, <1>2, <1>3, LinesTypes, <1>5 DEF LinesFollow, Alone, BoxAtEnd, BoxAtBar,
       BeginsWithBar,
       Scrolling, Defined
  <2>8. Unseen'
    BY <1>1, <1>2, <1>3, LinesTypes, <1>5 DEF Unseen, Alone, Painted, Scrolling, Defined
  <2> QED
    BY <2>1, <2>2, <2>3, <2>4, <2>5, <2>6, <2>7, <2>8 DEF Steady
<1> QED
  BY <1>4, <1>5 DEF LinesIInv

\* The box is drawn to the end.
LEMMA DrawEndKeeps ==
  ASSUME LinesIInv, Defined, DrawEnd
  PROVE  LinesIInv'
<1>1. /\ Typed /\ Apart /\ Alone /\ NoMore /\ EmptyBox /\ Counted /\ Ranged /\ LinesFollow
      /\ Unseen
  BY DEF LinesIInv, Steady
<1>2. /\ Operating = "drawing" /\ GoFrom("console", "idle", crossed) /\ n' = n
      /\ linesHolder' = linesHolder /\ needReceiveLines' = needReceiveLines /\ total' = total
      /\ pos' = pos /\ visible' = visible /\ regions' = regions /\ boxPos' = boxPos
      /\ npos' = npos /\ lastPos' = lastPos /\ seen' = seen /\ undefined' = undefined
  BY <1>1 DEF Game, Operating, scroll, Go, DrawEnd, At
<1>3. /\ at' \in [Thread -> Places] /\ Operating' = "idle" /\ Game' = Game
      /\ (Game = "idle" => crossed' = crossed)
      /\ (Game # "idle" => crossed' = {"total", "rest"})
  <2>1. "idle" \in Places
    BY DEF Places, Steps
  <2>2. crossed \subseteq {"total", "rest"}
    BY <1>1, LinesTypes
  <2> QED
    BY ONLY <1>1, <1>2, <2>1, <2>2, ConsoleGoes
<1>4. Typed'
  <2>1. /\ n' \in Nat /\ n' <= limit + 1 /\ total' \in Nat /\ total' <= limit + 1
        /\ visible' \in Heights /\ pos' \in Int /\ boxPos' \in Int /\ lastPos' \in BOOLEAN
        /\ linesHolder' \in BOOLEAN /\ needReceiveLines' \in BOOLEAN /\ undefined' \in BOOLEAN
        /\ npos' \in [Thread -> Int] /\ (seen' = seen \/ seen' = -1 \/ seen' = n \/ seen' = n')
    BY <1>1, <1>2, LinesTypes DEF Typed
  <2>2. /\ Game' \in Steps["game"] /\ Operating' \in Steps["console"]
        /\ crossed' \subseteq {"total", "rest"}
    BY <1>1, <1>2, <1>3, LinesTypes DEF Steps, Scrolling, Reads, Writes
  <2>3. regions' = regions \/ regions' \in RegionsOf(total', pos', visible')
    BY ONLY <1>2
  <2> QED
    BY ONLY <1>1, <1>3, <2>1, <2>2, <2>3, LinesTypesHold
<1>5. ASSUME Defined' PROVE Steady'
  <2>1. Apart'
    BY <1>1, <1>2, <1>3, LinesTypes, <1>5 DEF Apart, Writes, Reads, Defined
  <2>2. Alone'
    BY <1>1, <1>2, <1>3, LinesTypes, <1>5 DEF Alone, Scrolling, Defined
  <2>3. NoMore'
    BY <1>1, <1>2, <1>3, LinesTypes, <1>5 DEF NoMore, Defined
  <2>4. EmptyBox'
    BY <1>1, <1>2, <1>3, LinesTypes, <1>5 DEF EmptyBox, BeginsWithBar, Defined
  <2>5. Counted'
    BY <1>1, <1>2, <1>3, LinesTypes, <1>5 DEF Counted, Alone, Scrolling, Defined
  <2>6. Ranged'
    BY <1>1, <1>2, <1>3, LinesTypes, <1>5 DEF Ranged, Alone, InRange, Thumb, Scrolling, Defined
  <2>7. LinesFollow'
    BY <1>1, <1>2, <1>3, LinesTypes, <1>5 DEF LinesFollow, Alone, BoxAtEnd, BoxAtBar,
       BeginsWithBar,
       Scrolling, Defined
  <2>8. Unseen'
    BY <1>1, <1>2, <1>3, LinesTypes, <1>5 DEF Unseen, Alone, Painted, Scrolling, Defined
  <2> QED
    BY <2>1, <2>2, <2>3, <2>4, <2>5, <2>6, <2>7, <2>8 DEF Steady
<1> QED
  BY <1>4, <1>5 DEF LinesIInv

\* The switch of the pushes, or nothing, changes.
LEMMA LinesSameKeeps ==
  ASSUME LinesIInv, needReceiveLines' \in BOOLEAN,
         UNCHANGED <<n, linesHolder, scroll, boxPos, at, npos, lastPos, seen, crossed,
                     undefined>>
  PROVE  LinesIInv'
<1>1. /\ n' = n /\ linesHolder' = linesHolder /\ total' = total /\ pos' = pos
      /\ visible' = visible /\ regions' = regions /\ boxPos' = boxPos /\ at' = at
      /\ npos' = npos /\ lastPos' = lastPos /\ seen' = seen /\ crossed' = crossed
      /\ undefined' = undefined
  BY DEF scroll
<1>2. Typed'
  BY <1>1 DEF LinesIInv, Typed, LinesTypeOK
<1>3. ASSUME Defined' PROVE Steady'
  <2>1. Steady /\ Game' = Game /\ Operating' = Operating
    BY <1>1, <1>3 DEF LinesIInv, Defined, Game, Operating
  <2>2. (Apart /\ Alone)' /\ (NoMore /\ EmptyBox)'
    BY <1>1, <2>1 DEF Steady, Apart, Alone, NoMore, EmptyBox, BeginsWithBar
  <2>3. Counted'
    BY <1>1, <2>1 DEF Steady, Counted
  <2>4. Ranged'
    BY <1>1, <2>1 DEF Steady, Ranged, InRange, Thumb
  <2>5. LinesFollow'
    BY <1>1, <2>1 DEF Steady, LinesFollow, BoxAtEnd, BoxAtBar, BeginsWithBar
  <2>6. Unseen'
    BY <1>1, <2>1 DEF Steady, Unseen, Painted
  <2> QED
    BY <2>2, <2>3, <2>4, <2>5, <2>6 DEF Steady
<1> QED
  BY <1>2, <1>3 DEF LinesIInv

\* The wheel is turned.
LEMMA WheelKeeps ==
  ASSUME LinesIInv, NEW d \in {-1, 1}, Wheel(d)
  PROVE  LinesIInv'
<1>1. /\ Idle("console") /\ Operator
      /\ UNCHANGED <<n, linesHolder, needReceiveLines, scroll, boxPos, seen, undefined>>
  BY DEF Wheel
<1>2. \/ ChangePos("console", pos + d, "sync")
      \/ Go("console", "sync") /\ npos' = npos
  BY DEF Wheel
<1>3. \/ Go("console", "sync") /\ npos' = npos
      \/ Go("console", "move") /\ npos' = [npos EXCEPT !["console"] = Clamped(pos + d)]
  BY <1>2 DEF ChangePos
<1>4. Defined /\ pos + d \in Int
  BY <1>1, LinesTypes DEF Idle, LinesIInv
<1>5. CASE Go("console", "sync") /\ npos' = npos
  BY <1>1, <1>4, <1>5, ScrollEndsKeeps
<1>6. CASE Go("console", "move") /\ npos' = [npos EXCEPT !["console"] = Clamped(pos + d)]
  <2>1. PICK p \in Int : p = pos + d
    BY <1>4
  <2> QED
    BY <1>1, <1>4, <1>6, <2>1, ScrollsKeeps
<1> QED
  BY <1>3, <1>5, <1>6

\* The bar is clicked.
LEMMA ClickBarKeeps ==
  ASSUME LinesIInv, NEW p \in Int, ClickBar(p)
  PROVE  LinesIInv'
<1>1. /\ Idle("console") /\ Operator /\ Defined
      /\ UNCHANGED <<n, linesHolder, needReceiveLines, scroll, boxPos, seen, undefined>>
  BY DEF ClickBar, Idle
<1>2. \/ Go("console", "idle") /\ npos' = npos
      \/ Go("console", "move") /\ npos' = [npos EXCEPT !["console"] = Clamped(p)]
  BY DEF ClickBar, ChangePos
<1>3. CASE Go("console", "idle") /\ npos' = npos
  BY <1>1, <1>3, ScrollEndsKeeps
<1>4. CASE Go("console", "move") /\ npos' = [npos EXCEPT !["console"] = Clamped(p)]
  BY <1>1, <1>4, ScrollsKeeps
<1> QED
  BY <1>2, <1>3, <1>4

\* A step of a thread that scrolls.
LEMMA ScrollingKeeps ==
  ASSUME LinesIInv, NEW t \in Thread, ForceSetPos(t) \/ Regions(t) \/ Sync(t)
  PROVE  LinesIInv'
<1>1. Defined
  BY DEF ForceSetPos, Regions, Sync, At
<1>2. t = "game" \/ t = "console"
  BY DEF Thread
<1>3. CASE t = "game"
  BY <1>1, <1>3, GameMoveKeeps, GameRegionsKeeps, GameSyncKeeps
<1>4. CASE t = "console"
  BY <1>1, <1>4, ConsoleMoveKeeps, ConsoleRegionsKeeps, ConsoleSyncKeeps
<1> QED
  BY <1>2, <1>3, <1>4

\* A step of the game thread, or of the thread of the console, or none at all.
LEMMA LinesGameKeeps ==
  ASSUME LinesIInv,
         \/ PushBegin \/ PushEnd \/ Pushed \/ SetTotal \/ Follow \/ Show \/ Size \/ EraseEnd
         \/ Pop \/ Popped
  PROVE  LinesIInv'
<1>1. CASE PushBegin
  <2>1. Defined
    BY <1>1 DEF PushBegin, Idle
  <2> QED
    BY <1>1, <2>1, PushBeginKeeps
<1>2. CASE PushEnd
  <2>1. Defined
    BY <1>2 DEF PushEnd, At
  <2> QED
    BY <1>2, <2>1, PushEndKeeps, PushEndElseKeeps
<1>3. CASE Pushed
  <2>1. Defined
    BY <1>3 DEF Pushed, At
  <2> QED
    BY <1>3, <2>1, PushedKeeps
<1>4. CASE SetTotal
  <2>1. Defined
    BY <1>4 DEF SetTotal, ThroughBox, At
  <2> QED
    BY <1>4, <2>1, SetTotalKeeps
<1>5. CASE Follow
  <2>1. Defined
    BY <1>5 DEF Follow, At
  <2> QED
    BY <1>5, <2>1, FollowStaysKeeps, FollowMovesKeeps, FollowNotKeeps
<1>6. CASE Show
  <2>1. Defined
    BY <1>6 DEF Show, ThroughBox, At
  <2> QED
    BY <1>6, <2>1, ShowKeeps
<1>7. CASE Size
  <2>1. Defined
    BY <1>7 DEF Size, At
  <2> QED
    BY <1>7, <2>1, SizeBeginKeeps, SizeKeeps
<1>8. CASE EraseEnd
  <2>1. Defined
    BY <1>8 DEF EraseEnd, At
  <2> QED
    BY <1>8, <2>1, EraseEndKeeps, EraseEndElseKeeps
<1>9. CASE Pop
  <2>1. Defined
    BY <1>9 DEF Pop, ThroughBox, At
  <2> QED
    BY <1>9, <2>1, PopKeeps
<1>10. CASE Popped
  <2>1. Defined
    BY <1>10 DEF Popped, At
  <2> QED
    BY <1>10, <2>1, PoppedKeeps
<1> QED
  BY <1>1, <1>2, <1>3, <1>4, <1>5, <1>6, <1>7, <1>8, <1>9, <1>10

\* A step of the console's thread that does not scroll.
LEMMA LinesConsoleKeeps ==
  ASSUME LinesIInv,
         \/ \E on \in BOOLEAN : SetupLinesHolder(on)
         \/ KeyC \/ ClearBegin \/ ClearEnd \/ Cleared
         \/ \E h \in Heights : Resize(h)
         \/ Resized \/ DrawBegin \/ DrawEnd
  PROVE  LinesIInv'
<1>1. Defined
  BY DEF SetupLinesHolder, KeyC, ClearBegin, ClearEnd, Cleared, Resize, Resized, DrawBegin,
         DrawEnd, Idle, At
<1> QED
  BY <1>1, SetupLinesHolderKeeps, KeyCKeeps, ClearBeginKeeps, ClearEndKeeps, ClearedKeeps,
     ResizeKeeps,
     ResizedKeeps, DrawBeginKeeps, DrawEndKeeps

\* Every step keeps the invariant.
LEMMA LinesStepKeeps ==
  ASSUME LinesIInv, [LinesNext]_linesVars
  PROVE  LinesIInv'
<1>1. CASE \/ PushBegin \/ PushEnd \/ Pushed \/ SetTotal \/ Follow \/ Show \/ Size \/ EraseEnd
           \/ Pop \/ Popped
  BY <1>1, LinesGameKeeps
<1>2. CASE \/ \E on \in BOOLEAN : SetupLinesHolder(on)
           \/ KeyC \/ ClearBegin \/ ClearEnd \/ Cleared
           \/ \E h \in Heights : Resize(h)
           \/ Resized \/ DrawBegin \/ DrawEnd
  BY <1>2, LinesConsoleKeeps
<1>3. CASE \E t \in Thread : ForceSetPos(t) \/ Regions(t) \/ Sync(t)
  BY <1>3, ScrollingKeeps
<1>4. CASE \/ \E d \in {-1, 1} : Wheel(d)
           \/ \E p \in 0 .. limit : ClickBar(p)
  <2>1. limit \in Nat
    BY LinesAssumption
  <2>2. \A p \in 0 .. limit : p \in Int
    BY <2>1
  <2> QED
    BY <1>4, <2>2, WheelKeeps, ClickBarKeeps
<1>5. needReceiveLines \in BOOLEAN
  BY DEF LinesIInv, Typed, LinesTypeOK
<1>6. CASE KeyS
  <2>1. /\ needReceiveLines' \in BOOLEAN
        /\ UNCHANGED <<n, linesHolder, scroll, boxPos, at, npos, lastPos, seen, crossed,
                       undefined>>
    BY <1>5, <1>6 DEF KeyS
  <2> QED
    BY <2>1, LinesSameKeeps
<1>7. CASE UNCHANGED linesVars
  <2>1. /\ needReceiveLines' \in BOOLEAN
        /\ UNCHANGED <<n, linesHolder, scroll, boxPos, at, npos, lastPos, seen, crossed,
                       undefined>>
    BY <1>5, <1>7 DEF linesVars
  <2> QED
    BY <2>1, LinesSameKeeps
<1>8. CASE Undefined
  BY <1>7, <1>8 DEF Undefined
<1> QED
  BY <1>1, <1>2, <1>3, <1>4, <1>6, <1>7, <1>8 DEF LinesNext

\* It holds at the beginning: an empty section that is not shown.
LEMMA LinesInitHolds ==
  ASSUME LinesInit
  PROVE  LinesIInv
<1>1. /\ n = 0 /\ linesHolder = FALSE /\ needReceiveLines = FALSE /\ total = 1 /\ pos = 0
      /\ visible \in Heights /\ boxPos = 0 /\ lastPos = FALSE /\ seen = 0 /\ crossed = {}
      /\ undefined = FALSE /\ regions \in RegionsOf(total, pos, visible)
      /\ at = [t \in Thread |-> "idle"] /\ npos = [t \in Thread |-> 0]
  BY DEF LinesInit
<1>2. Game = "idle" /\ Operating = "idle"
  BY <1>1 DEF Game, Operating, Thread
<1>3. limit \in Nat \ {0} /\ visible \in Nat \ {0}
  BY <1>1, LinesAssumption
<1>4. Typed
  <2>1. regions \in (Nat \ {0}) \X Nat
    BY <1>1, <1>3, RegionsTyped
  <2>2. \A t \in Thread : at[t] \in Steps[t] /\ npos[t] \in Int
    BY <1>1 DEF Thread, Steps
  <2>3. at \in [Thread -> Places] /\ npos \in [Thread -> Int]
    BY <1>1 DEF Thread, Places, Steps
  <2>4. n \in 0 .. limit + 1 /\ total \in 0 .. limit + 1 /\ seen \in -1 .. limit + 1
    BY <1>1, <1>3
  <2>5. /\ {pos, boxPos} \subseteq Int /\ crossed \subseteq {"total", "rest"}
        /\ {linesHolder, needReceiveLines, lastPos, undefined} \subseteq BOOLEAN
    <3>1. pos \in Int /\ boxPos \in Int /\ crossed \subseteq {"total", "rest"}
      BY ONLY <1>1
    <3>2. /\ linesHolder \in BOOLEAN /\ needReceiveLines \in BOOLEAN /\ lastPos \in BOOLEAN
          /\ undefined \in BOOLEAN
      BY ONLY <1>1
    <3> QED
      BY ONLY <3>1, <3>2
  <2>6. LinesTypeOK
    BY ONLY <1>1, <2>1, <2>2, <2>4, <2>5 DEF LinesTypeOK
  <2> QED
    BY <2>3, <2>6 DEF Typed
<1>5. Apart /\ Alone /\ NoMore
  BY <1>1, <1>2, <1>3 DEF Apart, Alone, NoMore, Writes, Reads, Scrolling
<1>6. EmptyBox /\ Counted /\ Ranged
  BY <1>1, <1>2, <1>3 DEF EmptyBox, BeginsWithBar, Counted, Ranged, InRange, Thumb
<1>7. LinesFollow /\ Unseen
  BY <1>1, <1>2, <1>3 DEF LinesFollow, Unseen
<1> QED
  BY <1>4, <1>5, <1>6, <1>7 DEF LinesIInv, Steady

\* Of what holds when both threads are at rest.
LEMMA LinesAtRest ==
  ASSUME LinesIInv, Quiet
  PROVE  /\ Typed /\ Steady /\ Game = "idle" /\ Operating = "idle"
BY DEF Quiet, LinesIInv, Game, Operating, Thread

\* The bar counts the lines and is where they are: the invariant that the runs check.
LEMMA LinesBarFollows ==
  ASSUME LinesIInv
  PROVE  LinesInv
<1>1. LinesTypeOK
  BY DEF LinesIInv, Typed
<1>2. TotalTrue
  BY LinesAtRest DEF TotalTrue, Steady, Counted
<1>3. PosInRange
  <2> SUFFICES ASSUME Quiet, crossed = {}
               PROVE  /\ Smaller(0, total - visible) <= pos /\ pos <= Larger(0, total - visible)
                      /\ regions \in RegionsOf(total, pos, visible)
                      /\ visible > 2 /\ total >= visible =>
                           regions[1] + regions[2] <= visible
    BY DEF PosInRange
  <2>1. /\ total \in Nat /\ visible \in Nat /\ pos \in Int /\ InRange(pos)
        /\ regions \in RegionsOf(total, pos, visible)
    BY LinesAtRest, LinesTypes DEF Steady, Ranged, Thumb
  <2>2. PICK m \in Int : m = total - visible
    BY <2>1
  <2>3. /\ Smaller(0, m) = IF 0 <= m THEN 0 ELSE m
        /\ Larger(0, m) = IF 0 <= m THEN m ELSE 0
    BY SmallerLarger
  <2>4. Smaller(0, m) <= pos /\ pos <= Larger(0, m)
    BY <2>1, <2>2, <2>3 DEF InRange
  <2>5. ASSUME visible > 2, total >= visible PROVE regions[1] + regions[2] <= visible
    <3>1. pos \in Nat /\ pos <= total - visible
      BY <2>1, <2>5 DEF InRange
    <3> QED
      BY <2>1, <2>5, <3>1, ThumbFits
  <2> QED
    BY <2>1, <2>2, <2>4, <2>5
<1> QED
  BY <1>1, <1>2, <1>3 DEF LinesInv

\* What the operator sees: the invariant that the runs check.
LEMMA LinesAreShown ==
  ASSUME LinesIInv
  PROVE  LinesShown
<1>1. FollowsEnd
  BY LinesAtRest DEF FollowsEnd, Steady, LinesFollow, BoxAtEnd
<1>2. UnseenLastRow
  BY LinesAtRest DEF UnseenLastRow, Steady, Unseen, Painted
<1> QED
  BY <1>1, <1>2 DEF LinesShown

\* Whatever the game and the operator do and however their steps mix, the invariant holds.
LEMMA LinesInvariance == LinesSpec => []LinesIInv
<1>1. LinesInit => LinesIInv
  BY LinesInitHolds
<1>2. LinesIInv /\ [LinesNext]_linesVars => LinesIInv'
  BY LinesStepKeeps
<1> QED
  BY <1>1, <1>2, PTL DEF LinesSpec

\* When nothing has crossed the last operation, the bar counts the lines, its position is
\* between the first line and the last page, and its thumb ends within the box, however
\* the quotients are rounded, for every limit and every height (CHElement.cpp 135-195,
\* 226-290).
THEOREM BarTrue == LinesSpec => []LinesInv
<1>1. LinesIInv => LinesInv
  BY LinesBarFollows
<1> QED
  BY <1>1, LinesInvariance, PTL

\* A box at the end follows the pushes, and a line that is pushed into the box is painted,
\* but for its last row, and but for a box that a resize has left before the first line and
\* behind its bar (CHElement.cpp 153-165, 245-280, 384-394).
THEOREM PushedLinesShown == LinesSpec => []LinesShown
<1>1. LinesIInv => LinesShown
  BY LinesAreShown
<1> QED
  BY <1>1, LinesInvariance, PTL

=============================================================================
