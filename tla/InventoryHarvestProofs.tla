----------------------- MODULE InventoryHarvestProofs -----------------------
(***************************************************************************)
(* Proofs about InventoryHarvest, for calls nested to any depth and any    *)
(* number of units: the flags tell which calls are under way, harvests are *)
(* reported for what was harvested, and the inventory as it is.            *)
(***************************************************************************)
EXTENDS InventoryHarvest, ProofFacts

Frame == Added \cup Transfer \cup Rearrangement

-----------------------------------------------------------------------------
(* Sums over the stack.                                                     *)

\* The units that a call still has to place, and those of new items that it or a call
\* inside it has made in the player's inventory.
LeftOf(f) == IF f.call = "AddItem" THEN f.left ELSE 0
MadeOf(f) == IF f.call = "AddItem" /\ f.inv = "player" THEN f.made + f.inner ELSE 0

LeftAll(s) == Total([i \in 1 .. Len(s) |-> LeftOf(s[i])])
MadeAll(s) == Total([i \in 1 .. Len(s) |-> MadeOf(s[i])])

\* Both are sums of natural numbers.
LEMMA Summands ==
  \A f \in Frame : LeftOf(f) \in Nat /\ MadeOf(f) \in Nat
BY BoundsAssumption DEF Frame, Added, Transfer, Rearrangement, Units, LeftOf, MadeOf

\* A call that is pushed adds its units to the sums.
LEMMA SumsOfAppend ==
  ASSUME NEW s \in Seq(Frame), NEW f \in Frame
  PROVE  /\ LeftAll(s) \in Nat /\ LeftAll(Append(s, f)) = LeftAll(s) + LeftOf(f)
         /\ MadeAll(s) \in Nat /\ MadeAll(Append(s, f)) = MadeAll(s) + MadeOf(f)
<1> DEFINE t == Append(s, f)
           left(u) == [i \in 1 .. Len(u) |-> LeftOf(u[i])]
           made(u) == [i \in 1 .. Len(u) |-> MadeOf(u[i])]
<1>1. /\ t \in Seq(Frame) /\ Len(t) = Len(s) + 1 /\ t[Len(s) + 1] = f
      /\ \A i \in 1 .. Len(s) : t[i] = s[i]
      /\ Len(s) \in Nat /\ \A i \in 1 .. Len(s) : s[i] \in Frame
  BY AppendProperties, LenProperties, ElementOfSeq
<1> HIDE DEF t
<1>2. /\ left(s) \in Seq(Nat) /\ Len(left(s)) = Len(s)
      /\ made(s) \in Seq(Nat) /\ Len(made(s)) = Len(s)
  <2>1. \A i \in 1 .. Len(s) : LeftOf(s[i]) \in Nat /\ MadeOf(s[i]) \in Nat
    BY <1>1, Summands
  <2> QED
    BY <1>1, <2>1, IsASeq
<1>3. LeftOf(f) \in Nat /\ MadeOf(f) \in Nat
  BY Summands
<1>4. left(t) = Append(left(s), LeftOf(f))
  BY <1>1, <1>2 DEF left
<1>5. made(t) = Append(made(s), MadeOf(f))
  BY <1>1, <1>2
<1> HIDE DEF left, made
<1>6. /\ Total(left(s)) \in Nat /\ Total(left(t)) = Total(left(s)) + LeftOf(f)
      /\ Total(made(s)) \in Nat /\ Total(made(t)) = Total(made(s)) + MadeOf(f)
  BY <1>2, <1>3, <1>4, <1>5, TotalProperties
<1> QED
  BY <1>6 DEF LeftAll, MadeAll, left, made, t

\* Where no AddItem is under way nothing is being placed.
LEMMA SumsOfNone ==
  ASSUME NEW s \in Seq(Frame), \A i \in 1 .. Len(s) : s[i].call # "AddItem"
  PROVE  LeftAll(s) = 0 /\ MadeAll(s) = 0
<1> DEFINE left == [i \in 1 .. Len(s) |-> LeftOf(s[i])]
           made == [i \in 1 .. Len(s) |-> MadeOf(s[i])]
<1>1. Len(s) \in Nat
  BY LenProperties
<1>2. /\ left \in Seq(Nat) /\ Len(left) = Len(s) /\ \A i \in 1 .. Len(s) : left[i] = 0
      /\ made \in Seq(Nat) /\ Len(made) = Len(s) /\ \A i \in 1 .. Len(s) : made[i] = 0
  <2>1. \A i \in 1 .. Len(s) : LeftOf(s[i]) = 0 /\ MadeOf(s[i]) = 0
    BY DEF LeftOf, MadeOf
  <2> QED
    BY <1>1, <2>1, IsASeq
<1> HIDE DEF left, made
<1>3. Total(left) = 0 /\ Total(made) = 0
  BY <1>2, TotalProperties
<1> QED
  BY <1>3 DEF LeftAll, MadeAll, left, made

\* A call that returns takes its units with it; one that is changed, the difference.
LEMMA SumsOfLast ==
  ASSUME NEW s \in Seq(Frame), s # << >>, NEW f \in Frame
  PROVE  /\ LeftAll(Front(s)) \in Nat /\ MadeAll(Front(s)) \in Nat
         /\ LeftAll(s) = LeftAll(Front(s)) + LeftOf(Last(s))
         /\ MadeAll(s) = MadeAll(Front(s)) + MadeOf(Last(s))
         /\ LeftAll([s EXCEPT ![Len(s)] = f]) = LeftAll(Front(s)) + LeftOf(f)
         /\ MadeAll([s EXCEPT ![Len(s)] = f]) = MadeAll(Front(s)) + MadeOf(f)
<1>1. Front(s) \in Seq(Frame) /\ Last(s) \in Frame /\ s = Append(Front(s), Last(s))
  BY FrontAndLast
<1>2. [s EXCEPT ![Len(s)] = f] = Append(Front(s), f)
  BY LastReplaced
<1>3. /\ LeftAll(Front(s)) \in Nat /\ MadeAll(Front(s)) \in Nat
      /\ LeftAll(Append(Front(s), f)) = LeftAll(Front(s)) + LeftOf(f)
      /\ MadeAll(Append(Front(s), f)) = MadeAll(Front(s)) + MadeOf(f)
  BY <1>1, SumsOfAppend
<1>4. /\ LeftAll(Append(Front(s), Last(s))) = LeftAll(Front(s)) + LeftOf(Last(s))
      /\ MadeAll(Append(Front(s), Last(s))) = MadeAll(Front(s)) + MadeOf(Last(s))
  BY <1>1, SumsOfAppend
<1> QED
  BY <1>1, <1>2, <1>3, <1>4

-----------------------------------------------------------------------------
(* What the stack looks like.                                               *)

IsAdd(f) == f.call = "AddItem"
Own(f) == IsAdd(f) /\ f.inv = "player" /\ ~f.passes
Rearranges(f) == f.call \in {"Split", "Merge"}

Rearranging(s) == \E i \in 1 .. Len(s) : Rearranges(s[i])
InFrom(s) == \E i \in 1 .. Len(s) : s[i].call = "TransferFrom"
InAll(s) == \E i \in 1 .. Len(s) : s[i].call = "TransferAll"

\* A part of the player's item was stacked.
Stacks(f) == IsAdd(f) /\ f.inv = "player" /\ f.stacked
Stacked(s) == \E i \in 1 .. Len(s) : Stacks(s[i])

\* What may stand above what: calls of AddItem are innermost and all for one item, of the
\* player's only the first does not pass the hook through.
Above(f, g) ==
  /\ IsAdd(f) => /\ IsAdd(g) /\ g.inv = f.inv /\ g.fresh = f.fresh
                 /\ g.inv = "player" => g.passes
  /\ g.call \in {"AddItem", "TransferFrom"}
  /\ g.call = "TransferFrom" => f.call = "TransferAll"
  /\ Rearranges(f) => IsAdd(g) /\ g.inv = "player"

Shape(s) ==
  /\ \A i, j \in 1 .. Len(s) : i < j => Above(s[i], s[j])
  /\ \A j \in 1 .. Len(s) : IsAdd(s[j]) /\ s[j].passes =>
       \E i \in 1 .. Len(s) : i < j /\ Own(s[i])

\* A call places no more than it was given, whatever calls inside it place.
Placed(f) == f.left + f.made + f.inner
Fits(f) == IsAdd(f) => Placed(f) <= f.q
Room(f, g) == IsAdd(f) => Placed(f) + g.q <= f.q
Placing(s) ==
  /\ \A i \in 1 .. Len(s) : Fits(s[i])
  /\ \A i \in 1 .. Len(s) : i + 1 <= Len(s) => Room(s[i], s[i + 1])

\* The hook sees no difference between two calls.
Alike(f, g) ==
  \/ f = g
  \/ /\ IsAdd(f) /\ IsAdd(g)
     /\ f.inv = g.inv /\ f.fresh = g.fresh /\ f.passes = g.passes /\ f.q = g.q

\* A call that may be pushed.
Pushable(s, f) ==
  /\ Fits(f) /\ \A i \in 1 .. Len(s) : Above(s[i], f)
  /\ IsAdd(f) /\ f.passes => \E i \in 1 .. Len(s) : Own(s[i])
  /\ s # << >> => Room(Last(s), f)

\* It is pushed.
LEMMA Pushed ==
  ASSUME NEW s \in Seq(Frame), NEW f \in Frame, Shape(s), Placing(s), Pushable(s, f),
         NEW t, t = Append(s, f)
  PROVE  /\ t \in Seq(Frame) /\ t # << >> /\ Len(t) = Len(s) + 1
         /\ Last(t) = f /\ Front(t) = s
         /\ Shape(t) /\ Placing(t)
         /\ Rearranging(t) <=> Rearranging(s) \/ Rearranges(f)
         /\ InFrom(t) <=> InFrom(s) \/ f.call = "TransferFrom"
         /\ InAll(t) <=> InAll(s) \/ f.call = "TransferAll"
         /\ Stacked(t) <=> Stacked(s) \/ Stacks(f)
         /\ Rearranging(s) => t[1] = s[1]
<1>1. /\ t \in Seq(Frame) /\ Len(t) = Len(s) + 1 /\ t[Len(s) + 1] = f
      /\ \A i \in 1 .. Len(s) : t[i] = s[i]
      /\ Len(s) \in Nat /\ \A i \in 1 .. Len(s) : s[i] \in Frame
  BY AppendProperties, LenProperties, ElementOfSeq
<1>2. t # << >> /\ Last(t) = f /\ Front(t) = s
  BY FrontOfAppend
<1> USE DEF Pushable
<1>3. Shape(t)
  <2>1. ASSUME NEW i \in 1 .. Len(t), NEW j \in 1 .. Len(t), i < j PROVE Above(t[i], t[j])
    <3>1. CASE j = Len(s) + 1
      <4>1. i \in 1 .. Len(s) /\ t[i] = s[i] /\ t[j] = f
        BY <1>1, <2>1, <3>1
      <4> QED
        BY <4>1
    <3>2. CASE j # Len(s) + 1
      <4>1. /\ i \in 1 .. Len(s) /\ t[i] = s[i]
            /\ j \in 1 .. Len(s) /\ t[j] = s[j]
        BY <1>1, <2>1, <3>2
      <4> QED
        BY <2>1, <4>1 DEF Shape
    <3> QED
      BY <3>1, <3>2
  <2>2. ASSUME NEW j \in 1 .. Len(t), IsAdd(t[j]), t[j].passes
        PROVE  \E i \in 1 .. Len(t) : i < j /\ Own(t[i])
    <3>1. CASE j = Len(s) + 1
      <4>1. PICK i \in 1 .. Len(s) : Own(s[i])
        BY <1>1, <2>2, <3>1
      <4>2. i \in 1 .. Len(t) /\ i < j /\ t[i] = s[i]
        BY <1>1, <3>1
      <4> QED
        BY <4>1, <4>2
    <3>2. CASE j # Len(s) + 1
      <4>1. j \in 1 .. Len(s) /\ t[j] = s[j]
        BY <1>1, <3>2
      <4>2. PICK i \in 1 .. Len(s) : i < j /\ Own(s[i])
        BY <2>2, <4>1 DEF Shape
      <4>3. i \in 1 .. Len(t) /\ t[i] = s[i]
        BY <1>1
      <4> QED
        BY <4>2, <4>3
    <3> QED
      BY <3>1, <3>2
  <2> QED
    BY <2>1, <2>2 DEF Shape
<1>4. Placing(t)
  <2>1. ASSUME NEW i \in 1 .. Len(t) PROVE Fits(t[i])
    <3>1. CASE i = Len(s) + 1
      BY <1>1, <3>1
    <3>2. CASE i # Len(s) + 1
      <4>1. i \in 1 .. Len(s) /\ t[i] = s[i]
        BY <1>1, <3>2
      <4> QED
        BY <4>1 DEF Placing
    <3> QED
      BY <3>1, <3>2
  <2>2. ASSUME NEW i \in 1 .. Len(t), i + 1 <= Len(t) PROVE Room(t[i], t[i + 1])
    <3>1. i \in 1 .. Len(s) /\ t[i] = s[i]
      BY <1>1, <2>2
    <3>2. CASE i = Len(s)
      <4>1. s # << >> /\ Last(s) = s[i] /\ t[i + 1] = f
        <5>1. s # << >>
          BY <1>1, <3>1, <3>2, EmptySeq
        <5>2. Last(s) = s[Len(s)]
          BY <5>1, FrontAndLast
        <5> QED
          BY <1>1, <3>2, <5>1, <5>2
      <4> QED
        BY <3>1, <4>1
    <3>3. CASE i # Len(s)
      <4>1. i + 1 \in 1 .. Len(s) /\ t[i + 1] = s[i + 1] /\ i + 1 <= Len(s)
        BY <1>1, <3>1, <3>3
      <4> QED
        BY <3>1, <4>1 DEF Placing
    <3> QED
      BY <3>2, <3>3
  <2> QED
    BY <2>1, <2>2 DEF Placing
<1>5. /\ Rearranging(t) <=> Rearranging(s) \/ Rearranges(f)
      /\ InFrom(t) <=> InFrom(s) \/ f.call = "TransferFrom"
      /\ InAll(t) <=> InAll(s) \/ f.call = "TransferAll"
      /\ Stacked(t) <=> Stacked(s) \/ Stacks(f)
  <2>1. /\ \A i \in 1 .. Len(t) : i \in 1 .. Len(s) \/ i = Len(s) + 1
        /\ \A i \in 1 .. Len(s) : i \in 1 .. Len(t)
        /\ Len(s) + 1 \in 1 .. Len(t)
    BY <1>1
  <2>2. Rearranging(t) <=> Rearranging(s) \/ Rearranges(f)
    BY <1>1, <2>1 DEF Rearranging
  <2>3. InFrom(t) <=> InFrom(s) \/ f.call = "TransferFrom"
    BY <1>1, <2>1 DEF InFrom
  <2>4. InAll(t) <=> InAll(s) \/ f.call = "TransferAll"
    BY <1>1, <2>1 DEF InAll
  <2>5. Stacked(t) <=> Stacked(s) \/ Stacks(f)
    BY <1>1, <2>1 DEF Stacked
  <2> QED
    BY <2>2, <2>3, <2>4, <2>5
<1>6. Rearranging(s) => t[1] = s[1]
  BY <1>1 DEF Rearranging
<1> QED
  BY <1>1, <1>2, <1>3, <1>4, <1>5, <1>6

\* The innermost call returns.
LEMMA Popped ==
  ASSUME NEW s \in Seq(Frame), s # << >>, Shape(s), Placing(s),
         NEW r, r = Front(s)
  PROVE  /\ r \in Seq(Frame) /\ Len(r) = Len(s) - 1 /\ Last(s) \in Frame
         /\ Shape(r) /\ Placing(r) /\ Fits(Last(s))
         /\ r # << >> => Above(Last(r), Last(s)) /\ Room(Last(r), Last(s))
         /\ Rearranging(s) <=> Rearranging(r) \/ Rearranges(Last(s))
         /\ InFrom(s) <=> InFrom(r) \/ Last(s).call = "TransferFrom"
         /\ InAll(s) <=> InAll(r) \/ Last(s).call = "TransferAll"
         /\ Stacked(s) <=> Stacked(r) \/ Stacks(Last(s))
         /\ Rearranging(r) => r[1] = s[1]
<1>1. /\ r \in Seq(Frame) /\ Last(s) \in Frame /\ Len(r) = Len(s) - 1
      /\ Len(s) \in Nat \ {0} /\ Last(s) = s[Len(s)]
      /\ \A i \in 1 .. Len(r) : r[i] = s[i] /\ i \in 1 .. Len(s)
      /\ Len(s) \in 1 .. Len(s)
      /\ \A i \in 1 .. Len(s) : i \in 1 .. Len(r) \/ i = Len(s)
  <2>1. /\ r \in Seq(Frame) /\ Last(s) \in Frame /\ Len(r) = Len(s) - 1
        /\ Len(s) \in Nat \ {0} /\ Last(s) = s[Len(s)]
        /\ \A i \in 1 .. Len(s) - 1 : r[i] = s[i]
    BY FrontAndLast
  <2> QED
    BY <2>1
<1>2. Shape(r)
  <2>1. ASSUME NEW i \in 1 .. Len(r), NEW j \in 1 .. Len(r), i < j PROVE Above(r[i], r[j])
    BY <1>1, <2>1 DEF Shape
  <2>2. ASSUME NEW j \in 1 .. Len(r), IsAdd(r[j]), r[j].passes
        PROVE  \E i \in 1 .. Len(r) : i < j /\ Own(r[i])
    <3>1. PICK i \in 1 .. Len(s) : i < j /\ Own(s[i])
      BY <1>1, <2>2 DEF Shape
    <3>2. i \in 1 .. Len(r) /\ r[i] = s[i]
      BY <1>1, <3>1
    <3> QED
      BY <3>1, <3>2
  <2> QED
    BY <2>1, <2>2 DEF Shape
<1>3. Placing(r) /\ Fits(Last(s))
  <2>1. \A i \in 1 .. Len(r) : Fits(r[i])
    BY <1>1 DEF Placing
  <2>2. ASSUME NEW i \in 1 .. Len(r), i + 1 <= Len(r) PROVE Room(r[i], r[i + 1])
    <3>1. /\ i \in 1 .. Len(s) /\ i + 1 <= Len(s) /\ r[i] = s[i] /\ r[i + 1] = s[i + 1]
      BY <1>1, <2>2
    <3> QED
      BY <3>1 DEF Placing
  <2>3. Fits(Last(s))
    BY <1>1 DEF Placing
  <2> QED
    BY <2>1, <2>2, <2>3 DEF Placing
<1>4. r # << >> => Above(Last(r), Last(s)) /\ Room(Last(r), Last(s))
  <2>1. SUFFICES ASSUME r # << >> PROVE Above(Last(r), Last(s)) /\ Room(Last(r), Last(s))
    OBVIOUS
  <2>2. Len(r) \in Nat \ {0} /\ Last(r) = r[Len(r)]
    BY <1>1, <2>1, FrontAndLast
  <2>3. /\ Len(r) \in 1 .. Len(s) /\ Len(r) < Len(s) /\ Last(r) = s[Len(r)]
        /\ Len(r) + 1 = Len(s)
    BY <1>1, <2>2
  <2>4. Above(Last(r), Last(s))
    BY <1>1, <2>3 DEF Shape
  <2>5. Room(s[Len(r)], s[Len(r) + 1])
    BY <1>1, <2>3 DEF Placing
  <2> QED
    BY <1>1, <2>3, <2>4, <2>5
<1>5. /\ Rearranging(s) <=> Rearranging(r) \/ Rearranges(Last(s))
      /\ InFrom(s) <=> InFrom(r) \/ Last(s).call = "TransferFrom"
      /\ InAll(s) <=> InAll(r) \/ Last(s).call = "TransferAll"
      /\ Stacked(s) <=> Stacked(r) \/ Stacks(Last(s))
  <2>1. Rearranging(s) <=> Rearranging(r) \/ Rearranges(Last(s))
    BY <1>1 DEF Rearranging
  <2>2. InFrom(s) <=> InFrom(r) \/ Last(s).call = "TransferFrom"
    BY <1>1 DEF InFrom
  <2>3. InAll(s) <=> InAll(r) \/ Last(s).call = "TransferAll"
    BY <1>1 DEF InAll
  <2>4. Stacked(s) <=> Stacked(r) \/ Stacks(Last(s))
    BY <1>1 DEF Stacked
  <2> QED
    BY <2>1, <2>2, <2>3, <2>4
<1>6. Rearranging(r) => r[1] = s[1]
  <2>1. Len(r) \in Nat
    BY <1>1
  <2> QED
    BY <1>1, <2>1 DEF Rearranging
<1> QED
  BY <1>1, <1>2, <1>3, <1>4, <1>5, <1>6

\* The innermost call is changed in a way that the hook does not see.
LEMMA Relabelled ==
  ASSUME NEW s \in Seq(Frame), s # << >>, Shape(s), Placing(s),
         NEW f \in Frame, Alike(Last(s), f), Fits(f),
         NEW t, t = [s EXCEPT ![Len(s)] = f]
  PROVE  /\ t \in Seq(Frame) /\ t # << >> /\ Len(t) = Len(s)
         /\ Last(t) = f /\ Front(t) = Front(s)
         /\ Shape(t) /\ Placing(t)
         /\ Rearranging(t) <=> Rearranging(s)
         /\ InFrom(t) <=> InFrom(s)
         /\ InAll(t) <=> InAll(s)
         /\ Stacked(t) <=> Stacked(Front(s)) \/ Stacks(f)
         /\ Rearranging(t) => t[1] = s[1]
<1> DEFINE r == Front(s)
           g == Last(s)
<1>1. /\ r \in Seq(Frame) /\ Len(r) = Len(s) - 1 /\ g \in Frame
      /\ Shape(r) /\ Placing(r)
      /\ r # << >> => Room(Last(r), g)
      /\ Rearranging(s) <=> Rearranging(r) \/ Rearranges(g)
      /\ InFrom(s) <=> InFrom(r) \/ g.call = "TransferFrom"
      /\ InAll(s) <=> InAll(r) \/ g.call = "TransferAll"
      /\ Rearranging(r) => r[1] = s[1]
  BY Popped
<1>2. /\ t = Append(r, f) /\ Len(s) \in Nat \ {0} /\ g = s[Len(s)]
      /\ \A i \in 1 .. Len(s) - 1 : r[i] = s[i]
  BY LastReplaced, FrontAndLast
<1>3. ASSUME NEW i \in 1 .. Len(r) PROVE Above(r[i], f)
  <2>1. i \in 1 .. Len(s) /\ Len(s) \in 1 .. Len(s) /\ i < Len(s) /\ r[i] = s[i]
    BY <1>1, <1>2
  <2>2. Above(r[i], g)
    BY <1>2, <2>1 DEF Shape
  <2>3. CASE f = g
    BY <2>2, <2>3
  <2>4. CASE /\ IsAdd(g) /\ IsAdd(f)
             /\ g.inv = f.inv /\ g.fresh = f.fresh /\ g.passes = f.passes /\ g.q = f.q
    <3> HIDE DEF r, g
    <3> QED
      BY <2>2, <2>4, Zenon DEF Above, IsAdd
  <2> QED
    BY <2>3, <2>4 DEF Alike
<1>4. ASSUME IsAdd(f), f.passes PROVE \E i \in 1 .. Len(r) : Own(r[i])
  <2>1. IsAdd(g) /\ g.passes
    BY <1>4 DEF Alike
  <2>2. Len(s) \in 1 .. Len(s)
    BY <1>2
  <2>3. PICK i \in 1 .. Len(s) : i < Len(s) /\ Own(s[i])
    BY <1>2, <2>1, <2>2 DEF Shape
  <2>4. i \in 1 .. Len(r) /\ r[i] = s[i]
    BY <1>1, <1>2, <2>3
  <2> QED
    BY <2>3, <2>4
<1>5. r # << >> => Room(Last(r), f)
  <2>1. CASE f = g
    BY <1>1, <2>1
  <2>2. CASE f.q = g.q
    BY <1>1, <2>2 DEF Room
  <2> QED
    BY <2>1, <2>2 DEF Alike
<1>6. /\ Rearranges(f) <=> Rearranges(g)
      /\ f.call = "TransferFrom" <=> g.call = "TransferFrom"
      /\ f.call = "TransferAll" <=> g.call = "TransferAll"
      /\ Rearranges(g) => f = g
  BY DEF Alike, IsAdd, Rearranges
<1> HIDE DEF r, g
<1>7. /\ t \in Seq(Frame) /\ t # << >> /\ Len(t) = Len(r) + 1
      /\ Last(t) = f /\ Front(t) = r
      /\ Shape(t) /\ Placing(t)
      /\ Rearranging(t) <=> Rearranging(r) \/ Rearranges(f)
      /\ InFrom(t) <=> InFrom(r) \/ f.call = "TransferFrom"
      /\ InAll(t) <=> InAll(r) \/ f.call = "TransferAll"
      /\ Stacked(t) <=> Stacked(r) \/ Stacks(f)
      /\ Rearranging(r) => t[1] = r[1]
  <2>1. Pushable(r, f)
    BY <1>3, <1>4, <1>5 DEF Pushable
  <2>2. r \in Seq(Frame) /\ f \in Frame /\ Shape(r) /\ Placing(r) /\ t = Append(r, f)
    BY <1>1, <1>2
  <2> QED
    BY ONLY <2>1, <2>2, Pushed
<1>8. Rearranging(t) => t[1] = s[1]
  <2>1. CASE Rearranging(r)
    BY <1>1, <1>7, <2>1
  <2>2. CASE Rearranges(f)
    <3>1. f = g
      BY <1>6, <2>2
    <3>2. Append(r, f) = s
      BY <1>2, <3>1, FrontAndLast DEF r, g
    <3> QED
      BY <1>2, <3>2
  <2> QED
    BY <1>7, <2>1, <2>2
<1>9. Len(t) = Len(s)
  BY <1>1, <1>2, <1>7
<1> QED
  BY <1>1, <1>6, <1>7, <1>8, <1>9 DEF r

\* Out of AddItem none is under way, and a split, merge or transfer of an item that is
\* under way is the innermost call.
LEMMA Outside ==
  ASSUME NEW s \in Seq(Frame), s # << >>, Shape(s), ~IsAdd(Last(s))
  PROVE  /\ \A i \in 1 .. Len(s) : ~IsAdd(s[i])
         /\ LeftAll(s) = 0 /\ MadeAll(s) = 0 /\ ~Stacked(s)
         /\ Rearranging(s) <=> Rearranges(Last(s))
         /\ Rearranging(s) => s[1] = Last(s) /\ Len(s) = 1
         /\ InFrom(s) <=> Last(s).call = "TransferFrom"
<1>1. Len(s) \in Nat \ {0} /\ Len(s) \in 1 .. Len(s) /\ Last(s) = s[Len(s)]
  <2>1. Len(s) \in Nat \ {0} /\ Last(s) = s[Len(s)]
    BY FrontAndLast
  <2> QED
    BY <2>1
<1>2. ASSUME NEW i \in 1 .. Len(s), i # Len(s)
      PROVE  ~IsAdd(s[i]) /\ ~Rearranges(s[i]) /\ s[i].call # "TransferFrom"
  <2>1. Above(s[i], Last(s))
    BY <1>1, <1>2 DEF Shape
  <2> QED
    BY <2>1 DEF Above, IsAdd, Rearranges
<1>3. \A i \in 1 .. Len(s) : ~IsAdd(s[i])
  BY <1>1, <1>2
<1>4. LeftAll(s) = 0 /\ MadeAll(s) = 0 /\ ~Stacked(s)
  BY <1>3, SumsOfNone DEF IsAdd, Stacked, Stacks
<1>5. Rearranging(s) <=> Rearranges(Last(s))
  BY <1>1, <1>2 DEF Rearranging
<1>6. InFrom(s) <=> Last(s).call = "TransferFrom"
  BY <1>1, <1>2 DEF InFrom
<1>7. ASSUME Rearranging(s) PROVE Len(s) = 1
  <2>1. Rearranges(Last(s))
    BY <1>5, <1>7
  <2>2. CASE Len(s) # 1
    <3>1. 1 \in 1 .. Len(s) /\ 1 < Len(s)
      <4>1. \A n \in Nat \ {0} : n # 1 => 1 \in 1 .. n /\ 1 < n
        OBVIOUS
      <4> QED
        BY <1>1, <2>2, <4>1
    <3>2. Above(s[1], Last(s))
      BY <1>1, <3>1 DEF Shape
    <3> QED
      BY <2>1, <3>2 DEF Above, Rearranges
  <2> QED
    BY <2>2
<1> QED
  BY <1>1, <1>3, <1>4, <1>5, <1>6, <1>7

\* Where items of a dino are added, none of the player's is.
LEMMA DinoOnly ==
  ASSUME NEW s \in Seq(Frame), s # << >>, Shape(s), IsAdd(Last(s)), Last(s).inv = "dino"
  PROVE  ~Stacked(s) /\ ~Rearranging(s)
<1>1. Len(s) \in Nat \ {0} /\ Len(s) \in 1 .. Len(s) /\ Last(s) = s[Len(s)]
  <2>1. Len(s) \in Nat \ {0} /\ Last(s) = s[Len(s)]
    BY FrontAndLast
  <2> QED
    BY <2>1
<1>2. ASSUME NEW i \in 1 .. Len(s) PROVE ~Stacks(s[i]) /\ ~Rearranges(s[i])
  <2>1. CASE i = Len(s)
    BY <1>1, <2>1 DEF Stacks, Rearranges, IsAdd
  <2>2. CASE i # Len(s)
    <3>1. Above(s[i], Last(s))
      BY <1>1, <2>2 DEF Shape
    <3> QED
      BY <3>1 DEF Above, Stacks
  <2> QED
    BY <2>1, <2>2
<1> QED
  BY <1>2 DEF Stacked, Rearranging

\* A call of AddItem that the hook does not pass through has none around it for the
\* player's items; one that it does, has.
LEMMA Outermost ==
  ASSUME NEW s \in Seq(Frame), s # << >>, Shape(s), Placing(s),
         IsAdd(Last(s)), Last(s).inv = "player"
  PROVE  Last(s).passes <=> Front(s) # << >> /\ IsAdd(Last(Front(s)))
<1> DEFINE r == Front(s)
           g == Last(s)
<1>1. r \in Seq(Frame) /\ Len(r) = Len(s) - 1 /\ Shape(r) /\ (r # << >> => Above(Last(r), g))
  BY Popped
<1>2. /\ Len(s) \in Nat \ {0} /\ g = s[Len(s)] /\ Len(s) \in 1 .. Len(s)
      /\ \A i \in 1 .. Len(s) - 1 : r[i] = s[i]
  <2>1. /\ Len(s) \in Nat \ {0} /\ g = s[Len(s)]
        /\ \A i \in 1 .. Len(s) - 1 : r[i] = s[i]
    BY FrontAndLast
  <2> QED
    BY <2>1
<1>3. ASSUME g.passes PROVE r # << >> /\ IsAdd(Last(r))
  <2>1. PICK i \in 1 .. Len(s) : i < Len(s) /\ Own(s[i])
    BY <1>2, <1>3 DEF Shape
  <2>2. i \in 1 .. Len(r) /\ IsAdd(r[i])
    BY <1>1, <1>2, <2>1 DEF Own
  <2>3. r # << >>
    BY <1>1, <2>2, EmptySeq
  <2> HIDE DEF r
  <2> QED
    BY <1>1, <2>2, <2>3, Outside
<1>4. ASSUME r # << >>, IsAdd(Last(r)) PROVE g.passes
  BY <1>1, <1>4 DEF Above
<1> QED
  BY <1>3, <1>4

-----------------------------------------------------------------------------
(* The invariant.                                                           *)

StackOK ==
  stack \in Seq(Frame) /\ Len(stack) <= MaxDepth /\ Shape(stack) /\ Placing(stack)

\* The flags tell what the innermost call is, and what it is nested in.
FlagsTell ==
  /\ oi \in [Flags -> BOOLEAN]
  /\ oi["inAddItem"] <=> InAdd /\ Top.inv = "player"
  /\ oi["needharvest"] <=> /\ InAdd /\ Top.inv = "player" /\ Top.fresh
                           /\ ~InFrom(stack) /\ ~Rearranging(stack)
  /\ oi["inTransferFrom"] <=> InFrom(stack)
  /\ oi["inTransferAll"] <=> InAll(stack)
  /\ oi["skipAddRemoveUpdateItems"] <=> Rearranging(stack)
  /\ oi["onDino"] => InAdd /\ Top.inv = "dino" /\ Top.fresh
  /\ oi["lastUpdatedItem"] => InAdd /\ (Top.inv = "player" \/ Top.fresh)

\* All that is in the inventory, or was harvested, has been added; a split or merge does
\* not add.
Conserved ==
  /\ asked \in Units /\ dinoAsked \in Nat /\ harvested \in Nat /\ have \in Nat
  /\ dinoAsked <= asked /\ harvested <= asked
  /\ ~Rearranging(stack) => /\ have + LeftAll(stack) <= asked
                            /\ harvested + LeftAll(stack) <= asked
  /\ Rearranging(stack) => /\ have + LeftAll(stack) <= stack[1].units
                           /\ stack[1].units <= asked

\* The messages are behind by the new items of the calls under way and the unseen ones.
Behind ==
  /\ reported \in Int /\ unseen \in Int
  /\ Rearranging(stack) => stack[1].units - reported = unseen
  /\ ~Rearranging(stack) => /\ have - reported - unseen = MadeAll(stack)
                            /\ Stacked(stack) => oi["lastUpdatedItem"]

\* The most that the calls under way may still report for the dino: the innermost reports
\* all that it was given if a flag is up, the others report through calls inside them.
Reportable ==
  IF InAdd /\ Top.inv = "dino" /\ Top.fresh
  THEN LeftAll(Front(stack))
         + (IF oi["onDino"] \/ oi["lastUpdatedItem"] THEN Top.q ELSE Top.left)
  ELSE 0

Harvested ==
  HandHarvestTrue /\ dino \in Nat /\ dino + Reportable <= dinoAsked

IInv == StackOK /\ FlagsTell /\ Conserved /\ Behind /\ Harvested

\* What the innermost call tells about the stack.
LEMMA TopTells ==
  ASSUME StackOK
  PROVE  /\ InAdd => /\ stack # << >> /\ Top = Last(stack) /\ Top \in Added
                     /\ IsAdd(Last(stack))
         /\ ~InAdd => /\ \A i \in 1 .. Len(stack) : ~IsAdd(stack[i])
                      /\ LeftAll(stack) = 0 /\ MadeAll(stack) = 0 /\ ~Stacked(stack)
                      /\ Rearranging(stack) <=> Top.call \in {"Split", "Merge"}
                      /\ Rearranging(stack) => stack[1] = Top
                      /\ InFrom(stack) <=> Top.call = "TransferFrom"
         /\ InAdd /\ Top.inv = "dino" => ~Stacked(stack) /\ ~Rearranging(stack)
<1> USE DEF StackOK
<1>1. CASE stack = << >>
  <2>1. 1 .. Len(stack) = {} /\ Top.call = "none" /\ stack \in Seq(Frame)
    BY <1>1, EmptySeq DEF Top
  <2>2. LeftAll(stack) = 0 /\ MadeAll(stack) = 0
    BY <2>1, SumsOfNone
  <2> QED
    BY <2>1, <2>2 DEF InAdd, Stacked, Rearranging, InFrom
<1>2. CASE stack # << >>
  <2>1. Top = Last(stack) /\ Last(stack) \in Frame
    BY <1>2, FrontAndLast DEF Top
  <2>2. CASE InAdd
    <3>1. Top \in Added
      BY <2>1, <2>2 DEF InAdd, Frame, Added, Transfer, Rearrangement
    <3> QED
      BY <1>2, <2>1, <2>2, <3>1, DinoOnly DEF InAdd, IsAdd
  <2>3. CASE ~InAdd
    <3>1. ~IsAdd(Last(stack))
      BY <2>1, <2>3 DEF InAdd, IsAdd
    <3> QED
      BY <1>2, <2>1, <2>3, <3>1, Outside DEF Rearranges
  <2> QED
    BY <2>2, <2>3
<1> QED
  BY <1>1, <1>2

-----------------------------------------------------------------------------
(* The steps of the server's calls: what each does to the stack.            *)

\* The flags but those named keep their values.
LEMMA FlagValues ==
  ASSUME oi \in [Flags -> BOOLEAN], NEW flags, NEW b \in BOOLEAN
  PROVE  /\ Set(flags, b) \in [Flags -> BOOLEAN]
         /\ \A f \in Flags : Set(flags, b)[f] = IF f \in flags THEN b ELSE oi[f]
BY DEF Set

\* A frame whose units are changed.
LEMMA FrameFields ==
  ASSUME NEW f \in Added, NEW n \in Units
  PROVE  /\ [f EXCEPT !.left = n] \in Added
         /\ [f EXCEPT !.left = n, !.stacked = TRUE] \in Added
         /\ [f EXCEPT !.made = n, !.left = 0] \in Added
         /\ \A b \in BOOLEAN : [f EXCEPT !.inner = n, !.stacked = b] \in Added
<1>1. 0 \in Units
  BY BoundsAssumption DEF Units
<1>2. [f EXCEPT !.left = n] \in Added
  BY DEF Added
<1>3. [f EXCEPT !.left = n, !.stacked = TRUE] \in Added
  BY DEF Added
<1>4. [f EXCEPT !.made = n, !.left = 0] \in Added
  BY <1>1 DEF Added
<1>5. ASSUME NEW b \in BOOLEAN PROVE [f EXCEPT !.inner = n, !.stacked = b] \in Added
  BY DEF Added
<1> QED
  BY <1>2, <1>3, <1>4, <1>5

\* The frame of a new call of AddItem.
NewFrame(inv, q, fresh) ==
  [call |-> "AddItem", inv |-> inv, fresh |-> fresh,
   passes |-> inv = "player" /\ oi["inAddItem"],
   q |-> q, left |-> q, made |-> 0, inner |-> 0, stacked |-> FALSE]

\* It has the type of a frame.
LEMMA NewFrameIsFrame ==
  ASSUME oi \in [Flags -> BOOLEAN], NEW inv \in {"player", "dino"},
         NEW q \in 1 .. MaxUnits, NEW fresh \in BOOLEAN
  PROVE  NewFrame(inv, q, fresh) \in Added
BY BoundsAssumption DEF NewFrame, Added, Units

\* The calls around stay, and so do the units of new items.
SameCalls ==
  /\ Rearranging(stack') <=> Rearranging(stack)
  /\ InFrom(stack') <=> InFrom(stack)
  /\ InAll(stack') <=> InAll(stack)
  /\ Rearranging(stack) => stack'[1] = stack[1]

\* AddItem out of AddItem.
LEMMA AddOutside ==
  ASSUME StackOK, FlagsTell, ~InAdd,
         NEW inv \in {"player", "dino"}, NEW q \in 1 .. MaxUnits, NEW fresh \in BOOLEAN,
         AddItem(inv, q, fresh)
  PROVE  /\ StackOK' /\ SameCalls /\ InAdd' /\ Top' = NewFrame(inv, q, fresh)
         /\ Top'.passes = FALSE
         /\ LeftAll(stack') = q /\ MadeAll(stack') = 0 /\ ~Stacked(stack')
         /\ LeftAll(Front(stack')) = 0
<1> DEFINE f == NewFrame(inv, q, fresh)
<1>1. f \in Added /\ f \in Frame /\ IsAdd(f) /\ f.passes = FALSE
  BY NewFrameIsFrame DEF FlagsTell, NewFrame, Frame, IsAdd, Flags
<1>2. stack' = Append(stack, f) /\ Len(stack) < MaxDepth
  BY DEF AddItem, NewFrame
<1>3. Pushable(stack, f)
  <2>1. Fits(f)
    BY DEF Fits, NewFrame, Placed
  <2>2. ASSUME NEW i \in 1 .. Len(stack) PROVE Above(stack[i], f)
    <3>1. ~IsAdd(stack[i])
      BY TopTells
    <3>2. ASSUME Rearranges(stack[i]) PROVE inv = "player"
      <4>1. Top.call \in {"Split", "Merge"}
        BY <3>2, TopTells DEF Rearranging
      <4> QED
        BY <4>1 DEF AddItem, MayAdd
    <3> QED
      BY <3>1, <3>2 DEF Above, NewFrame, IsAdd
  <2>3. stack # << >> => Room(Last(stack), f)
    BY DEF Room, IsAdd, InAdd, Top
  <2> QED
    BY <1>1, <2>1, <2>2, <2>3 DEF Pushable
<1>4. /\ stack \in Seq(Frame) /\ Shape(stack) /\ Placing(stack)
  BY DEF StackOK
<1> HIDE DEF f
<1>5. /\ stack' \in Seq(Frame) /\ stack' # << >> /\ Len(stack') = Len(stack) + 1
      /\ Last(stack') = f /\ Front(stack') = stack
      /\ Shape(stack') /\ Placing(stack')
      /\ Rearranging(stack') <=> Rearranging(stack) \/ Rearranges(f)
      /\ InFrom(stack') <=> InFrom(stack) \/ f.call = "TransferFrom"
      /\ InAll(stack') <=> InAll(stack) \/ f.call = "TransferAll"
      /\ Stacked(stack') <=> Stacked(stack) \/ Stacks(f)
      /\ Rearranging(stack) => stack'[1] = stack[1]
  BY <1>1, <1>2, <1>3, <1>4, Pushed
<1>6. /\ LeftAll(stack) = 0 /\ MadeAll(stack) = 0 /\ ~Stacked(stack)
      /\ LeftAll(stack') = 0 + LeftOf(f) /\ MadeAll(stack') = 0 + MadeOf(f)
  BY <1>1, <1>2, <1>4, TopTells, SumsOfAppend
<1>7. /\ f.call = "AddItem" /\ LeftOf(f) = q /\ MadeOf(f) = 0 /\ ~Stacks(f)
      /\ ~Rearranges(f)
  BY DEF f, NewFrame, LeftOf, MadeOf, Stacks, Rearranges
<1>8. Len(stack') <= MaxDepth
  BY <1>2, <1>4, <1>5, LenProperties, BoundsAssumption
<1>9. StackOK'
  BY <1>5, <1>8 DEF StackOK
<1>10. Top' = f /\ InAdd'
  BY <1>5, <1>7 DEF Top, InAdd
<1> QED
  BY <1>1, <1>5, <1>6, <1>7, <1>9, <1>10 DEF SameCalls, f

\* AddItem in AddItem: the inner call takes over units of the outer one.
LEMMA AddInside ==
  ASSUME StackOK, FlagsTell, InAdd,
         NEW inv \in {"player", "dino"}, NEW q \in 1 .. MaxUnits, NEW fresh \in BOOLEAN,
         AddItem(inv, q, fresh)
  PROVE  /\ StackOK' /\ SameCalls /\ InAdd' /\ Top' = NewFrame(inv, q, fresh)
         /\ Top.inv = inv /\ Top.fresh = fresh
         /\ LeftAll(stack') = LeftAll(stack) /\ MadeAll(stack') = MadeAll(stack)
         /\ Stacked(stack') <=> Stacked(stack)
         /\ LeftAll(Front(stack')) + q = LeftAll(Front(stack)) + Top.left
         /\ LeftAll(Front(stack)) \in Nat /\ LeftAll(Front(stack')) \in Nat
         /\ Top.left \in Nat /\ Top.q \in Nat /\ Top.left <= Top.q
<1> DEFINE f == NewFrame(inv, q, fresh)
           g == [Top EXCEPT !.left = Top.left - q]
           s == [stack EXCEPT ![Len(stack)] = g]
<1>1. /\ stack # << >> /\ Top = Last(stack) /\ Top \in Added /\ IsAdd(Last(stack))
      /\ stack \in Seq(Frame) /\ Shape(stack) /\ Placing(stack)
  BY TopTells DEF StackOK
<1>2. /\ Top.inv = inv /\ Top.fresh = fresh /\ q <= Top.left
      /\ stack' = Append(s, f) /\ Len(stack) < MaxDepth
  <2>1. Len(stack) \in 1 .. Len(stack) /\ stack[Len(stack)] = Top
    <3>1. Len(stack) \in Nat \ {0} /\ stack[Len(stack)] = Top
      BY <1>1, FrontAndLast
    <3> QED
      BY <3>1
  <2>2. [stack EXCEPT ![Len(stack)].left = @ - q] = s
    BY <2>1
  <2>3. MayAdd(inv, q, fresh) /\ Len(stack) < MaxDepth
    BY DEF AddItem
  <2>4. Top.inv = inv /\ Top.fresh = fresh /\ q <= Top.left
    BY <2>3 DEF MayAdd, InAdd
  <2>5. stack' = Append(s, f)
    BY <2>2 DEF AddItem, NewFrame
  <2> QED
    BY <2>3, <2>4, <2>5
<1>3. f \in Added /\ f \in Frame /\ IsAdd(f)
  BY NewFrameIsFrame DEF FlagsTell, NewFrame, Frame, IsAdd
<1>4. /\ Top.left - q \in Units /\ g \in Added /\ g \in Frame /\ IsAdd(g) /\ IsAdd(Top)
      /\ g.inv = Top.inv /\ g.fresh = Top.fresh /\ g.passes = Top.passes /\ g.q = Top.q
      /\ g.left = Top.left - q /\ g.made = Top.made /\ g.inner = Top.inner
      /\ g.stacked = Top.stacked /\ g.call = Top.call
  <2>1. Top.left - q \in Units
    BY <1>1, <1>2, BoundsAssumption DEF Added, Units
  <2>2. g \in Added
    BY <1>1, <2>1, FrameFields
  <2> QED
    BY <1>1, <2>1, <2>2 DEF Added, IsAdd, Frame
<1>5. /\ Fits(Top) /\ Top.left \in Nat /\ Top.made \in Nat /\ Top.inner \in Nat /\ Top.q \in Nat
      /\ Placed(Top) <= Top.q /\ Top.stacked \in BOOLEAN /\ Top.passes \in BOOLEAN
  <2>1. Fits(Top)
    BY <1>1, Popped
  <2> QED
    BY <1>1, <1>4, <2>1 DEF Fits, Added, Units
<1>6. Alike(Last(stack), g) /\ Fits(g)
  <2>1. Alike(Top, g)
    BY <1>4 DEF Alike
  <2>2. Placed(g) <= g.q
    BY <1>4, <1>5 DEF Placed
  <2> QED
    BY <1>1, <2>1, <2>2 DEF Fits
<1> HIDE DEF f, g
<1>7. /\ s \in Seq(Frame) /\ s # << >> /\ Len(s) = Len(stack)
      /\ Last(s) = g /\ Front(s) = Front(stack)
      /\ Shape(s) /\ Placing(s)
      /\ Rearranging(s) <=> Rearranging(stack)
      /\ InFrom(s) <=> InFrom(stack)
      /\ InAll(s) <=> InAll(stack)
      /\ Stacked(s) <=> Stacked(Front(stack)) \/ Stacks(g)
      /\ Rearranging(s) => s[1] = stack[1]
  BY <1>1, <1>4, <1>6, Relabelled
<1>8. /\ LeftAll(Front(stack)) \in Nat /\ MadeAll(Front(stack)) \in Nat
      /\ LeftAll(stack) = LeftAll(Front(stack)) + LeftOf(Top)
      /\ MadeAll(stack) = MadeAll(Front(stack)) + MadeOf(Top)
      /\ LeftAll(s) = LeftAll(Front(stack)) + LeftOf(g)
      /\ MadeAll(s) = MadeAll(Front(stack)) + MadeOf(g)
  BY <1>1, <1>4, SumsOfLast
<1> HIDE DEF s
<1>9. LeftOf(Top) = Top.left /\ LeftOf(g) = Top.left - q /\ MadeOf(g) = MadeOf(Top)
  BY <1>4 DEF LeftOf, MadeOf, IsAdd
<1>10. Stacked(s) <=> Stacked(stack)
  <2>1. Stacked(stack) <=> Stacked(Front(stack)) \/ Stacks(Top)
    BY <1>1, Popped
  <2>2. Stacks(g) <=> Stacks(Top)
    BY <1>4 DEF Stacks
  <2> QED
    BY <1>7, <2>1, <2>2
<1>11. Pushable(s, f)
  <2>1. Fits(f) /\ f.q = q /\ f.inv = inv /\ f.fresh = fresh
    BY DEF f, Fits, NewFrame, Placed
  <2>2. inv = "player" => f.passes
    BY <1>2 DEF f, NewFrame, FlagsTell
  <2>3. f.passes => inv = "player"
    BY DEF f, NewFrame
  <2>4. ASSUME NEW i \in 1 .. Len(s) PROVE Above(s[i], f)
    <3>1. Len(s) \in Nat \ {0} /\ s[Len(s)] = g /\ Len(s) \in 1 .. Len(s)
      <4>1. Len(s) \in Nat \ {0} /\ s[Len(s)] = g
        BY <1>7, FrontAndLast
      <4> QED
        BY <4>1
    <3>2. CASE i = Len(s)
      BY <1>2, <1>3, <1>4, <2>1, <2>2, <3>1, <3>2 DEF Above, IsAdd, Rearranges
    <3>3. CASE i # Len(s)
      <4>1. Above(s[i], g)
        BY <1>7, <3>1, <3>3 DEF Shape
      <4> QED
        BY <1>2, <1>3, <1>4, <2>1, <2>2, <4>1 DEF Above, IsAdd, Rearranges
    <3> QED
      BY <3>2, <3>3
  <2>5. ASSUME f.passes PROVE \E i \in 1 .. Len(s) : Own(s[i])
    <3>1. Len(s) \in Nat \ {0} /\ s[Len(s)] = g /\ Len(s) \in 1 .. Len(s)
      <4>1. Len(s) \in Nat \ {0} /\ s[Len(s)] = g
        BY <1>7, FrontAndLast
      <4> QED
        BY <4>1
    <3>2. CASE g.passes
      BY <1>4, <1>7, <3>1, <3>2 DEF Shape
    <3>3. CASE ~g.passes
      BY <1>2, <1>4, <2>3, <2>5, <3>1, <3>3 DEF Own
    <3> QED
      BY <3>2, <3>3
  <2>6. Room(Last(s), f)
    BY <1>2, <1>4, <1>5, <1>7, <2>1 DEF Room, Placed
  <2> QED
    BY <2>1, <2>4, <2>5, <2>6 DEF Pushable
<1>12. /\ stack' \in Seq(Frame) /\ stack' # << >> /\ Len(stack') = Len(s) + 1
       /\ Last(stack') = f /\ Front(stack') = s
       /\ Shape(stack') /\ Placing(stack')
       /\ Rearranging(stack') <=> Rearranging(s) \/ Rearranges(f)
       /\ InFrom(stack') <=> InFrom(s) \/ f.call = "TransferFrom"
       /\ InAll(stack') <=> InAll(s) \/ f.call = "TransferAll"
       /\ Stacked(stack') <=> Stacked(s) \/ Stacks(f)
       /\ Rearranging(s) => stack'[1] = s[1]
  BY <1>2, <1>3, <1>7, <1>11, Pushed
<1>13. /\ f.call = "AddItem" /\ LeftOf(f) = q /\ MadeOf(f) = 0 /\ ~Stacks(f)
       /\ ~Rearranges(f)
  BY DEF f, NewFrame, LeftOf, MadeOf, Stacks, Rearranges
<1>14. LeftAll(stack') = LeftAll(s) + q /\ MadeAll(stack') = MadeAll(s) + 0 /\ MadeAll(s) \in Nat
  BY <1>2, <1>3, <1>7, <1>13, SumsOfAppend
<1>15. Len(stack') <= MaxDepth
  BY <1>1, <1>2, <1>7, <1>12, LenProperties, BoundsAssumption
<1>16. StackOK'
  BY <1>12, <1>15 DEF StackOK
<1>17. Top' = f /\ InAdd'
  BY <1>12, <1>13 DEF Top, InAdd
<1>18. SameCalls
  BY <1>7, <1>12, <1>13 DEF SameCalls
<1>19. Stacked(stack') <=> Stacked(stack)
  BY <1>10, <1>12, <1>13
<1>20. /\ LeftAll(stack') = LeftAll(stack) /\ MadeAll(stack') = MadeAll(stack)
       /\ LeftAll(Front(stack')) + q = LeftAll(Front(stack)) + Top.left
       /\ Top.left <= Top.q /\ LeftAll(Front(stack')) \in Nat
  <2>1. MadeAll(stack) \in Nat /\ q \in Nat /\ MadeAll(s) = MadeAll(stack)
    BY <1>8, <1>9, <1>14
  <2>2. LeftAll(Front(stack')) = LeftAll(s)
    BY <1>12
  <2>3. Top.left <= Top.q
    BY <1>5 DEF Placed
  <2>4. LeftAll(Front(stack')) \in Nat
    BY <1>7, <2>2, SumsOfAppend, <1>3
  <2> QED
    BY <1>5, <1>8, <1>9, <1>14, <2>1, <2>2, <2>3, <2>4
<1> QED
  BY <1>2, <1>5, <1>8, <1>16, <1>17, <1>18, <1>19, <1>20 DEF f

\* What the innermost call of AddItem has.
LEMMA TopFields ==
  ASSUME StackOK, InAdd
  PROVE  /\ stack # << >> /\ Top = Last(stack) /\ Top \in Added /\ IsAdd(Top)
         /\ Top.call = "AddItem" /\ Top.inv \in {"player", "dino"}
         /\ Top.left \in Nat /\ Top.made \in Nat /\ Top.inner \in Nat /\ Top.q \in Units
         /\ Top.q \in Nat /\ Top.q <= MaxUnits
         /\ Top.fresh \in BOOLEAN /\ Top.passes \in BOOLEAN /\ Top.stacked \in BOOLEAN
         /\ Placed(Top) <= Top.q
         /\ LeftAll(Front(stack)) \in Nat /\ MadeAll(Front(stack)) \in Nat
         /\ LeftAll(stack) = LeftAll(Front(stack)) + Top.left
         /\ MadeAll(stack) = MadeAll(Front(stack)) + MadeOf(Top)
         /\ MadeOf(Top) \in Nat
<1>1. /\ stack # << >> /\ Top = Last(stack) /\ Top \in Added /\ IsAdd(Top)
      /\ stack \in Seq(Frame) /\ Shape(stack) /\ Placing(stack)
  BY TopTells DEF StackOK
<1>2. Fits(Top)
  BY <1>1, Popped
<1>3. Top \in Frame
  BY <1>1 DEF Frame
<1>4. /\ LeftAll(Front(stack)) \in Nat /\ MadeAll(Front(stack)) \in Nat
      /\ LeftAll(stack) = LeftAll(Front(stack)) + LeftOf(Top)
      /\ MadeAll(stack) = MadeAll(Front(stack)) + MadeOf(Top)
  BY <1>1, <1>3, SumsOfLast
<1>5. LeftOf(Top) = Top.left
  BY <1>1 DEF LeftOf, IsAdd
<1>6. MadeOf(Top) \in Nat
  BY <1>3, Summands
<1>7. /\ Top.left \in Nat /\ Top.made \in Nat /\ Top.inner \in Nat /\ Top.q \in Nat
      /\ Top.fresh \in BOOLEAN /\ Top.passes \in BOOLEAN /\ Top.stacked \in BOOLEAN
      /\ Top.inv \in {"player", "dino"} /\ Top.q <= MaxUnits /\ Top.q \in Units
  BY <1>1, BoundsAssumption DEF Added, Units
<1> QED
  BY <1>1, <1>2, <1>4, <1>5, <1>6, <1>7 DEF Fits, IsAdd

\* The innermost call places units.
LEMMA TopChanges ==
  ASSUME StackOK, InAdd, NEW g \in Added, Alike(Top, g), Placed(g) <= g.q,
         stack' = [stack EXCEPT ![Len(stack)] = g]
  PROVE  /\ StackOK' /\ SameCalls /\ InAdd' /\ Top' = g
         /\ Front(stack') = Front(stack)
         /\ LeftAll(stack') = LeftAll(Front(stack)) + g.left
         /\ MadeAll(stack') = MadeAll(Front(stack)) + MadeOf(g)
         /\ Stacked(stack') <=> Stacked(Front(stack)) \/ Stacks(g)
         /\ Stacked(stack) <=> Stacked(Front(stack)) \/ Stacks(Top)
<1>1. /\ stack # << >> /\ Top = Last(stack) /\ Top \in Added /\ IsAdd(Top)
      /\ stack \in Seq(Frame) /\ Shape(stack) /\ Placing(stack) /\ Len(stack) <= MaxDepth
  BY TopTells DEF StackOK
<1>2. g \in Frame /\ IsAdd(g) /\ Alike(Last(stack), g) /\ Fits(g)
  BY <1>1 DEF Frame, Added, IsAdd, Fits
<1>3. /\ stack' \in Seq(Frame) /\ stack' # << >> /\ Len(stack') = Len(stack)
      /\ Last(stack') = g /\ Front(stack') = Front(stack)
      /\ Shape(stack') /\ Placing(stack')
      /\ Rearranging(stack') <=> Rearranging(stack)
      /\ InFrom(stack') <=> InFrom(stack)
      /\ InAll(stack') <=> InAll(stack)
      /\ Stacked(stack') <=> Stacked(Front(stack)) \/ Stacks(g)
      /\ Rearranging(stack') => stack'[1] = stack[1]
  BY <1>1, <1>2, Relabelled
<1>4. StackOK'
  BY <1>1, <1>3 DEF StackOK
<1>5. SameCalls
  BY <1>3 DEF SameCalls
<1>6. Top' = g /\ InAdd'
  BY <1>2, <1>3 DEF Top, InAdd, IsAdd
<1>7. /\ LeftAll(stack') = LeftAll(Front(stack)) + LeftOf(g)
      /\ MadeAll(stack') = MadeAll(Front(stack)) + MadeOf(g)
  BY <1>1, <1>2, SumsOfLast
<1>8. LeftOf(g) = g.left
  BY <1>2 DEF LeftOf, IsAdd
<1>9. Stacked(stack) <=> Stacked(Front(stack)) \/ Stacks(Top)
  BY <1>1, Popped
<1> QED
  BY <1>3, <1>4, <1>5, <1>6, <1>7, <1>8, <1>9

\* Nothing but a call of AddItem is told what the one inside it has placed.
Told ==
  [Last(Front(stack)) EXCEPT !.inner = @ + Top.made + Top.inner,
                             !.stacked = @ \/ Top.stacked]

\* The stack after the innermost call has returned.
LEMMA ReturnedIs ==
  ASSUME StackOK, stack # << >>
  PROVE  /\ Returned = IF InAdd /\ Front(stack) # << >> /\ IsAdd(Last(Front(stack)))
                       THEN [Front(stack) EXCEPT ![Len(Front(stack))] = Told]
                       ELSE Front(stack)
<1> DEFINE r == Front(stack)
<1>1. Top = Last(stack) /\ r \in Seq(Frame)
  BY FrontAndLast DEF Top, StackOK
<1>2. CASE InAdd /\ r # << >> /\ IsAdd(Last(r))
  <2>1. Len(r) \in 1 .. Len(r) /\ r[Len(r)] = Last(r)
    <3>1. Len(r) \in Nat \ {0} /\ r[Len(r)] = Last(r)
      BY <1>1, <1>2, FrontAndLast
    <3> QED
      BY <3>1
  <2>2. Returned = [r EXCEPT ![Len(r)].inner = @ + Top.made + Top.inner,
                             ![Len(r)].stacked = @ \/ Top.stacked]
    BY <1>1, <1>2 DEF Returned, InAdd, IsAdd
  <2> HIDE DEF r
  <2>3. [r EXCEPT ![Len(r)].inner = @ + Top.made + Top.inner,
                  ![Len(r)].stacked = @ \/ Top.stacked]
          = [r EXCEPT ![Len(r)] = [Last(r) EXCEPT !.inner = @ + Top.made + Top.inner,
                                                  !.stacked = @ \/ Top.stacked]]
    BY <2>1
  <2> QED
    BY <1>2, <2>2, <2>3 DEF Told, r
<1>3. CASE ~(InAdd /\ r # << >> /\ IsAdd(Last(r)))
  BY <1>1, <1>3 DEF Returned, InAdd, IsAdd
<1> QED
  BY <1>2, <1>3

\* The outermost call of AddItem returns, or a client's call.
LEMMA ReturnsOut ==
  ASSUME StackOK, stack # << >>, stack' = Returned,
         ~(InAdd /\ Front(stack) # << >> /\ IsAdd(Last(Front(stack))))
  PROVE  /\ StackOK' /\ ~InAdd' /\ stack' = Front(stack)
         /\ LeftAll(stack') = 0 /\ MadeAll(stack') = 0 /\ ~Stacked(stack')
         /\ Rearranging(stack) <=> Rearranging(stack') \/ Rearranges(Top)
         /\ InFrom(stack) <=> InFrom(stack') \/ Top.call = "TransferFrom"
         /\ InAll(stack) <=> InAll(stack') \/ Top.call = "TransferAll"
         /\ Rearranging(stack') => stack'[1] = stack[1]
<1> DEFINE r == Front(stack)
<1>1. /\ stack \in Seq(Frame) /\ Shape(stack) /\ Placing(stack) /\ Len(stack) <= MaxDepth
      /\ Len(stack) \in Nat
  BY LenProperties DEF StackOK
<1>2. stack' = r
  BY ReturnedIs
<1>3. /\ r \in Seq(Frame) /\ Len(r) = Len(stack) - 1
      /\ Shape(r) /\ Placing(r)
      /\ r # << >> => Above(Last(r), Last(stack))
      /\ Rearranging(stack) <=> Rearranging(r) \/ Rearranges(Last(stack))
      /\ InFrom(stack) <=> InFrom(r) \/ Last(stack).call = "TransferFrom"
      /\ InAll(stack) <=> InAll(r) \/ Last(stack).call = "TransferAll"
      /\ Rearranging(r) => r[1] = stack[1]
  BY <1>1, Popped
<1>4. Top = Last(stack)
  BY DEF Top
<1>5. r # << >> => ~IsAdd(Last(r))
  BY <1>3, <1>4 DEF Above, InAdd, IsAdd
<1> HIDE DEF r
<1>6. StackOK'
  BY <1>1, <1>2, <1>3, BoundsAssumption DEF StackOK
<1>7. ~InAdd'
  BY <1>2, <1>5 DEF InAdd, Top, IsAdd
<1>8. LeftAll(stack') = 0 /\ MadeAll(stack') = 0 /\ ~Stacked(stack')
  <2>1. CASE r = << >>
    <3>1. 1 .. Len(r) = {}
      BY <2>1, EmptySeq
    <3>2. LeftAll(r) = 0 /\ MadeAll(r) = 0
      BY <1>3, <3>1, SumsOfNone
    <3> QED
      BY <1>2, <3>1, <3>2 DEF Stacked
  <2>2. CASE r # << >>
    BY <1>2, <1>3, <1>5, <2>2, Outside
  <2> QED
    BY <2>1, <2>2
<1> QED
  BY <1>2, <1>3, <1>4, <1>6, <1>7, <1>8 DEF r

\* A call of AddItem inside another one returns.
LEMMA ReturnsIn ==
  ASSUME StackOK, stack' = Returned,
         InAdd, Front(stack) # << >>, IsAdd(Last(Front(stack)))
  PROVE  /\ StackOK' /\ SameCalls /\ InAdd'
         /\ Top'.inv = Top.inv /\ Top'.fresh = Top.fresh
         /\ LeftAll(stack') = LeftAll(Front(stack))
         /\ LeftAll(Front(stack')) \in Nat /\ Top'.left \in Nat
         /\ LeftAll(Front(stack)) = LeftAll(Front(stack')) + Top'.left
         /\ MadeAll(stack') = MadeAll(stack)
         /\ Stacked(stack') <=> Stacked(stack)
<1> DEFINE r == Front(stack)
           u == Last(r)
<1>1. /\ stack \in Seq(Frame) /\ Shape(stack) /\ Placing(stack) /\ Len(stack) <= MaxDepth
      /\ Len(stack) \in Nat
  BY LenProperties DEF StackOK
<1>2. /\ stack # << >> /\ Top = Last(stack) /\ Top \in Added /\ IsAdd(Top)
      /\ Top.call = "AddItem" /\ Top.inv \in {"player", "dino"}
      /\ Top.left \in Nat /\ Top.made \in Nat /\ Top.inner \in Nat /\ Top.q \in Nat
      /\ Top.stacked \in BOOLEAN
      /\ Placed(Top) <= Top.q
      /\ MadeAll(r) \in Nat
      /\ MadeAll(stack) = MadeAll(r) + MadeOf(Top)
  BY TopFields
<1>3. stack' = [r EXCEPT ![Len(r)] = Told]
  BY <1>2, ReturnedIs
<1>4. /\ r \in Seq(Frame) /\ Len(r) = Len(stack) - 1
      /\ Shape(r) /\ Placing(r)
      /\ r # << >> /\ Above(u, Top) /\ Room(u, Top)
      /\ Rearranging(stack) <=> Rearranging(r) \/ Rearranges(Top)
      /\ InFrom(stack) <=> InFrom(r) \/ Top.call = "TransferFrom"
      /\ InAll(stack) <=> InAll(r) \/ Top.call = "TransferAll"
      /\ Stacked(stack) <=> Stacked(r) \/ Stacks(Top)
      /\ Rearranging(r) => r[1] = stack[1]
  BY <1>1, <1>2, Popped
<1>5. /\ u \in Added /\ u.call = "AddItem" /\ u.inv \in {"player", "dino"}
      /\ u.left \in Nat /\ u.made \in Nat /\ u.inner \in Nat /\ u.q \in Nat
      /\ u.q <= MaxUnits /\ u.stacked \in BOOLEAN
  <2>1. u \in Frame
    BY <1>4, FrontAndLast
  <2>2. u \in Added
    BY <2>1 DEF IsAdd, Frame, Added, Transfer, Rearrangement
  <2> HIDE DEF u
  <2> QED
    BY <2>2, BoundsAssumption DEF Added, Units
<1>6. /\ u.left + u.made + u.inner + Top.q <= u.q
      /\ Top.left + Top.made + Top.inner <= Top.q
      /\ u.inv = Top.inv /\ u.fresh = Top.fresh
  <2>1. /\ Placed(u) + Top.q <= u.q /\ u.inv = Top.inv /\ u.fresh = Top.fresh
    BY <1>4, <1>5 DEF Room, Above, IsAdd
  <2> HIDE DEF u
  <2> QED
    BY <1>2, <2>1 DEF Placed
<1> DEFINE n == u.inner + Top.made + Top.inner
           b == u.stacked \/ Top.stacked
           g == [u EXCEPT !.inner = n, !.stacked = b]
<1>7. Told = g
  BY <1>5 DEF Told, Added
<1> HIDE DEF u
<1>8. n \in Units /\ b \in BOOLEAN /\ n \in Nat /\ u.left + u.made + n <= u.q
  <2> DEFINE w == Top.made + Top.inner
  <2>1. w \in Nat /\ w <= Top.q
    BY <1>2, <1>6
  <2>2. n = u.inner + w
    BY <1>2, <1>5
  <2> HIDE DEF w, n
  <2>3. n \in Nat /\ n <= MaxUnits /\ u.left + u.made + n <= u.q
    <3>1. /\ u.left \in Nat /\ u.made \in Nat /\ u.inner \in Nat /\ u.q \in Nat
          /\ u.q <= MaxUnits /\ Top.q \in Nat
          /\ u.left + u.made + u.inner + Top.q <= u.q
      BY <1>2, <1>5, <1>6
    <3>2. u.left + u.made + (u.inner + w) <= u.left + u.made + u.inner + Top.q
      BY ONLY <2>1, <3>1
    <3>3. u.left + u.made + (u.inner + w) <= u.q
      BY ONLY <2>1, <3>1, <3>2
    <3>4. u.inner + w <= u.q /\ u.inner + w \in Nat
      BY ONLY <2>1, <3>1, <3>3
    <3> QED
      BY ONLY <2>1, <2>2, <3>1, <3>3, <3>4, BoundsAssumption
  <2>4. b \in BOOLEAN
    OBVIOUS
  <2> HIDE DEF b
  <2> QED
    BY <2>3, <2>4, BoundsAssumption DEF Units
<1>9. /\ g \in Added /\ g \in Frame /\ g.call = "AddItem"
      /\ g.inv = u.inv /\ g.fresh = u.fresh /\ g.passes = u.passes /\ g.q = u.q
      /\ g.left = u.left /\ g.made = u.made /\ g.inner = n /\ g.stacked = b
  <2>1. g \in Added
    <3> HIDE DEF n, b
    <3> QED
      BY <1>5, <1>8, FrameFields
  <2>2. \A x, y : LET h == [u EXCEPT !.inner = x, !.stacked = y]
                  IN  /\ h.call = u.call
                      /\ h.inv = u.inv /\ h.fresh = u.fresh /\ h.passes = u.passes
                      /\ h.q = u.q /\ h.left = u.left /\ h.made = u.made
                      /\ h.inner = x /\ h.stacked = y
    BY <1>5 DEF Added
  <2> HIDE DEF n, b
  <2> QED
    BY <1>5, <2>1, <2>2 DEF Frame
<1>10. Alike(u, g) /\ Fits(g)
  <2>1. Alike(u, g)
    <3> HIDE DEF g
    <3> QED
      BY <1>5, <1>9 DEF Alike, IsAdd
  <2>2. Placed(g) <= g.q
    <3> HIDE DEF g, n
    <3> QED
      BY <1>8, <1>9 DEF Placed
  <2> QED
    BY <2>1, <2>2 DEF Fits
<1> HIDE DEF r, g
<1>11. /\ stack' \in Seq(Frame) /\ stack' # << >> /\ Len(stack') = Len(r)
       /\ Last(stack') = g /\ Front(stack') = Front(r)
       /\ Shape(stack') /\ Placing(stack')
       /\ Rearranging(stack') <=> Rearranging(r)
       /\ InFrom(stack') <=> InFrom(r)
       /\ InAll(stack') <=> InAll(r)
       /\ Stacked(stack') <=> Stacked(Front(r)) \/ Stacks(g)
       /\ Rearranging(stack') => stack'[1] = r[1]
  <2>1. stack' = [r EXCEPT ![Len(r)] = g] /\ Alike(Last(r), g)
    BY <1>3, <1>7, <1>10 DEF u
  <2> QED
    BY ONLY <1>4, <1>9, <1>10, <2>1, Relabelled
<1>12. /\ LeftAll(Front(r)) \in Nat /\ MadeAll(Front(r)) \in Nat
       /\ LeftAll(r) = LeftAll(Front(r)) + LeftOf(u)
       /\ MadeAll(r) = MadeAll(Front(r)) + MadeOf(u)
       /\ LeftAll(stack') = LeftAll(Front(r)) + LeftOf(g)
       /\ MadeAll(stack') = MadeAll(Front(r)) + MadeOf(g)
  BY <1>3, <1>4, <1>7, <1>9, SumsOfLast DEF u
<1>13. LeftOf(g) = u.left /\ LeftOf(u) = u.left /\ MadeOf(g) = MadeOf(u) + MadeOf(Top)
  <2>1. LeftOf(g) = u.left /\ LeftOf(u) = u.left
    BY <1>5, <1>9 DEF LeftOf
  <2>2. CASE u.inv = "player"
    <3>1. /\ MadeOf(g) = u.made + n /\ MadeOf(u) = u.made + u.inner
          /\ MadeOf(Top) = Top.made + Top.inner
      BY <1>2, <1>5, <1>6, <1>9, <2>2 DEF MadeOf
    <3> QED
      BY <1>2, <1>5, <2>1, <3>1
  <2>3. CASE u.inv # "player"
    <3>1. MadeOf(g) = 0 /\ MadeOf(u) = 0 /\ MadeOf(Top) = 0
      BY <1>6, <1>9, <2>3 DEF MadeOf
    <3> QED
      BY <2>1, <3>1
  <2> QED
    BY <2>2, <2>3
<1>14. Stacked(stack') <=> Stacked(stack)
  <2>1. Stacked(r) <=> Stacked(Front(r)) \/ Stacks(u)
    BY <1>4, Popped DEF u
  <2>2. Stacks(g) <=> Stacks(u) \/ Stacks(Top)
    BY <1>2, <1>5, <1>6, <1>9 DEF Stacks, IsAdd
  <2> QED
    BY <1>4, <1>11, <2>1, <2>2
<1>15. StackOK'
  BY <1>1, <1>4, <1>11, BoundsAssumption DEF StackOK
<1>16. Top' = g /\ InAdd'
  BY <1>9, <1>11 DEF Top, InAdd
<1>17. SameCalls
  BY <1>2, <1>4, <1>11 DEF SameCalls, Rearranges
<1>18. /\ LeftAll(stack') = LeftAll(r) /\ LeftAll(Front(stack')) \in Nat
       /\ LeftAll(r) = LeftAll(Front(stack')) + Top'.left
       /\ MadeAll(stack') = MadeAll(stack)
  <2>1. Top'.left = u.left /\ Front(stack') = Front(r)
    BY <1>9, <1>11, <1>16
  <2>2. MadeOf(u) \in Nat /\ MadeOf(Top) \in Nat
    BY <1>2, <1>5, Summands DEF Frame
  <2> QED
    BY <1>2, <1>12, <1>13, <2>1, <2>2
<1> QED
  BY <1>5, <1>6, <1>9, <1>14, <1>15, <1>16, <1>17, <1>18 DEF r

-----------------------------------------------------------------------------
(* Every step keeps the invariant.                                          *)

\* The invariant holds at first: nothing is called, nothing in the inventory.
LEMMA InitOK == Init => IInv
<1> SUFFICES ASSUME Init PROVE IInv
  OBVIOUS
<1>1. stack = << >> /\ stack \in Seq(Frame) /\ Len(stack) = 0 /\ 1 .. Len(stack) = {}
  BY EmptySeq DEF Init
<1>2. StackOK
  BY <1>1, BoundsAssumption DEF StackOK, Shape, Placing
<1>3. LeftAll(stack) = 0 /\ MadeAll(stack) = 0
  BY <1>1, SumsOfNone
<1>4. ~InAdd
  BY <1>1 DEF InAdd, Top
<1>5. ~InFrom(stack) /\ ~InAll(stack) /\ ~Rearranging(stack) /\ ~Stacked(stack)
  BY <1>1 DEF InFrom, InAll, Rearranging, Stacked
<1>6. FlagsTell
  BY <1>4, <1>5 DEF Init, FlagsTell, Flags
<1>7. Conserved
  BY <1>3, <1>5, BoundsAssumption DEF Init, Conserved, Units
<1>8. Behind
  BY <1>3, <1>5 DEF Init, Behind
<1>9. Harvested
  BY <1>4 DEF Init, Harvested, HandHarvestTrue, Reportable
<1> QED
  BY <1>2, <1>6, <1>7, <1>8, <1>9 DEF IInv

\* The flags on the way into AddItem.
LEMMA EnterFlags ==
  ASSUME oi \in [Flags -> BOOLEAN], NEW inv \in {"player", "dino"}, NEW fresh \in BOOLEAN
  PROVE  /\ Enter(inv, fresh) \in [Flags -> BOOLEAN]
         /\ \A f \in {"skipAddRemoveUpdateItems", "inTransferFrom", "inTransferAll"} :
              Enter(inv, fresh)[f] = oi[f]
         /\ inv = "dino" => /\ \A f \in Flags \ {"onDino"} : Enter(inv, fresh)[f] = oi[f]
                            /\ Enter(inv, fresh)["onDino"] <=> fresh \/ oi["onDino"]
         /\ inv = "player" /\ oi["inAddItem"] => Enter(inv, fresh) = oi
         /\ inv = "player" /\ ~oi["inAddItem"] =>
              /\ Enter(inv, fresh)["inAddItem"]
              /\ ~Enter(inv, fresh)["lastUpdatedItem"]
              /\ Enter(inv, fresh)["onDino"] = oi["onDino"]
              /\ Enter(inv, fresh)["needharvest"] <=>
                   \/ oi["needharvest"]
                   \/ ~oi["skipAddRemoveUpdateItems"] /\ ~oi["inTransferFrom"] /\ fresh
<1>1. CASE inv = "dino"
  <2>1. CASE fresh
    BY <1>1, <2>1 DEF Enter, SetIf, Set, Flags
  <2>2. CASE ~fresh
    BY <1>1, <2>2 DEF Enter, SetIf, Flags
  <2> QED
    BY <2>1, <2>2
<1>2. CASE inv = "player" /\ oi["inAddItem"]
  BY <1>2 DEF Enter
<1>3. CASE inv = "player" /\ ~oi["inAddItem"]
  <2>1. Enter(inv, fresh) =
          [f \in Flags |->
             CASE f = "inAddItem" -> TRUE
               [] f = "lastUpdatedItem" -> FALSE
               [] f = "needharvest" ->
                    \/ oi[f]
                    \/ ~oi["skipAddRemoveUpdateItems"] /\ ~oi["inTransferFrom"] /\ fresh
               [] OTHER -> oi[f]]
    BY <1>3 DEF Enter
  <2> DEFINE g == Enter(inv, fresh)
  <2>2. \A f \in Flags : g[f] =
          CASE f = "inAddItem" -> TRUE
            [] f = "lastUpdatedItem" -> FALSE
            [] f = "needharvest" ->
                 \/ oi[f]
                 \/ ~oi["skipAddRemoveUpdateItems"] /\ ~oi["inTransferFrom"] /\ fresh
            [] OTHER -> oi[f]
    BY <2>1
  <2>3. g \in [Flags -> BOOLEAN]
    BY <2>1
  <2> HIDE DEF g
  <2>4. g["inAddItem"] /\ ~g["lastUpdatedItem"]
    BY <2>2 DEF Flags
  <2>5. g["needharvest"] <=>
          \/ oi["needharvest"]
          \/ ~oi["skipAddRemoveUpdateItems"] /\ ~oi["inTransferFrom"] /\ fresh
    BY <2>2 DEF Flags
  <2>6. /\ g["skipAddRemoveUpdateItems"] = oi["skipAddRemoveUpdateItems"]
        /\ g["inTransferFrom"] = oi["inTransferFrom"]
        /\ g["inTransferAll"] = oi["inTransferAll"] /\ g["onDino"] = oi["onDino"]
    BY <2>2 DEF Flags
  <2> QED
    BY <1>3, <2>3, <2>4, <2>5, <2>6 DEF g
<1> QED
  BY <1>1, <1>2, <1>3

\* A call of AddItem keeps the invariant.
LEMMA AddKeeps ==
  ASSUME IInv, NEW inv \in {"player", "dino"}, NEW q \in 1 .. MaxUnits,
         NEW fresh \in BOOLEAN, AddItem(inv, q, fresh)
  PROVE  IInv'
<1> DEFINE f == NewFrame(inv, q, fresh)
<1>1. StackOK /\ FlagsTell /\ Conserved /\ Behind /\ Harvested
  BY DEF IInv
<1>2. /\ oi \in [Flags -> BOOLEAN] /\ oi' = Enter(inv, fresh)
      /\ asked' = (IF InAdd \/ Top.call \in {"Split", "Merge"} THEN asked ELSE asked + q)
      /\ dinoAsked' = (IF inv = "dino" /\ fresh /\ ~InAdd THEN dinoAsked + q
                       ELSE dinoAsked)
      /\ have' = have /\ reported' = reported /\ hand' = hand /\ dino' = dino
      /\ harvested' = harvested /\ unseen' = unseen
      /\ MayAdd(inv, q, fresh)
  BY <1>1 DEF AddItem, FlagsTell
<1>3. f.inv = inv /\ f.fresh = fresh /\ f.q = q /\ f.left = q /\ q \in Nat \ {0}
  BY BoundsAssumption DEF NewFrame
<1> HIDE DEF f
<1>4. CASE ~InAdd
  <2>1. /\ StackOK' /\ SameCalls /\ InAdd' /\ Top' = f /\ Top'.passes = FALSE
        /\ LeftAll(stack') = q /\ MadeAll(stack') = 0 /\ ~Stacked(stack')
        /\ LeftAll(Front(stack')) = 0
    BY <1>1, <1>4, AddOutside DEF f
  <2>2. /\ LeftAll(stack) = 0 /\ MadeAll(stack) = 0
        /\ Rearranging(stack) <=> Top.call \in {"Split", "Merge"}
        /\ Rearranging(stack) => stack[1] = Top
    BY <1>1, <1>4, TopTells
  <2>3. FlagsTell'
    <3>1. Top'.inv = inv /\ Top'.fresh = fresh
      BY <1>3, <2>1
    <3>2. /\ ~oi["inAddItem"] /\ ~oi["needharvest"] /\ ~oi["onDino"]
          /\ ~oi["lastUpdatedItem"]
      BY <1>1, <1>4 DEF FlagsTell
    <3>3. CASE inv = "dino"
      BY <1>1, <1>2, <2>1, <3>1, <3>2, <3>3, EnterFlags DEF FlagsTell, SameCalls, Flags
    <3>4. CASE inv = "player"
      BY <1>1, <1>2, <2>1, <3>1, <3>2, <3>4, EnterFlags DEF FlagsTell, SameCalls, Flags
    <3> QED
      BY <3>3, <3>4
  <2>4. Conserved'
    <3>1. CASE Rearranging(stack)
      <4>1. asked' = asked /\ q <= Top.units - have /\ inv = "player"
        BY <1>2, <1>4, <2>2, <3>1 DEF MayAdd
      <4>2. dinoAsked' = dinoAsked /\ stack'[1] = Top /\ Rearranging(stack')
        BY <1>2, <2>1, <2>2, <3>1, <4>1 DEF SameCalls
      <4>3. have + q <= Top.units
        <5>1. have \in Nat /\ have + LeftAll(stack) <= Top.units /\ Top.units <= asked
              /\ asked \in Nat
          BY <1>1, <2>2, <3>1, BoundsAssumption DEF Conserved, Units
        <5>2. Top.units \in Nat
          <6>1. stack \in Seq(Frame) /\ Len(stack) \in Nat /\ 1 \in 1 .. Len(stack)
            BY <1>1, <3>1, LenProperties DEF StackOK, Rearranging
          <6>2. Top \in Frame
            BY <2>2, <3>1, <6>1, ElementOfSeq
          <6> QED
            BY <2>2, <3>1, <6>2, BoundsAssumption
               DEF Frame, Added, Transfer, Rearrangement, Units
        <5> QED
          BY <1>3, <4>1, <5>1, <5>2
      <4> QED
        BY <1>1, <1>2, <2>1, <2>2, <3>1, <4>1, <4>2, <4>3 DEF Conserved
    <3>2. CASE ~Rearranging(stack)
      <4>1. asked' = asked + q /\ asked + q <= MaxUnits /\ ~Rearranging(stack')
        BY <1>2, <1>4, <2>1, <2>2, <3>2 DEF MayAdd, InAdd, SameCalls
      <4> QED
        BY <1>1, <1>2, <1>3, <2>1, <2>2, <3>2, <4>1, BoundsAssumption
           DEF Conserved, Units
    <3> QED
      BY <3>1, <3>2
  <2>5. Behind'
    BY <1>1, <1>2, <2>1, <2>2 DEF Behind, SameCalls
  <2>6. Harvested'
    <3>1. dino \in Nat /\ dinoAsked \in Nat /\ dino <= dinoAsked
      BY <1>1, <1>4 DEF Harvested, Reportable, Conserved
    <3>2. CASE inv = "dino" /\ fresh
      <4>1. dinoAsked' = dinoAsked + q
        BY <1>2, <1>4, <3>2
      <4>2. Reportable' = 0 + (IF oi'["onDino"] \/ oi'["lastUpdatedItem"] THEN q ELSE q)
        BY <1>3, <2>1, <3>2 DEF Reportable
      <4> QED
        BY <1>1, <1>2, <1>3, <3>1, <4>1, <4>2 DEF Harvested, HandHarvestTrue
    <3>3. CASE ~(inv = "dino" /\ fresh)
      <4>1. Reportable' = 0 /\ dinoAsked' = dinoAsked
        BY <1>2, <1>3, <2>1, <3>3 DEF Reportable
      <4> QED
        BY <1>1, <1>2, <3>1, <4>1 DEF Harvested, HandHarvestTrue
    <3> QED
      BY <3>2, <3>3
  <2> QED
    BY <2>1, <2>3, <2>4, <2>5, <2>6 DEF IInv
<1>5. CASE InAdd
  <2>1. /\ StackOK' /\ SameCalls /\ InAdd' /\ Top' = f
        /\ Top.inv = inv /\ Top.fresh = fresh
        /\ LeftAll(stack') = LeftAll(stack) /\ MadeAll(stack') = MadeAll(stack)
        /\ Stacked(stack') <=> Stacked(stack)
        /\ LeftAll(Front(stack')) + q = LeftAll(Front(stack)) + Top.left
        /\ LeftAll(Front(stack)) \in Nat /\ LeftAll(Front(stack')) \in Nat
        /\ Top.left \in Nat /\ Top.q \in Nat /\ Top.left <= Top.q
    BY <1>1, <1>5, AddInside DEF f
  <2>2. Top'.inv = inv /\ Top'.fresh = fresh
    BY <1>3, <2>1
  <2>3. asked' = asked /\ dinoAsked' = dinoAsked
    BY <1>2, <1>5
  <2>4. FlagsTell' /\ (oi["lastUpdatedItem"] => oi'["lastUpdatedItem"])
        /\ (inv = "dino" /\ fresh => oi'["onDino"])
    <3>1. CASE inv = "dino"
      <4>1. ~oi["inAddItem"] /\ ~oi["needharvest"]
        BY <1>1, <2>1, <3>1 DEF FlagsTell
      <4> QED
        BY <1>1, <1>2, <1>5, <2>1, <2>2, <3>1, <4>1, EnterFlags
           DEF FlagsTell, SameCalls, Flags
    <3>2. CASE inv = "player"
      <4>1. oi["inAddItem"]
        BY <1>1, <1>5, <2>1, <3>2 DEF FlagsTell
      <4>2. oi' = oi
        BY <1>2, <3>2, <4>1, EnterFlags
      <4> QED
        BY <1>1, <1>5, <2>1, <2>2, <3>2, <4>2 DEF FlagsTell, SameCalls
    <3> QED
      BY <3>1, <3>2
  <2>5. Conserved'
    BY <1>1, <1>2, <2>1, <2>3 DEF Conserved, SameCalls
  <2>6. Behind'
    BY <1>1, <1>2, <2>1, <2>4 DEF Behind, SameCalls
  <2>7. Harvested'
    <3>1. CASE inv = "dino" /\ fresh
      <4>1. Reportable' = LeftAll(Front(stack')) + q
        BY <1>3, <2>1, <2>2, <2>4, <3>1 DEF Reportable
      <4>2. Reportable = LeftAll(Front(stack)) + Top.left
            \/ Reportable = LeftAll(Front(stack)) + Top.q
        BY <1>5, <2>1, <3>1 DEF Reportable
      <4>3. Reportable' <= Reportable /\ Reportable \in Nat /\ Reportable' \in Nat
        BY <2>1, <4>1, <4>2
      <4>4. dino \in Nat /\ dinoAsked \in Nat /\ dino + Reportable <= dinoAsked
        BY <1>1 DEF Harvested, Conserved
      <4>5. dino + Reportable' <= dinoAsked
        <5>1. \A a, b, c, d \in Nat : c <= b /\ a + b <= d => a + c <= d
          OBVIOUS
        <5> QED
          BY <4>3, <4>4, <5>1
      <4> QED
        BY <1>1, <1>2, <2>3, <4>5 DEF Harvested, HandHarvestTrue
    <3>2. CASE ~(inv = "dino" /\ fresh)
      <4>1. Reportable' = 0 /\ Reportable = 0
        BY <2>1, <2>2, <3>2 DEF Reportable
      <4> QED
        BY <1>1, <1>2, <2>3, <4>1 DEF Harvested, HandHarvestTrue
    <3> QED
      BY <3>1, <3>2
  <2> QED
    BY <2>1, <2>4, <2>5, <2>6, <2>7 DEF IInv
<1> QED
  BY <1>4, <1>5

\* Sums that do not exceed a bound do not exceed it with less in them.
LEMMA LessReported == \A a, b, c, d \in Nat : c <= b /\ a + b <= d => a + c <= d
  OBVIOUS

\* Units that are placed are no longer to be placed.
LEMMA UnitsPlaced ==
  \A a, b, c, d, n, m \in Nat :
    b + n = a /\ (d = c \/ d = c + n) /\ c + a <= m => d + b <= m /\ d <= m
  OBVIOUS

\* What a notification does: it says whether an item was stacked, and reports what was.
LEMMA NotifiedDoes ==
  ASSUME FlagsTell, NEW inv \in {"player", "dino"}, NEW n \in Int, Notified(inv, n)
  PROVE  /\ oi' \in [Flags -> BOOLEAN]
         /\ \A f \in Flags \ {"lastUpdatedItem"} : oi'[f] = oi[f]
         /\ oi["lastUpdatedItem"] => oi'["lastUpdatedItem"]
         /\ oi'["lastUpdatedItem"] =>
              \/ oi["lastUpdatedItem"]
              \/ oi["onDino"] /\ inv = "dino"
              \/ oi["inAddItem"] /\ inv = "player"
         /\ inv = "dino" => reported' = reported /\ hand' = hand
         /\ inv = "player" /\ Rearranging(stack) => reported' = reported /\ hand' = hand
         /\ inv = "player" /\ ~Rearranging(stack) =>
              /\ reported' = reported + n
              /\ oi["inAddItem"] => oi'["lastUpdatedItem"]
              /\ hand' = IF oi["needharvest"] /\ ~InAll(stack) THEN hand + n ELSE hand
<1>1. oi \in [Flags -> BOOLEAN]
  BY DEF FlagsTell
<1>2. /\ Set({"lastUpdatedItem"}, TRUE) \in [Flags -> BOOLEAN]
      /\ \A f \in Flags : Set({"lastUpdatedItem"}, TRUE)[f] =
           IF f \in {"lastUpdatedItem"} THEN TRUE ELSE oi[f]
  BY <1>1, FlagValues
<1> DEFINE g == Set({"lastUpdatedItem"}, TRUE)
<1>3. /\ g \in [Flags -> BOOLEAN] /\ g["lastUpdatedItem"]
      /\ \A f \in Flags \ {"lastUpdatedItem"} : g[f] = oi[f]
  BY <1>2 DEF Flags
<1> HIDE DEF g
<1>4. CASE inv = "dino"
  <2>1. oi' = IF oi["onDino"] THEN g ELSE oi
    BY <1>4 DEF Notified, SetIf, g
  <2>2. reported' = reported /\ hand' = hand
    BY <1>4 DEF Notified
  <2> QED
    BY <1>1, <1>3, <1>4, <2>1, <2>2
<1>5. CASE inv = "player" /\ Rearranging(stack)
  <2>1. oi' = oi /\ reported' = reported /\ hand' = hand
    BY <1>5 DEF Notified, FlagsTell
  <2> QED
    BY <1>1, <1>5, <2>1
<1>6. CASE inv = "player" /\ ~Rearranging(stack)
  <2>1. /\ reported' = reported + n
        /\ hand' = IF oi["needharvest"] /\ ~InAll(stack) THEN hand + n ELSE hand
    BY <1>6 DEF Notified, FlagsTell
  <2>2. oi' = IF oi["inAddItem"] THEN g ELSE oi
    BY <1>6 DEF Notified, FlagsTell, SetIf, g
  <2> QED
    BY <1>1, <1>3, <1>6, <2>1, <2>2
<1> QED
  BY <1>4, <1>5, <1>6

\* The calls under way, as the hooks look for them.
LEMMA CallsAre ==
  ASSUME StackOK
  PROVE
  /\ Calls({"TransferFrom", "TransferAll", "Split", "Merge"})
       <=> InFrom(stack) \/ InAll(stack) \/ Rearranging(stack)
  /\ Calls({"TransferFrom", "Split", "Merge"}) <=> InFrom(stack) \/ Rearranging(stack)
  /\ Calls({"TransferFrom"}) <=> InFrom(stack)
  /\ Calls({"TransferAll"}) <=> InAll(stack)
  /\ Calls({"Split", "Merge"}) <=> Rearranging(stack)
<1>1. DOMAIN stack = 1 .. Len(stack)
  BY LenProperties DEF StackOK
<1> QED
  BY <1>1 DEF Calls, InFrom, InAll, Rearranging, Rearranges

\* A split or merge that is under way is the first call.
LEMMA UnitsTaken ==
  ASSUME StackOK, Rearranging(stack)
  PROVE  stack[1].units \in Nat /\ Rearranges(stack[1])
<1>1. stack \in Seq(Frame) /\ Len(stack) \in Nat /\ Shape(stack)
  BY LenProperties DEF StackOK
<1>2. PICK i \in 1 .. Len(stack) : Rearranges(stack[i])
  BY DEF Rearranging
<1>3. i = 1
  <2>1. CASE i # 1
    <3>1. 1 \in 1 .. Len(stack) /\ 1 < i
      BY <1>1, <2>1
    <3>2. Above(stack[1], stack[i])
      BY <1>1, <3>1 DEF Shape
    <3> QED
      BY <1>2, <3>2 DEF Above, Rearranges
  <2> QED
    BY <2>1
<1>4. stack[1] \in Frame
  BY <1>1, <1>2, <1>3, ElementOfSeq
<1> QED
  BY <1>2, <1>3, <1>4, BoundsAssumption
     DEF Frame, Added, Transfer, Rearrangement, Units, Rearranges

\* Units are stacked on an item.
LEMMA StackKeeps ==
  ASSUME IInv, NEW n \in 1 .. MaxUnits, Stack(n)
  PROVE  IInv'
<1> DEFINE g == [Top EXCEPT !.left = Top.left - n, !.stacked = TRUE]
<1>1. StackOK /\ FlagsTell /\ Conserved /\ Behind /\ Harvested
  BY DEF IInv
<1>2. /\ InAdd /\ n <= Top.left
      /\ have' = (IF Top.inv = "player" THEN have + n ELSE have)
      /\ Notified(Top.inv, n)
      /\ harvested' =
           IF Top.inv = "player" /\ Top.fresh
              /\ ~Calls({"TransferFrom", "TransferAll", "Split", "Merge"})
           THEN harvested + n ELSE harvested
      /\ dino' = dino /\ asked' = asked /\ dinoAsked' = dinoAsked /\ unseen' = unseen
  BY DEF Stack
<1>3. /\ stack # << >> /\ Top = Last(stack) /\ Top \in Added /\ IsAdd(Top)
      /\ Top.call = "AddItem" /\ Top.inv \in {"player", "dino"}
      /\ Top.left \in Nat /\ Top.made \in Nat /\ Top.inner \in Nat /\ Top.q \in Nat
      /\ Top.q <= MaxUnits /\ Top.fresh \in BOOLEAN /\ Top.passes \in BOOLEAN
      /\ Placed(Top) <= Top.q
      /\ LeftAll(Front(stack)) \in Nat /\ MadeAll(Front(stack)) \in Nat
      /\ LeftAll(stack) = LeftAll(Front(stack)) + Top.left
      /\ MadeAll(stack) = MadeAll(Front(stack)) + MadeOf(Top)
      /\ MadeOf(Top) \in Nat /\ n \in Nat \ {0} /\ Top.left - n \in Nat
  BY <1>1, <1>2, TopFields, BoundsAssumption
<1>4. stack' = [stack EXCEPT ![Len(stack)] = g]
  <2>1. Len(stack) \in 1 .. Len(stack) /\ stack[Len(stack)] = Top
    <3>1. Len(stack) \in Nat \ {0} /\ stack[Len(stack)] = Top
      BY <1>1, <1>3, FrontAndLast DEF StackOK
    <3> QED
      BY <3>1
  <2> QED
    BY <2>1 DEF Stack
<1>5. Top.left - n \in Units
  <2>1. MaxUnits \in Nat /\ Top.left + Top.made + Top.inner <= Top.q
    BY <1>3, BoundsAssumption DEF Placed
  <2>2. /\ Top.left \in Nat /\ Top.made \in Nat /\ Top.inner \in Nat /\ Top.q \in Nat
        /\ Top.q <= MaxUnits /\ n \in Nat \ {0} /\ Top.left - n \in Nat
    BY <1>3
  <2> QED
    BY ONLY <2>1, <2>2 DEF Units
<1>6. /\ g \in Added /\ g.call = "AddItem" /\ g.inv = Top.inv /\ g.fresh = Top.fresh
      /\ g.passes = Top.passes /\ g.q = Top.q /\ g.left = Top.left - n
      /\ g.made = Top.made /\ g.inner = Top.inner /\ g.stacked = TRUE
  <2>1. g \in Added
    BY <1>3, <1>5, FrameFields
  <2> QED
    BY <1>3, <2>1 DEF Added
<1> HIDE DEF g
<1>7. Alike(Top, g) /\ Placed(g) <= g.q /\ MadeOf(g) = MadeOf(Top)
  <2>1. Alike(Top, g) /\ MadeOf(g) = MadeOf(Top)
    BY <1>3, <1>6 DEF Alike, IsAdd, MadeOf
  <2>2. Placed(g) <= g.q
    <3>1. /\ g.left = Top.left - n /\ g.made = Top.made /\ g.inner = Top.inner
          /\ g.q = Top.q
      BY <1>6
    <3>2. /\ Top.left + Top.made + Top.inner <= Top.q /\ n \in Nat
          /\ Top.left \in Nat /\ Top.made \in Nat /\ Top.inner \in Nat /\ Top.q \in Nat
      BY <1>3 DEF Placed
    <3> QED
      BY ONLY <3>1, <3>2 DEF Placed
  <2> QED
    BY <2>1, <2>2
<1>8. /\ StackOK' /\ SameCalls /\ InAdd' /\ Top' = g
      /\ Front(stack') = Front(stack)
      /\ LeftAll(stack') = LeftAll(Front(stack)) + g.left
      /\ MadeAll(stack') = MadeAll(Front(stack)) + MadeOf(g)
      /\ Stacked(stack') <=> Stacked(Front(stack)) \/ Stacks(g)
      /\ Stacked(stack) <=> Stacked(Front(stack)) \/ Stacks(Top)
  BY <1>1, <1>2, <1>4, <1>6, <1>7, TopChanges
<1>9. /\ oi' \in [Flags -> BOOLEAN]
      /\ \A f \in Flags \ {"lastUpdatedItem"} : oi'[f] = oi[f]
      /\ oi["lastUpdatedItem"] => oi'["lastUpdatedItem"]
      /\ oi'["lastUpdatedItem"] =>
           \/ oi["lastUpdatedItem"]
           \/ oi["onDino"] /\ Top.inv = "dino"
           \/ oi["inAddItem"] /\ Top.inv = "player"
      /\ Top.inv = "dino" => reported' = reported /\ hand' = hand
      /\ Top.inv = "player" /\ Rearranging(stack) => reported' = reported /\ hand' = hand
      /\ Top.inv = "player" /\ ~Rearranging(stack) =>
           /\ reported' = reported + n
           /\ oi["inAddItem"] => oi'["lastUpdatedItem"]
           /\ hand' = IF oi["needharvest"] /\ ~InAll(stack) THEN hand + n ELSE hand
  <2>1. n \in Int
    BY <1>3
  <2> QED
    BY <1>1, <1>2, <1>3, <2>1, NotifiedDoes
<1>10. FlagsTell'
  BY <1>1, <1>2, <1>6, <1>8, <1>9 DEF FlagsTell, SameCalls, Flags
<1>11. LeftAll(stack') + n = LeftAll(stack) /\ MadeAll(stack') = MadeAll(stack)
       /\ LeftAll(stack') \in Nat
  <2>1. /\ LeftAll(stack') = LeftAll(Front(stack)) + (Top.left - n)
        /\ MadeAll(stack') = MadeAll(Front(stack)) + MadeOf(Top)
    BY <1>6, <1>7, <1>8
  <2>2. /\ LeftAll(Front(stack)) \in Nat /\ Top.left \in Nat /\ Top.left - n \in Nat
        /\ n \in Nat /\ LeftAll(stack) = LeftAll(Front(stack)) + Top.left
        /\ MadeAll(stack) = MadeAll(Front(stack)) + MadeOf(Top)
    BY <1>3
  <2> QED
    BY ONLY <2>1, <2>2
<1>12. harvested' = harvested \/ (harvested' = harvested + n /\ ~Rearranging(stack))
  <2>1. Rearranging(stack) => Calls({"TransferFrom", "TransferAll", "Split", "Merge"})
    BY <1>1, CallsAre
  <2> QED
    BY <1>2, <2>1
<1>13. Conserved'
  <2>5. n \in Nat /\ LeftAll(stack) \in Nat /\ LeftAll(stack') \in Nat
    BY <1>3, <1>11
  <2>1. have' = have \/ have' = have + n
    BY <1>2
  <2>2. /\ asked \in Units /\ asked \in Nat /\ dinoAsked \in Nat /\ harvested \in Nat
        /\ have \in Nat /\ dinoAsked <= asked /\ harvested <= asked
    BY <1>1, BoundsAssumption DEF Conserved, Units
  <2>3. CASE Rearranging(stack)
    <3>1. /\ Rearranging(stack') /\ stack'[1] = stack[1]
          /\ have + LeftAll(stack) <= stack[1].units /\ stack[1].units <= asked
          /\ harvested' = harvested /\ stack[1].units \in Nat
      <4>1. stack[1].units \in Nat
        BY <1>1, <2>3, UnitsTaken
      <4> QED
        BY <1>1, <1>8, <1>12, <2>3, <4>1 DEF Conserved, SameCalls
    <3>2. have' \in Nat
      BY ONLY <2>5, <2>1, <2>2
    <3>3. have' + LeftAll(stack') <= stack[1].units
      BY ONLY <1>11, <2>5, <2>1, <2>2, <3>1, <3>2, UnitsPlaced
    <3> QED
      BY <1>2, <2>2, <3>1, <3>2, <3>3 DEF Conserved
  <2>4. CASE ~Rearranging(stack)
    <3>1. /\ ~Rearranging(stack')
          /\ have + LeftAll(stack) <= asked /\ harvested + LeftAll(stack) <= asked
      BY <1>1, <1>8, <2>4 DEF Conserved, SameCalls
    <3>2. have' \in Nat /\ harvested' \in Nat
      BY ONLY <1>12, <2>5, <2>1, <2>2
    <3>3. have' + LeftAll(stack') <= asked
      BY ONLY <1>11, <2>5, <2>1, <2>2, <3>1, <3>2, UnitsPlaced
    <3>4. harvested' + LeftAll(stack') <= asked /\ harvested' <= asked
      BY ONLY <1>11, <1>12, <2>5, <2>2, <3>1, <3>2, UnitsPlaced
    <3> QED
      BY <1>2, <2>2, <3>1, <3>2, <3>3, <3>4 DEF Conserved
  <2> QED
    BY <2>3, <2>4
<1>14. Behind'
  <2>1. CASE Rearranging(stack)
    BY <1>1, <1>2, <1>3, <1>8, <1>9, <2>1 DEF Behind, SameCalls
  <2>2. CASE ~Rearranging(stack)
    <3>1. CASE Top.inv = "player"
      <4>1. oi'["lastUpdatedItem"] /\ reported' = reported + n /\ have' = have + n
        BY <1>1, <1>2, <1>9, <2>2, <3>1 DEF FlagsTell
      <4> QED
        <5>1. /\ reported \in Int /\ unseen \in Int /\ have \in Nat
              /\ have - reported - unseen = MadeAll(stack)
          BY <1>1, <2>2 DEF Behind, Conserved
        <5>2. /\ reported' \in Int /\ unseen' \in Int
              /\ have' - reported' - unseen' = MadeAll(stack')
          BY <1>2, <1>3, <1>11, <4>1, <5>1
        <5> QED
          BY <1>8, <2>2, <4>1, <5>2 DEF Behind, SameCalls
    <3>2. CASE Top.inv = "dino"
      <4>1. ~Stacked(stack')
        <5>1. ~Stacked(stack)
          BY <1>1, <1>2, <3>2, TopTells
        <5>2. ~Stacks(g)
          BY <1>6, <3>2 DEF Stacks
        <5> QED
          BY <1>8, <5>1, <5>2
      <4>2. reported' = reported /\ have' = have
        BY <1>2, <1>9, <3>2
      <4> QED
        BY <1>1, <1>2, <1>8, <1>11, <2>2, <4>1, <4>2 DEF Behind, SameCalls
    <3> QED
      BY <1>3, <3>1, <3>2
  <2> QED
    BY <2>1, <2>2
<1>15. hand' = harvested'
  <2>1. hand = harvested
    BY <1>1 DEF Harvested, HandHarvestTrue
  <2> QED
    BY <1>1, <1>2, <1>3, <1>9, <2>1, CallsAre DEF FlagsTell
<1>16. Reportable' <= Reportable /\ Reportable' \in Nat /\ Reportable \in Nat
  <2>1. CASE Top.inv = "dino" /\ Top.fresh
    <3>1. (oi'["onDino"] \/ oi'["lastUpdatedItem"]) <=> (oi["onDino"] \/ oi["lastUpdatedItem"])
      BY <1>9, <2>1 DEF Flags
    <3>2. /\ Reportable = LeftAll(Front(stack))
               + (IF oi["onDino"] \/ oi["lastUpdatedItem"] THEN Top.q ELSE Top.left)
          /\ Reportable' = LeftAll(Front(stack))
               + (IF oi["onDino"] \/ oi["lastUpdatedItem"] THEN Top.q ELSE Top.left - n)
      BY <1>2, <1>6, <1>8, <2>1, <3>1 DEF Reportable
    <3>3. CASE oi["onDino"] \/ oi["lastUpdatedItem"]
      <4>1. Reportable = LeftAll(Front(stack)) + Top.q /\ Reportable' = Reportable
        BY <3>2, <3>3
      <4>2. LeftAll(Front(stack)) \in Nat /\ Top.q \in Nat
        BY <1>3
      <4> QED
        BY ONLY <4>1, <4>2
    <3>4. CASE ~(oi["onDino"] \/ oi["lastUpdatedItem"])
      <4>1. /\ Reportable = LeftAll(Front(stack)) + Top.left
            /\ Reportable' = LeftAll(Front(stack)) + (Top.left - n)
        BY <3>2, <3>4
      <4>2. /\ LeftAll(Front(stack)) \in Nat /\ Top.left \in Nat /\ n \in Nat
            /\ Top.left - n \in Nat
        BY <1>3
      <4>3. Reportable \in Nat /\ Reportable' \in Nat
        BY ONLY <4>1, <4>2
      <4>4. LeftAll(Front(stack)) + (Top.left - n) <= LeftAll(Front(stack)) + Top.left
        BY ONLY <4>2
      <4> QED
        BY ONLY <4>1, <4>3, <4>4
    <3> QED
      BY <3>3, <3>4
  <2>2. CASE ~(Top.inv = "dino" /\ Top.fresh)
    <3>1. Reportable = 0 /\ Reportable' = 0
      BY <1>6, <1>8, <2>2 DEF Reportable
    <3> QED
      BY <3>1
  <2> QED
    BY <2>1, <2>2
<1>17. Harvested'
  <2>1. dino \in Nat /\ dinoAsked \in Nat /\ dino + Reportable <= dinoAsked
    BY <1>1 DEF Harvested, Conserved
  <2>2. dino + Reportable' <= dinoAsked
    BY <1>16, <2>1, LessReported
  <2> QED
    BY <1>2, <1>15, <2>1, <2>2 DEF Harvested, HandHarvestTrue
<1> QED
  BY <1>8, <1>10, <1>13, <1>14, <1>17 DEF IInv

\* The rest becomes a new item.
LEMMA NewItemKeeps ==
  ASSUME IInv, NewItem
  PROVE  IInv'
<1> DEFINE g == [Top EXCEPT !.made = Top.left, !.left = 0]
<1>1. StackOK /\ FlagsTell /\ Conserved /\ Behind /\ Harvested
  BY DEF IInv
<1>2. /\ InAdd /\ Top.left > 0 /\ Top.made = 0
      /\ have' = (IF Top.inv = "player" THEN have + Top.left ELSE have)
      /\ oi' = oi /\ reported' = reported /\ hand' = hand /\ dino' = dino
      /\ asked' = asked /\ dinoAsked' = dinoAsked /\ harvested' = harvested
      /\ unseen' = unseen
  BY DEF NewItem, counts
<1>3. /\ stack # << >> /\ Top = Last(stack) /\ Top \in Added /\ IsAdd(Top)
      /\ Top.call = "AddItem" /\ Top.inv \in {"player", "dino"}
      /\ Top.left \in Nat /\ Top.inner \in Nat /\ Top.q \in Nat
      /\ Top.q <= MaxUnits /\ Top.fresh \in BOOLEAN /\ Top.passes \in BOOLEAN
      /\ Placed(Top) <= Top.q
      /\ LeftAll(Front(stack)) \in Nat /\ MadeAll(Front(stack)) \in Nat
      /\ LeftAll(stack) = LeftAll(Front(stack)) + Top.left
      /\ MadeAll(stack) = MadeAll(Front(stack)) + MadeOf(Top)
      /\ MadeOf(Top) \in Nat
  BY <1>1, <1>2, TopFields
<1>4. stack' = [stack EXCEPT ![Len(stack)] = g]
  <2>1. Len(stack) \in 1 .. Len(stack) /\ stack[Len(stack)] = Top
    <3>1. Len(stack) \in Nat \ {0} /\ stack[Len(stack)] = Top
      BY <1>1, <1>3, FrontAndLast DEF StackOK
    <3> QED
      BY <3>1
  <2> QED
    BY <2>1 DEF NewItem
<1>5. Top.left + 0 + Top.inner <= Top.q
  BY <1>2, <1>3 DEF Placed
<1>6. /\ g \in Added /\ g.call = "AddItem" /\ g.inv = Top.inv /\ g.fresh = Top.fresh
      /\ g.passes = Top.passes /\ g.q = Top.q /\ g.left = 0
      /\ g.made = Top.left /\ g.inner = Top.inner /\ g.stacked = Top.stacked
  <2>1. Top.left \in Units
    BY <1>3 DEF Added
  <2>2. g \in Added
    BY <1>3, <2>1, FrameFields
  <2> QED
    BY <1>3, <2>2 DEF Added
<1> HIDE DEF g
<1>7. /\ Alike(Top, g) /\ Placed(g) <= g.q
      /\ MadeOf(g) = IF Top.inv = "player" THEN MadeOf(Top) + Top.left ELSE 0
      /\ Top.inv = "dino" => MadeOf(Top) = 0
  <2>1. Alike(Top, g)
    BY <1>3, <1>6 DEF Alike, IsAdd
  <2>2. Placed(g) <= g.q
    BY <1>3, <1>5, <1>6 DEF Placed
  <2>3. MadeOf(g) = IF Top.inv = "player" THEN MadeOf(Top) + Top.left ELSE 0
    BY <1>2, <1>3, <1>6 DEF MadeOf
  <2>4. Top.inv = "dino" => MadeOf(Top) = 0
    BY DEF MadeOf
  <2> QED
    BY <2>1, <2>2, <2>3, <2>4
<1>8. /\ StackOK' /\ SameCalls /\ InAdd' /\ Top' = g
      /\ Front(stack') = Front(stack)
      /\ LeftAll(stack') = LeftAll(Front(stack)) + g.left
      /\ MadeAll(stack') = MadeAll(Front(stack)) + MadeOf(g)
      /\ Stacked(stack') <=> Stacked(Front(stack)) \/ Stacks(g)
      /\ Stacked(stack) <=> Stacked(Front(stack)) \/ Stacks(Top)
  BY <1>1, <1>2, <1>4, <1>6, <1>7, TopChanges
<1>9. FlagsTell'
  BY <1>1, <1>2, <1>6, <1>8 DEF FlagsTell, SameCalls
<1>10. LeftAll(stack') + Top.left = LeftAll(stack) /\ LeftAll(stack') \in Nat
       /\ Top.left \in Nat
  BY <1>3, <1>6, <1>8
<1>11. Conserved'
  <2>1. have' = have \/ have' = have + Top.left
    BY <1>2
  <2>2. /\ asked \in Units /\ asked \in Nat /\ dinoAsked \in Nat /\ harvested \in Nat
        /\ have \in Nat /\ dinoAsked <= asked /\ harvested <= asked
    BY <1>1, BoundsAssumption DEF Conserved, Units
  <2>3. have' \in Nat /\ LeftAll(stack) \in Nat
    BY ONLY <1>10, <2>1, <2>2
  <2>4. CASE Rearranging(stack)
    <3>1. /\ Rearranging(stack') /\ stack'[1] = stack[1]
          /\ have + LeftAll(stack) <= stack[1].units /\ stack[1].units <= asked
          /\ stack[1].units \in Nat
      BY <1>1, <1>8, <2>4, UnitsTaken DEF Conserved, SameCalls
    <3>2. have' + LeftAll(stack') <= stack[1].units
      BY ONLY <1>10, <2>1, <2>2, <2>3, <3>1, UnitsPlaced
    <3> QED
      BY <1>2, <2>2, <2>3, <3>1, <3>2 DEF Conserved
  <2>5. CASE ~Rearranging(stack)
    <3>1. /\ ~Rearranging(stack')
          /\ have + LeftAll(stack) <= asked /\ harvested + LeftAll(stack) <= asked
      BY <1>1, <1>8, <2>5 DEF Conserved, SameCalls
    <3>2. have' + LeftAll(stack') <= asked
      BY ONLY <1>10, <2>1, <2>2, <2>3, <3>1, UnitsPlaced
    <3>3. harvested + LeftAll(stack') <= asked
      BY ONLY <1>10, <2>2, <2>3, <3>1
    <3> QED
      BY <1>2, <2>2, <2>3, <3>1, <3>2, <3>3 DEF Conserved
  <2> QED
    BY <2>4, <2>5
<1>12. Behind'
  <2>1. CASE Rearranging(stack)
    BY <1>1, <1>2, <1>8, <2>1 DEF Behind, SameCalls
  <2>2. CASE ~Rearranging(stack)
    <3>1. /\ reported \in Int /\ unseen \in Int /\ have \in Nat
          /\ have - reported - unseen = MadeAll(stack)
          /\ Stacked(stack) => oi["lastUpdatedItem"]
      BY <1>1, <2>2 DEF Behind, Conserved
    <3>2. Stacks(g) <=> Stacks(Top)
      BY <1>3, <1>6 DEF Stacks, IsAdd
    <3>3. have' - reported' - unseen' = MadeAll(stack')
      <4>1. CASE Top.inv = "player"
        <5>1. have' = have + Top.left /\ MadeOf(g) = MadeOf(Top) + Top.left
          BY <1>2, <1>7, <4>1
        <5>2. /\ MadeAll(Front(stack)) \in Nat /\ MadeOf(Top) \in Nat /\ Top.left \in Nat
              /\ MadeAll(stack) = MadeAll(Front(stack)) + MadeOf(Top)
              /\ MadeAll(stack') = MadeAll(Front(stack)) + (MadeOf(Top) + Top.left)
              /\ reported' = reported /\ unseen' = unseen
          BY <1>2, <1>3, <1>8, <5>1
        <5>3. \A r, u, h, f, m, l \in Int :
                h - r - u = f + m => (h + l) - r - u = f + (m + l)
          OBVIOUS
        <5>4. (have + Top.left) - reported - unseen
                = MadeAll(Front(stack)) + (MadeOf(Top) + Top.left)
          BY ONLY <3>1, <5>2, <5>3
        <5> QED
          BY ONLY <5>1, <5>2, <5>4
      <4>2. CASE Top.inv = "dino"
        <5>1. have' = have /\ MadeOf(g) = 0 /\ MadeOf(Top) = 0
          BY <1>2, <1>7, <4>2
        <5> QED
          BY <1>2, <1>3, <1>8, <3>1, <5>1
      <4> QED
        BY <1>3, <4>1, <4>2
    <3> QED
      BY <1>2, <1>8, <2>2, <3>1, <3>2, <3>3 DEF Behind, SameCalls
  <2> QED
    BY <2>1, <2>2
<1>13. Harvested'
  <2>1. CASE Top.inv = "dino" /\ Top.fresh
    <3>1. /\ Reportable = LeftAll(Front(stack))
               + (IF oi["onDino"] \/ oi["lastUpdatedItem"] THEN Top.q ELSE Top.left)
          /\ Reportable' = LeftAll(Front(stack))
               + (IF oi["onDino"] \/ oi["lastUpdatedItem"] THEN Top.q ELSE 0)
      BY <1>2, <1>6, <1>8, <2>1 DEF Reportable
    <3>2. Reportable' <= Reportable /\ Reportable' \in Nat /\ Reportable \in Nat
      BY <1>3, <3>1
    <3>3. dino \in Nat /\ dinoAsked \in Nat /\ dino + Reportable <= dinoAsked
      BY <1>1 DEF Harvested, Conserved
    <3>4. dino + Reportable' <= dinoAsked
      BY <3>2, <3>3, LessReported
    <3> QED
      BY <1>1, <1>2, <3>4 DEF Harvested, HandHarvestTrue
  <2>2. CASE ~(Top.inv = "dino" /\ Top.fresh)
    <3>1. Reportable = 0 /\ Reportable' = 0
      BY <1>6, <1>8, <2>2 DEF Reportable
    <3> QED
      BY <1>1, <1>2, <3>1 DEF Harvested, HandHarvestTrue
  <2> QED
    BY <2>1, <2>2
<1> QED
  BY <1>8, <1>9, <1>11, <1>12, <1>13 DEF IInv

\* An item grows or is used up in part, out of AddItem.
LEMMA ChangeKeeps ==
  ASSUME IInv, NEW n \in Int, Change(n)
  PROVE  IInv'
<1>1. StackOK /\ FlagsTell /\ Conserved /\ Behind /\ Harvested
  BY DEF IInv
<1>2. /\ ~InAdd /\ have + n >= 1 /\ have > 0
      /\ Top.call \in {"Split", "Merge"} => have + n <= Top.units /\ asked' = asked
      /\ Top.call \notin {"Split", "Merge"} =>
           asked' = (IF n > 0 THEN asked + n ELSE asked) /\ asked' <= MaxUnits
      /\ have' = have + n
      /\ Notified("player", n)
      /\ stack' = stack /\ dino' = dino /\ dinoAsked' = dinoAsked
      /\ harvested' = harvested /\ unseen' = unseen
  BY DEF Change
<1>3. /\ LeftAll(stack) = 0 /\ MadeAll(stack) = 0 /\ ~Stacked(stack)
      /\ Rearranging(stack) <=> Top.call \in {"Split", "Merge"}
      /\ Rearranging(stack) => stack[1] = Top
  BY <1>1, <1>2, TopTells
<1>4. Top' = Top /\ InAdd' = InAdd /\ StackOK'
  BY <1>1, <1>2 DEF Top, InAdd, StackOK
<1>5. /\ oi' \in [Flags -> BOOLEAN]
      /\ \A f \in Flags \ {"lastUpdatedItem"} : oi'[f] = oi[f]
      /\ oi'["lastUpdatedItem"] => oi["lastUpdatedItem"] \/ oi["inAddItem"]
      /\ Rearranging(stack) => reported' = reported /\ hand' = hand
      /\ ~Rearranging(stack) =>
           /\ reported' = reported + n
           /\ hand' = IF oi["needharvest"] /\ ~InAll(stack) THEN hand + n ELSE hand
  BY <1>1, <1>2, NotifiedDoes
<1>6. FlagsTell'
  <2>1. ~oi["inAddItem"] /\ ~oi["lastUpdatedItem"]
    BY <1>1, <1>2 DEF FlagsTell
  <2> QED
    BY <1>1, <1>2, <1>4, <1>5, <2>1 DEF FlagsTell, Flags
<1>7. /\ asked \in Nat /\ asked <= MaxUnits /\ dinoAsked \in Nat /\ harvested \in Nat
      /\ have \in Nat /\ dinoAsked <= asked /\ harvested <= asked
      /\ have' \in Nat /\ LeftAll(stack') = 0
  BY <1>1, <1>2, <1>3, BoundsAssumption DEF Conserved, Units
<1>8. Conserved'
  <2>1. CASE Rearranging(stack)
    BY <1>1, <1>2, <1>3, <1>7, <2>1 DEF Conserved
  <2>2. CASE ~Rearranging(stack)
    <3>1. asked' = (IF n > 0 THEN asked + n ELSE asked) /\ asked' <= MaxUnits /\ have <= asked
      BY <1>1, <1>2, <1>3, <1>7, <2>2 DEF Conserved
    <3>2. asked' \in Nat /\ asked <= asked' /\ have' <= asked'
      BY <1>2, <1>7, <3>1
    <3>3. asked' \in Units
      BY <3>1, <3>2, BoundsAssumption DEF Units
    <3>4. dinoAsked <= asked' /\ harvested <= asked'
      BY ONLY <1>7, <3>2
    <3> QED
      BY <1>2, <1>7, <2>2, <3>2, <3>3, <3>4 DEF Conserved
  <2> QED
    BY <2>1, <2>2
<1>9. Behind'
  <2>1. CASE Rearranging(stack)
    BY <1>1, <1>2, <1>5, <2>1 DEF Behind
  <2>2. CASE ~Rearranging(stack)
    <3>1. /\ reported \in Int /\ unseen \in Int /\ have - reported - unseen = 0
      BY <1>1, <1>3, <2>2 DEF Behind
    <3>2. /\ reported' \in Int /\ unseen' \in Int /\ have' - reported' - unseen' = 0
      BY <1>2, <1>5, <1>7, <2>2, <3>1
    <3> QED
      BY <1>2, <1>3, <2>2, <3>2 DEF Behind
  <2> QED
    BY <2>1, <2>2
<1>10. Harvested'
  <2>1. hand' = hand
    BY <1>1, <1>2, <1>5 DEF FlagsTell
  <2>2. Reportable' = 0 /\ Reportable = 0
    BY <1>2, <1>4 DEF Reportable
  <2> QED
    BY <1>1, <1>2, <2>1, <2>2 DEF Harvested, HandHarvestTrue
<1> QED
  BY <1>4, <1>6, <1>8, <1>9, <1>10 DEF IInv

\* An item is removed.
LEMMA RemoveItemKeeps ==
  ASSUME IInv, NEW n \in 1 .. MaxUnits, RemoveItem(n)
  PROVE  IInv'
<1>1. StackOK /\ FlagsTell /\ Conserved /\ Behind /\ Harvested
  BY DEF IInv
<1>2. /\ ~InAdd /\ n <= have /\ reported' = Removed(n) /\ have' = have - n
      /\ stack' = stack /\ oi' = oi /\ hand' = hand /\ dino' = dino /\ asked' = asked
      /\ dinoAsked' = dinoAsked /\ harvested' = harvested /\ unseen' = unseen
      /\ n \in Nat
  BY BoundsAssumption DEF RemoveItem, counts
<1>3. /\ LeftAll(stack) = 0 /\ MadeAll(stack) = 0 /\ ~Stacked(stack)
  BY <1>1, <1>2, TopTells
<1>4. Top' = Top /\ InAdd' = InAdd /\ StackOK'
  BY <1>1, <1>2 DEF Top, InAdd, StackOK
<1>5. FlagsTell'
  BY <1>1, <1>2, <1>4 DEF FlagsTell
<1>6. have \in Nat /\ have' \in Nat /\ have' <= have
  BY <1>1, <1>2 DEF Conserved
<1>7. asked \in Nat
  BY <1>1, BoundsAssumption DEF Conserved, Units
<1>8. Conserved'
  <2>1. CASE Rearranging(stack)
    <3>1. stack[1].units \in Nat
      BY <1>1, <2>1, UnitsTaken
    <3> QED
      BY <1>1, <1>2, <1>3, <1>6, <2>1, <3>1 DEF Conserved
  <2>2. CASE ~Rearranging(stack)
    BY <1>1, <1>2, <1>3, <1>6, <1>7, <2>2 DEF Conserved
  <2> QED
    BY <2>1, <2>2
<1>9. Behind'
  <2>1. CASE Rearranging(stack)
    <3>1. reported' = reported
      BY <1>1, <1>2, <2>1 DEF Removed, FlagsTell
    <3> QED
      BY <1>1, <1>2, <2>1, <3>1 DEF Behind
  <2>2. CASE ~Rearranging(stack)
    <3>1. /\ reported \in Int /\ unseen \in Int /\ have - reported - unseen = 0
      BY <1>1, <1>3, <2>2 DEF Behind
    <3>2. reported' = reported - n
      BY <1>1, <1>2, <2>2 DEF Removed, FlagsTell
    <3>3. /\ reported' \in Int /\ unseen' \in Int /\ have' - reported' - unseen' = 0
      BY <1>2, <1>6, <3>1, <3>2
    <3> QED
      BY <1>2, <1>3, <2>2, <3>3 DEF Behind
  <2> QED
    BY <2>1, <2>2
<1>10. Harvested'
  <2>1. Reportable' = 0 /\ Reportable = 0
    BY <1>2, <1>4 DEF Reportable
  <2> QED
    BY <1>1, <1>2, <2>1 DEF Harvested, HandHarvestTrue
<1> QED
  BY <1>4, <1>5, <1>8, <1>9, <1>10 DEF IInv

\* The removal of an item is reported and refused (M_inventory_and_harvest.cpp 402-440).
LEMMA RemoveRefusedKeeps ==
  ASSUME IInv, NEW n \in 1 .. MaxUnits, RemoveRefused(n)
  PROVE  IInv'
<1>1. StackOK /\ FlagsTell /\ Conserved /\ Behind /\ Harvested
  BY DEF IInv
<1>2. /\ ~InAdd /\ n <= have /\ reported' = Removed(n) /\ have' = have
      /\ stack' = stack /\ oi' = oi /\ hand' = hand /\ dino' = dino /\ asked' = asked
      /\ dinoAsked' = dinoAsked /\ harvested' = harvested
      /\ unseen' = IF Calls({"Split", "Merge"}) THEN unseen ELSE unseen + n
      /\ n \in Nat
  BY BoundsAssumption DEF RemoveRefused
<1>3. /\ LeftAll(stack) = 0 /\ MadeAll(stack) = 0 /\ ~Stacked(stack)
  BY <1>1, <1>2, TopTells
<1>4. Top' = Top /\ InAdd' = InAdd /\ StackOK'
  BY <1>1, <1>2 DEF Top, InAdd, StackOK
<1>5. FlagsTell'
  BY <1>1, <1>2, <1>4 DEF FlagsTell
<1>6. have \in Nat /\ have' \in Nat /\ have' <= have
  BY <1>1, <1>2 DEF Conserved
<1>7. asked \in Nat
  BY <1>1, BoundsAssumption DEF Conserved, Units
<1>8. Conserved'
  <2>1. CASE Rearranging(stack)
    <3>1. stack[1].units \in Nat
      BY <1>1, <2>1, UnitsTaken
    <3> QED
      BY <1>1, <1>2, <1>3, <1>6, <2>1, <3>1 DEF Conserved
  <2>2. CASE ~Rearranging(stack)
    BY <1>1, <1>2, <1>3, <1>6, <1>7, <2>2 DEF Conserved
  <2> QED
    BY <2>1, <2>2
<1>9. Behind'
  <2>1. CASE Rearranging(stack)
    <3>1. reported' = reported /\ unseen' = unseen
      BY <1>1, <1>2, <2>1, CallsAre DEF Removed, FlagsTell
    <3> QED
      BY <1>1, <1>2, <2>1, <3>1 DEF Behind
  <2>2. CASE ~Rearranging(stack)
    <3>1. /\ reported \in Int /\ unseen \in Int /\ have - reported - unseen = 0
      BY <1>1, <1>3, <2>2 DEF Behind
    <3>2. reported' = reported - n /\ unseen' = unseen + n
      BY <1>1, <1>2, <2>2, CallsAre DEF Removed, FlagsTell
    <3>3. /\ reported' \in Int /\ unseen' \in Int /\ have' - reported' - unseen' = 0
      BY <1>2, <1>6, <3>1, <3>2
    <3> QED
      BY <1>2, <1>3, <2>2, <3>3 DEF Behind
  <2> QED
    BY <2>1, <2>2
<1>10. Harvested'
  <2>1. Reportable' = 0 /\ Reportable = 0
    BY <1>2, <1>4 DEF Reportable
  <2> QED
    BY <1>1, <1>2, <2>1 DEF Harvested, HandHarvestTrue
<1> QED
  BY <1>4, <1>5, <1>8, <1>9, <1>10 DEF IInv

\* With less to place, what there is stays within what has been added.
LEMMA LessPlaced ==
  ASSUME StackOK, Conserved, SameCalls, LeftAll(stack) \in Nat, LeftAll(stack') \in Nat,
         LeftAll(stack') <= LeftAll(stack), have' = have, asked' = asked,
         dinoAsked' = dinoAsked, harvested' = harvested
  PROVE  Conserved'
<1>1. /\ asked \in Nat /\ harvested \in Nat /\ have \in Nat
  BY BoundsAssumption DEF Conserved, Units
<1>2. CASE Rearranging(stack)
  <2>1. /\ stack[1].units \in Nat /\ Rearranging(stack') /\ stack'[1] = stack[1]
        /\ have + LeftAll(stack) <= stack[1].units
    BY <1>2, UnitsTaken DEF SameCalls, Conserved
  <2>2. have + LeftAll(stack') <= stack[1].units
    BY <1>1, <2>1, LessReported
  <2> QED
    BY <1>2, <2>1, <2>2 DEF Conserved
<1>3. CASE ~Rearranging(stack)
  <2>1. /\ ~Rearranging(stack')
        /\ have + LeftAll(stack) <= asked /\ harvested + LeftAll(stack) <= asked
    BY <1>3 DEF SameCalls, Conserved
  <2>2. have + LeftAll(stack') <= asked /\ harvested + LeftAll(stack') <= asked
    BY <1>1, <2>1, LessReported
  <2> QED
    BY <1>3, <2>1, <2>2 DEF Conserved
<1> QED
  BY <1>2, <1>3

\* A call that the hook passes through returns.
LEMMA AddReturnsPassedKeeps ==
  ASSUME IInv, AddReturnsPassed
  PROVE  IInv'
<1>1. StackOK /\ FlagsTell /\ Conserved /\ Behind /\ Harvested
  BY DEF IInv
<1>2. /\ InAdd /\ Top.passes /\ stack' = Returned
      /\ oi' = oi /\ have' = have /\ reported' = reported /\ hand' = hand /\ dino' = dino
      /\ asked' = asked /\ dinoAsked' = dinoAsked /\ harvested' = harvested
      /\ unseen' = unseen
  BY DEF AddReturnsPassed, counts
<1>3. /\ stack # << >> /\ Top = Last(stack) /\ IsAdd(Top) /\ stack \in Seq(Frame)
      /\ Shape(stack) /\ Placing(stack)
  BY <1>1, <1>2, TopFields DEF StackOK
<1>4. Top.inv = "player"
  <2>1. Len(stack) \in Nat \ {0} /\ Top = stack[Len(stack)] /\ Len(stack) \in 1 .. Len(stack)
    <3>1. Len(stack) \in Nat \ {0} /\ Top = stack[Len(stack)]
      BY <1>3, FrontAndLast
    <3> QED
      BY <3>1
  <2>2. PICK i \in 1 .. Len(stack) : i < Len(stack) /\ Own(stack[i])
    BY <1>2, <1>3, <2>1 DEF Shape
  <2>3. Above(stack[i], Top)
    BY <1>3, <2>1, <2>2 DEF Shape
  <2> QED
    BY <2>2, <2>3 DEF Above, Own
<1>5. Front(stack) # << >> /\ IsAdd(Last(Front(stack)))
  BY <1>2, <1>3, <1>4, Outermost
<1>6. /\ StackOK' /\ SameCalls /\ InAdd'
      /\ Top'.inv = Top.inv /\ Top'.fresh = Top.fresh
      /\ LeftAll(stack') = LeftAll(Front(stack))
      /\ MadeAll(stack') = MadeAll(stack)
      /\ Stacked(stack') <=> Stacked(stack)
  BY <1>1, <1>2, <1>5, ReturnsIn
<1>7. FlagsTell'
  BY <1>1, <1>2, <1>6 DEF FlagsTell, SameCalls
<1>8. /\ LeftAll(stack') <= LeftAll(stack) /\ LeftAll(stack) \in Nat
      /\ LeftAll(stack') \in Nat
  <2>1. /\ LeftAll(Front(stack)) \in Nat /\ Top.left \in Nat
        /\ LeftAll(stack) = LeftAll(Front(stack)) + Top.left
    BY <1>1, <1>2, TopFields
  <2> QED
    BY <1>6, <2>1
<1>9. Conserved'
  BY <1>1, <1>2, <1>6, <1>8, LessPlaced
<1>10. Behind'
  BY <1>1, <1>2, <1>6 DEF Behind, SameCalls
<1>11. Harvested'
  <2>1. Reportable' = 0 /\ Reportable = 0
    BY <1>4, <1>6 DEF Reportable
  <2> QED
    BY <1>1, <1>2, <2>1 DEF Harvested, HandHarvestTrue
<1> QED
  BY <1>6, <1>7, <1>9, <1>10, <1>11 DEF IInv

\* The player's item has been added.
LEMMA AddReturnsKeeps ==
  ASSUME IInv, NEW q \in Units, AddReturns(q)
  PROVE  IInv'
<1>1. StackOK /\ FlagsTell /\ Conserved /\ Behind /\ Harvested
  BY DEF IInv
<1> DEFINE found == Top.made > 0 /\ ~oi["skipAddRemoveUpdateItems"] /\ ~oi["lastUpdatedItem"]
<1>2. /\ InAdd /\ Top.inv = "player" /\ ~Top.passes /\ stack' = Returned
      /\ reported' = (IF found THEN reported + q ELSE reported)
      /\ (found \/ q = 0)
      /\ unseen' = (IF Calls({"Split", "Merge"}) THEN unseen
                    ELSE unseen + Top.inner + Top.made - (IF Top.stacked THEN 0 ELSE q))
      /\ oi' = Set(AddFlags, FALSE)
      /\ have' = have /\ hand' = hand /\ dino' = dino /\ asked' = asked
      /\ dinoAsked' = dinoAsked /\ harvested' = harvested
  BY DEF AddReturns
<1>3. /\ stack # << >> /\ Top = Last(stack) /\ IsAdd(Top) /\ Top.call = "AddItem"
      /\ stack \in Seq(Frame) /\ Shape(stack) /\ Placing(stack)
      /\ Top.made \in Nat /\ Top.inner \in Nat /\ Top.stacked \in BOOLEAN
      /\ Top.left \in Nat /\ LeftAll(Front(stack)) \in Nat
      /\ LeftAll(stack) = LeftAll(Front(stack)) + Top.left
      /\ MadeAll(stack) = MadeAll(Front(stack)) + MadeOf(Top)
  BY <1>1, <1>2, TopFields DEF StackOK
<1>4. ~(Front(stack) # << >> /\ IsAdd(Last(Front(stack))))
  BY <1>2, <1>3, Outermost
<1>5. /\ StackOK' /\ ~InAdd' /\ stack' = Front(stack)
      /\ LeftAll(stack') = 0 /\ MadeAll(stack') = 0 /\ ~Stacked(stack')
      /\ Rearranging(stack) <=> Rearranging(stack') \/ Rearranges(Top)
      /\ InFrom(stack) <=> InFrom(stack') \/ Top.call = "TransferFrom"
      /\ InAll(stack) <=> InAll(stack') \/ Top.call = "TransferAll"
      /\ Rearranging(stack') => stack'[1] = stack[1]
  BY <1>1, <1>2, <1>3, <1>4, ReturnsOut
<1>6. /\ Rearranging(stack') <=> Rearranging(stack)
      /\ InFrom(stack') <=> InFrom(stack)
      /\ InAll(stack') <=> InAll(stack)
  BY <1>3, <1>5 DEF Rearranges
<1>7. /\ oi' \in [Flags -> BOOLEAN]
      /\ ~oi'["inAddItem"] /\ ~oi'["needharvest"] /\ ~oi'["lastUpdatedItem"]
      /\ \A f \in Flags \ AddFlags : oi'[f] = oi[f]
  <2>1. oi \in [Flags -> BOOLEAN]
    BY <1>1 DEF FlagsTell
  <2>2. /\ Set(AddFlags, FALSE) \in [Flags -> BOOLEAN]
        /\ \A f \in Flags : Set(AddFlags, FALSE)[f] = IF f \in AddFlags THEN FALSE ELSE oi[f]
    BY <2>1, FlagValues
  <2> QED
    BY <1>2, <2>2 DEF Flags, AddFlags
<1>8. FlagsTell'
  BY <1>1, <1>2, <1>5, <1>6, <1>7 DEF FlagsTell, Flags, AddFlags
<1>9. LeftAll(stack) \in Nat /\ 0 <= LeftAll(stack)
  BY <1>3
<1>10. Conserved'
  <2>1. SameCalls
    BY <1>5, <1>6 DEF SameCalls
  <2>2. LeftAll(stack') \in Nat /\ LeftAll(stack') <= LeftAll(stack)
    BY <1>5, <1>9
  <2> QED
    BY <1>1, <1>2, <1>9, <2>1, <2>2, LessPlaced
<1>11. q \in Nat
  BY BoundsAssumption DEF Units
<1>12. Behind'
  <2>1. CASE Rearranging(stack)
    <3>1. ~found /\ unseen' = unseen /\ reported' = reported
      BY <1>1, <1>2, <2>1, CallsAre DEF FlagsTell
    <3> QED
      BY <1>1, <1>5, <1>6, <2>1, <3>1 DEF Behind
  <2>2. CASE ~Rearranging(stack)
    <3>1. /\ reported \in Int /\ unseen \in Int /\ have \in Nat
          /\ have - reported - unseen = MadeAll(stack)
          /\ Stacked(stack) => oi["lastUpdatedItem"]
      BY <1>1, <2>2 DEF Behind, Conserved
    <3>2. MadeAll(stack) = Top.made + Top.inner
      BY <1>2, <1>3, <1>5 DEF MadeOf
    <3>3. Top.stacked => ~found
      <4>1. Top.stacked => Stacks(Top)
        BY <1>2, <1>3 DEF Stacks
      <4>2. Stacked(stack) <=> Stacked(Front(stack)) \/ Stacks(Top)
        BY <1>3, Popped
      <4> QED
        BY <3>1, <4>1, <4>2
    <3>4. unseen' = unseen + Top.inner + Top.made - (IF Top.stacked THEN 0 ELSE q)
      BY <1>1, <1>2, <2>2, CallsAre
    <3> HIDE DEF found
    <3>5. /\ reported' \in Int /\ unseen' \in Int
          /\ have - reported' - unseen' = 0
      <4> DEFINE m == Top.made
                 i == Top.inner
      <4>3. m \in Nat /\ i \in Nat /\ have - reported - unseen = m + i
        BY <1>3, <3>1, <3>2
      <4>1. CASE found
        <5>1. reported' = reported + q /\ unseen' = unseen + Top.inner + Top.made - q
          BY <1>2, <3>3, <3>4, <4>1
        <5> QED
          <6>1. reported' = reported + q /\ unseen' = unseen + i + m - q
            BY <5>1
          <6> HIDE DEF m, i
          <6> QED
            BY ONLY <1>11, <3>1, <4>3, <6>1
      <4>2. CASE ~found
        <5>1. reported' = reported /\ unseen' = unseen + Top.inner + Top.made - 0
          BY <1>2, <3>4, <4>2
        <5> QED
          <6>1. reported' = reported /\ unseen' = unseen + i + m - 0
            BY <5>1
          <6> HIDE DEF m, i
          <6> QED
            BY ONLY <3>1, <4>3, <6>1
      <4> QED
        BY <4>1, <4>2
    <3> QED
      BY <1>2, <1>5, <1>6, <2>2, <3>5 DEF Behind
  <2> QED
    BY <2>1, <2>2
<1>13. Harvested'
  <2>1. Reportable' = 0 /\ Reportable = 0
    BY <1>2, <1>5 DEF Reportable
  <2> QED
    BY <1>1, <1>2, <2>1 DEF Harvested, HandHarvestTrue
<1> QED
  BY <1>5, <1>8, <1>10, <1>12, <1>13 DEF IInv

\* The dino's item has been added.
LEMMA AddReturnsDinoKeeps ==
  ASSUME IInv, AddReturnsDino
  PROVE  IInv'
<1>1. StackOK /\ FlagsTell /\ Conserved /\ Behind /\ Harvested
  BY DEF IInv
<1>2. /\ InAdd /\ Top.inv = "dino" /\ stack' = Returned
      /\ dino' = (IF Top.fresh /\ oi["lastUpdatedItem"] THEN dino + Top.q ELSE dino)
      /\ oi' = Set(DinoFlags, FALSE)
      /\ have' = have /\ reported' = reported /\ hand' = hand
      /\ asked' = asked /\ dinoAsked' = dinoAsked /\ harvested' = harvested
      /\ unseen' = unseen
  BY DEF AddReturnsDino, counts
<1>3. /\ stack # << >> /\ Top = Last(stack) /\ IsAdd(Top) /\ Top.call = "AddItem"
      /\ stack \in Seq(Frame) /\ Top.q \in Nat
      /\ Top.left \in Nat /\ LeftAll(Front(stack)) \in Nat /\ MadeAll(Front(stack)) \in Nat
      /\ LeftAll(stack) = LeftAll(Front(stack)) + Top.left
      /\ MadeAll(stack) = MadeAll(Front(stack)) + MadeOf(Top)
  BY <1>1, <1>2, TopFields DEF StackOK
<1>4. ~Stacked(stack) /\ ~Rearranging(stack)
  BY <1>1, <1>2, TopTells
<1>5. /\ oi' \in [Flags -> BOOLEAN]
      /\ ~oi'["onDino"] /\ ~oi'["lastUpdatedItem"]
      /\ \A f \in Flags \ DinoFlags : oi'[f] = oi[f]
  <2>1. oi \in [Flags -> BOOLEAN]
    BY <1>1 DEF FlagsTell
  <2>2. /\ Set(DinoFlags, FALSE) \in [Flags -> BOOLEAN]
        /\ \A f \in Flags : Set(DinoFlags, FALSE)[f] = IF f \in DinoFlags THEN FALSE ELSE oi[f]
    BY <2>1, FlagValues
  <2> QED
    BY <1>2, <2>2 DEF Flags, DinoFlags
<1>6. ~oi["inAddItem"] /\ ~oi["needharvest"]
  BY <1>1, <1>2 DEF FlagsTell
\* What the call reports is the most it might report; those around it may place what is
\* left to them.
<1>7. /\ dino \in Nat /\ dinoAsked \in Nat /\ dino' \in Nat
      /\ dino' + (IF Top.fresh THEN LeftAll(Front(stack)) ELSE 0) <= dinoAsked
  <2>1. dino \in Nat /\ dinoAsked \in Nat /\ dino + Reportable <= dinoAsked
    BY <1>1 DEF Harvested, Conserved
  <2>2. CASE Top.fresh /\ oi["lastUpdatedItem"]
    <3>1. Reportable = LeftAll(Front(stack)) + Top.q /\ dino' = dino + Top.q
      BY <1>2, <2>2 DEF Reportable
    <3>2. LeftAll(Front(stack)) \in Nat /\ Top.q \in Nat
      BY <1>3
    <3>3. dino' \in Nat /\ dino' + LeftAll(Front(stack)) <= dinoAsked
      BY ONLY <2>1, <3>1, <3>2
    <3> QED
      BY <2>1, <2>2, <3>3
  <2>3. CASE Top.fresh /\ ~oi["lastUpdatedItem"]
    <3>1. dino' = dino /\ (\/ Reportable = LeftAll(Front(stack)) + Top.q
                           \/ Reportable = LeftAll(Front(stack)) + Top.left)
      BY <1>2, <2>3 DEF Reportable
    <3>2. dino' + LeftAll(Front(stack)) <= dinoAsked
      BY ONLY <1>3, <2>1, <3>1
    <3> QED
      BY <2>1, <2>3, <3>1, <3>2
  <2>4. CASE ~Top.fresh
    <3>1. Reportable = 0 /\ dino' = dino
      BY <1>2, <2>4 DEF Reportable
    <3> QED
      BY <2>1, <2>4, <3>1
  <2> QED
    BY <2>2, <2>3, <2>4
<1>8. MadeOf(Top) = 0 /\ MadeAll(stack) = MadeAll(Front(stack))
  BY <1>2, <1>3 DEF MadeOf
<1>9. CASE Front(stack) # << >> /\ IsAdd(Last(Front(stack)))
  <2>1. /\ StackOK' /\ SameCalls /\ InAdd'
        /\ Top'.inv = Top.inv /\ Top'.fresh = Top.fresh
        /\ LeftAll(stack') = LeftAll(Front(stack))
        /\ LeftAll(Front(stack')) \in Nat /\ Top'.left \in Nat
        /\ LeftAll(Front(stack)) = LeftAll(Front(stack')) + Top'.left
        /\ MadeAll(stack') = MadeAll(stack)
        /\ Stacked(stack') <=> Stacked(stack)
    BY <1>1, <1>2, <1>9, ReturnsIn
  <2>2. FlagsTell'
    BY <1>1, <1>2, <1>5, <1>6, <2>1 DEF FlagsTell, SameCalls, Flags, DinoFlags
  <2>3. Conserved'
    <3>1. /\ LeftAll(stack) \in Nat /\ LeftAll(stack') \in Nat
          /\ LeftAll(stack') <= LeftAll(stack)
      BY <1>3, <2>1
    <3> QED
      BY <1>1, <1>2, <2>1, <3>1, LessPlaced
  <2>4. Behind'
    BY <1>1, <1>2, <1>4, <2>1 DEF Behind, SameCalls
  <2>5. Reportable' = IF Top.fresh THEN LeftAll(Front(stack)) ELSE 0
    BY <1>2, <1>5, <2>1 DEF Reportable
  <2>6. Harvested'
    BY <1>1, <1>2, <1>7, <2>5 DEF Harvested, HandHarvestTrue
  <2> QED
    BY <2>1, <2>2, <2>3, <2>4, <2>6 DEF IInv
<1>10. CASE ~(Front(stack) # << >> /\ IsAdd(Last(Front(stack))))
  <2>1. /\ StackOK' /\ ~InAdd' /\ stack' = Front(stack)
        /\ LeftAll(stack') = 0 /\ MadeAll(stack') = 0 /\ ~Stacked(stack')
        /\ Rearranging(stack) <=> Rearranging(stack') \/ Rearranges(Top)
        /\ InFrom(stack) <=> InFrom(stack') \/ Top.call = "TransferFrom"
        /\ InAll(stack) <=> InAll(stack') \/ Top.call = "TransferAll"
        /\ Rearranging(stack') => stack'[1] = stack[1]
    BY <1>1, <1>2, <1>3, <1>10, ReturnsOut
  <2>2. SameCalls
    BY <1>3, <1>4, <2>1 DEF SameCalls, Rearranges
  <2>3. FlagsTell'
    BY <1>1, <1>2, <1>5, <1>6, <2>1, <2>2 DEF FlagsTell, SameCalls, Flags, DinoFlags
  <2>4. Conserved'
    <3>1. /\ LeftAll(stack) \in Nat /\ LeftAll(stack') \in Nat
          /\ LeftAll(stack') <= LeftAll(stack)
      BY <1>3, <2>1
    <3> QED
      BY <1>1, <1>2, <2>2, <3>1, LessPlaced
  <2>5. Behind'
    BY <1>1, <1>2, <1>4, <1>8, <2>1, <2>2 DEF Behind, SameCalls
  <2>6. Harvested'
    <3>1. Reportable' = 0 /\ LeftAll(Front(stack)) = 0
      BY <2>1 DEF Reportable
    <3> QED
      BY <1>1, <1>2, <1>7, <3>1 DEF Harvested, HandHarvestTrue
  <2> QED
    BY <2>1, <2>3, <2>4, <2>5, <2>6 DEF IInv
<1> QED
  BY <1>9, <1>10

\* What a client's call stands above.
LEMMA BelowClient ==
  ASSUME StackOK, ~InAdd, stack # << >>
  PROVE  /\ Top = Last(stack) /\ Top \in Transfer \cup Rearrangement
         /\ ~InFrom(Front(stack)) /\ ~Rearranging(Front(stack))
         /\ Top.call # "TransferFrom" => Front(stack) = << >> /\ Len(stack) = 1
         /\ Top = stack[Len(stack)]
<1>1. /\ stack \in Seq(Frame) /\ Shape(stack) /\ Top = Last(stack) /\ Top \in Frame
      /\ Len(stack) \in Nat \ {0} /\ Top = stack[Len(stack)]
      /\ Front(stack) \in Seq(Frame) /\ Len(Front(stack)) = Len(stack) - 1
      /\ \A i \in 1 .. Len(stack) - 1 : Front(stack)[i] = stack[i]
  BY FrontAndLast DEF StackOK, Top
<1>2. Top \in Transfer \cup Rearrangement
  BY <1>1 DEF InAdd, Frame, Added
<1>3. ASSUME NEW i \in 1 .. Len(Front(stack))
      PROVE  /\ Front(stack)[i].call = "TransferAll" /\ Top.call = "TransferFrom"
  <2>1. /\ i \in 1 .. Len(stack) /\ Len(stack) \in 1 .. Len(stack) /\ i < Len(stack)
        /\ Front(stack)[i] = stack[i]
    BY <1>1
  <2>2. Above(stack[i], Top)
    BY <1>1, <2>1 DEF Shape
  <2> QED
    BY <2>1, <2>2 DEF Above, IsAdd, InAdd
<1>4. ~InFrom(Front(stack)) /\ ~Rearranging(Front(stack))
  BY <1>3 DEF InFrom, Rearranging, Rearranges
<1>5. ASSUME Top.call # "TransferFrom" PROVE Front(stack) = << >> /\ Len(stack) = 1
  <2>1. Len(Front(stack)) = 0
    <3>1. CASE Len(Front(stack)) # 0
      <4>1. 1 \in 1 .. Len(Front(stack))
        BY <1>1, <3>1
      <4> QED
        BY <1>3, <1>5, <4>1
    <3> QED
      BY <3>1
  <2>2. Front(stack) = << >>
    BY <1>1, <2>1, EmptySeq
  <2> QED
    BY <1>1, <2>1, <2>2
<1> QED
  BY <1>1, <1>2, <1>4, <1>5

\* A client's call begins.
LEMMA CallKeeps ==
  ASSUME IInv, NEW f \in Transfer \cup Rearrangement, Call(f),
         \/ Top.call = "none"
         \/ Top.call = "TransferAll" /\ f.call = "TransferFrom",
         Rearranges(f) => f.units = have
  PROVE  IInv'
<1>1. StackOK /\ FlagsTell /\ Conserved /\ Behind /\ Harvested
  BY DEF IInv
<1>2. /\ Len(stack) < MaxDepth /\ stack' = Append(stack, f)
      /\ oi' = Set({FlagOf(f.call)}, TRUE)
      /\ have' = have /\ reported' = reported /\ hand' = hand /\ dino' = dino
      /\ asked' = asked /\ dinoAsked' = dinoAsked /\ harvested' = harvested
      /\ unseen' = unseen
  BY DEF Call, counts
<1>3. /\ ~InAdd /\ ~IsAdd(f) /\ f \in Frame
      /\ f.call \in {"TransferFrom", "TransferAll", "Split", "Merge"}
  BY DEF InAdd, IsAdd, Frame, Transfer, Rearrangement
<1>4. stack # << >> => Top = Last(stack) /\ Len(stack) = 1 /\ Top.call = "TransferAll"
                       /\ Top = stack[Len(stack)] /\ f.call = "TransferFrom"
  <2>1. SUFFICES ASSUME stack # << >>
                 PROVE  /\ Top = Last(stack) /\ Len(stack) = 1 /\ Top.call = "TransferAll"
                        /\ Top = stack[Len(stack)] /\ f.call = "TransferFrom"
    OBVIOUS
  <2>2. Top.call # "none" /\ (Top.call # "TransferFrom" => Len(stack) = 1)
        /\ Top = Last(stack) /\ Top = stack[Len(stack)]
    BY <1>1, <1>3, <2>1, BelowClient DEF Transfer, Rearrangement
  <2> QED
    BY <2>2
<1>5. stack = << >> => 1 .. Len(stack) = {}
  BY EmptySeq
<1>6. Pushable(stack, f)
  <2>1. ASSUME NEW i \in 1 .. Len(stack) PROVE Above(stack[i], f)
    <3>1. stack # << >> /\ stack[i] = Top
      BY <1>4, <1>5
    <3> QED
      BY <1>3, <1>4, <3>1 DEF Above, IsAdd, Rearranges
  <2>2. stack # << >> => Room(Last(stack), f)
    BY <1>4 DEF Room, IsAdd
  <2> QED
    BY <1>3, <2>1, <2>2 DEF Pushable, Fits
<1>7. /\ stack' \in Seq(Frame) /\ stack' # << >> /\ Len(stack') = Len(stack) + 1
      /\ Last(stack') = f /\ Front(stack') = stack
      /\ Shape(stack') /\ Placing(stack')
      /\ Rearranging(stack') <=> Rearranging(stack) \/ Rearranges(f)
      /\ InFrom(stack') <=> InFrom(stack) \/ f.call = "TransferFrom"
      /\ InAll(stack') <=> InAll(stack) \/ f.call = "TransferAll"
      /\ Stacked(stack') <=> Stacked(stack) \/ Stacks(f)
  BY <1>1, <1>2, <1>3, <1>6, Pushed DEF StackOK
<1>8. StackOK'
  <2>1. Len(stack') <= MaxDepth
    BY <1>1, <1>2, <1>7, LenProperties, BoundsAssumption DEF StackOK
  <2> QED
    BY <1>7, <2>1 DEF StackOK
<1>9. Top' = f /\ ~InAdd'
  BY <1>3, <1>7 DEF Top, InAdd, IsAdd
<1>10. /\ LeftAll(stack) = 0 /\ MadeAll(stack) = 0 /\ ~Stacked(stack)
       /\ ~Rearranging(stack)
  BY <1>1, <1>3, TopTells, <1>4, <1>5 DEF Rearranging, Rearranges
<1>11. LeftAll(stack') = 0 /\ MadeAll(stack') = 0 /\ ~Stacked(stack')
  <2>1. /\ LeftAll(stack') = LeftAll(stack) + LeftOf(f)
        /\ MadeAll(stack') = MadeAll(stack) + MadeOf(f)
    BY <1>1, <1>2, <1>3, SumsOfAppend DEF StackOK
  <2>2. LeftOf(f) = 0 /\ MadeOf(f) = 0 /\ ~Stacks(f)
    BY <1>3 DEF LeftOf, MadeOf, Stacks, IsAdd
  <2> QED
    BY <1>7, <1>10, <2>1, <2>2
<1>12. /\ oi' \in [Flags -> BOOLEAN] /\ oi'[FlagOf(f.call)]
       /\ \A g \in Flags \ {FlagOf(f.call)} : oi'[g] = oi[g]
  <2>1. oi \in [Flags -> BOOLEAN]
    BY <1>1 DEF FlagsTell
  <2>2. FlagOf(f.call) \in Flags
    BY <1>3 DEF FlagOf, Flags
  <2>3. /\ Set({FlagOf(f.call)}, TRUE) \in [Flags -> BOOLEAN]
        /\ \A g \in Flags : Set({FlagOf(f.call)}, TRUE)[g] =
             IF g \in {FlagOf(f.call)} THEN TRUE ELSE oi[g]
    BY <2>1 DEF Set
  <2> QED
    BY <1>2, <2>2, <2>3
<1>13. /\ ~oi["inAddItem"] /\ ~oi["needharvest"] /\ ~oi["onDino"] /\ ~oi["lastUpdatedItem"]
  BY <1>1, <1>3 DEF FlagsTell
<1>14. FlagsTell'
  <2>1. CASE f.call = "TransferFrom"
    <3>1. FlagOf(f.call) = "inTransferFrom"
      BY <2>1 DEF FlagOf
    <3> QED
      BY <1>1, <1>7, <1>9, <1>12, <1>13, <2>1, <3>1 DEF FlagsTell, Flags, Rearranges
  <2>2. CASE f.call = "TransferAll"
    <3>1. FlagOf(f.call) = "inTransferAll"
      BY <2>2 DEF FlagOf
    <3> QED
      BY <1>1, <1>7, <1>9, <1>12, <1>13, <2>2, <3>1 DEF FlagsTell, Flags, Rearranges
  <2>3. CASE f.call \in {"Split", "Merge"}
    <3>1. FlagOf(f.call) = "skipAddRemoveUpdateItems"
      BY <2>3 DEF FlagOf
    <3> QED
      BY <1>1, <1>7, <1>9, <1>12, <1>13, <2>3, <3>1 DEF FlagsTell, Flags, Rearranges
  <2> QED
    BY <1>3, <2>1, <2>2, <2>3
<1>15. Rearranges(f) => stack'[1] = f
  <2>1. SUFFICES ASSUME Rearranges(f) PROVE stack'[1] = f
    OBVIOUS
  <2>2. stack = << >> /\ Len(stack) = 0
    BY <1>4, <2>1, EmptySeq DEF Rearranges
  <2>3. Len(stack') = 1 /\ Last(stack') = stack'[Len(stack')]
    BY <1>7, <2>2, FrontAndLast
  <2> QED
    BY <1>7, <2>3
<1>16. /\ asked \in Nat /\ have \in Nat /\ harvested \in Nat /\ have <= asked
  BY <1>1, <1>10, BoundsAssumption DEF Conserved, Units
<1>17. Conserved'
  BY <1>1, <1>2, <1>7, <1>10, <1>11, <1>15, <1>16 DEF Conserved
<1>18. Behind'
  <2>1. reported \in Int /\ unseen \in Int /\ have - reported - unseen = 0
    BY <1>1, <1>10 DEF Behind
  <2>2. have - reported = unseen
    BY <1>16, <2>1
  <2> QED
    BY <1>2, <1>7, <1>10, <1>11, <1>15, <2>1, <2>2 DEF Behind
<1>19. Harvested'
  <2>1. Reportable' = 0 /\ Reportable = 0
    BY <1>3, <1>9 DEF Reportable
  <2> QED
    BY <1>1, <1>2, <2>1 DEF Harvested, HandHarvestTrue
<1> QED
  BY <1>8, <1>14, <1>17, <1>18, <1>19 DEF IInv

\* A client's call returns.
LEMMA ReturnKeeps ==
  ASSUME IInv, NEW call \in {"TransferFrom", "TransferAll", "Split", "Merge"}, Return(call),
         call \in {"Split", "Merge"} => have = Top.units
  PROVE  IInv'
<1>1. StackOK /\ FlagsTell /\ Conserved /\ Behind /\ Harvested
  BY DEF IInv
<1>2. /\ Top.call = call /\ stack' = Returned /\ oi' = Set({FlagOf(call)}, FALSE)
      /\ have' = have /\ reported' = reported /\ hand' = hand /\ dino' = dino
      /\ asked' = asked /\ dinoAsked' = dinoAsked /\ harvested' = harvested
      /\ unseen' = unseen
  BY DEF Return, counts
<1>3. ~InAdd /\ stack # << >>
  BY <1>2 DEF InAdd, Top
<1>4. /\ StackOK' /\ ~InAdd' /\ stack' = Front(stack)
      /\ LeftAll(stack') = 0 /\ MadeAll(stack') = 0 /\ ~Stacked(stack')
      /\ Rearranging(stack) <=> Rearranging(stack') \/ Rearranges(Top)
      /\ InFrom(stack) <=> InFrom(stack') \/ Top.call = "TransferFrom"
      /\ InAll(stack) <=> InAll(stack') \/ Top.call = "TransferAll"
  BY <1>1, <1>2, <1>3, ReturnsOut
<1>5. /\ ~InFrom(stack') /\ ~Rearranging(stack')
      /\ Top.call # "TransferFrom" => ~InAll(stack')
  <2>1. /\ ~InFrom(Front(stack)) /\ ~Rearranging(Front(stack))
        /\ Top.call # "TransferFrom" => Front(stack) = << >>
    BY <1>1, <1>3, BelowClient
  <2>2. ASSUME Front(stack) = << >> PROVE ~InAll(stack')
    <3>1. 1 .. Len(stack') = {}
      BY <1>4, <2>2, EmptySeq
    <3> QED
      BY <3>1 DEF InAll
  <2> QED
    BY <1>4, <2>1, <2>2
<1>6. /\ oi' \in [Flags -> BOOLEAN] /\ ~oi'[FlagOf(call)]
      /\ \A g \in Flags \ {FlagOf(call)} : oi'[g] = oi[g]
  <2>1. oi \in [Flags -> BOOLEAN]
    BY <1>1 DEF FlagsTell
  <2>2. FlagOf(call) \in Flags
    BY DEF FlagOf, Flags
  <2>3. /\ Set({FlagOf(call)}, FALSE) \in [Flags -> BOOLEAN]
        /\ \A g \in Flags : Set({FlagOf(call)}, FALSE)[g] =
             IF g \in {FlagOf(call)} THEN FALSE ELSE oi[g]
    BY <2>1, FlagValues
  <2> QED
    BY <1>2, <2>2, <2>3
<1>7. /\ ~oi["inAddItem"] /\ ~oi["needharvest"] /\ ~oi["onDino"] /\ ~oi["lastUpdatedItem"]
  BY <1>1, <1>3 DEF FlagsTell
<1>8. FlagsTell'
  <2>1. CASE call = "TransferFrom"
    <3>1. FlagOf(call) = "inTransferFrom"
      BY <2>1 DEF FlagOf
    <3> QED
      BY <1>1, <1>2, <1>4, <1>5, <1>6, <1>7, <2>1, <3>1 DEF FlagsTell, Flags, Rearranges
  <2>2. CASE call = "TransferAll"
    <3>1. FlagOf(call) = "inTransferAll"
      BY <2>2 DEF FlagOf
    <3> QED
      BY <1>1, <1>2, <1>4, <1>5, <1>6, <1>7, <2>2, <3>1 DEF FlagsTell, Flags, Rearranges
  <2>3. CASE call \in {"Split", "Merge"}
    <3>1. FlagOf(call) = "skipAddRemoveUpdateItems"
      BY <2>3 DEF FlagOf
    <3> QED
      BY <1>1, <1>2, <1>4, <1>5, <1>6, <1>7, <2>3, <3>1 DEF FlagsTell, Flags, Rearranges
  <2> QED
    BY <2>1, <2>2, <2>3
<1>9. LeftAll(stack) = 0 /\ MadeAll(stack) = 0
      /\ (Rearranging(stack) <=> Top.call \in {"Split", "Merge"})
      /\ (Rearranging(stack) => stack[1] = Top)
  BY <1>1, <1>3, TopTells
<1>10. asked \in Nat /\ have \in Nat /\ harvested \in Nat /\ have <= asked
  <2>1. asked \in Nat /\ have \in Nat /\ harvested \in Nat
    BY <1>1, BoundsAssumption DEF Conserved, Units
  <2>2. CASE Rearranging(stack)
    BY <1>1, <1>2, <1>9, <2>1, <2>2 DEF Conserved
  <2>3. CASE ~Rearranging(stack)
    BY <1>1, <1>9, <2>1, <2>3 DEF Conserved
  <2> QED
    BY <2>1, <2>2, <2>3
<1>11. Conserved'
  BY <1>1, <1>2, <1>4, <1>5, <1>10 DEF Conserved
<1>12. Behind'
  <2>1. reported \in Int /\ unseen \in Int
    BY <1>1 DEF Behind
  <2>2. have - reported - unseen = 0
    <3>1. CASE Rearranging(stack)
      <4>1. have - reported = unseen
        BY <1>1, <1>2, <1>9, <3>1 DEF Behind
      <4> QED
        BY <1>10, <2>1, <4>1
    <3>2. CASE ~Rearranging(stack)
      BY <1>1, <1>9, <3>2 DEF Behind
    <3> QED
      BY <3>1, <3>2
  <2> QED
    BY <1>2, <1>4, <1>5, <2>1, <2>2 DEF Behind
<1>13. Harvested'
  <2>1. Reportable' = 0 /\ Reportable = 0
    BY <1>3, <1>4 DEF Reportable
  <2> QED
    BY <1>1, <1>2, <2>1 DEF Harvested, HandHarvestTrue
<1> QED
  BY <1>4, <1>8, <1>11, <1>12, <1>13 DEF IInv

\* There is no more in the inventory than was added.
LEMMA HaveBounded ==
  ASSUME StackOK, Conserved
  PROVE  have <= asked /\ have \in Units
<1>1. asked \in Nat /\ asked <= MaxUnits /\ have \in Nat
  BY BoundsAssumption DEF Conserved, Units
<1>2. have <= asked
  <2>1. CASE InAdd
    <3>1. LeftAll(stack) \in Nat
      <4>1. /\ LeftAll(Front(stack)) \in Nat /\ Top.left \in Nat
            /\ LeftAll(stack) = LeftAll(Front(stack)) + Top.left
        BY <2>1, TopFields
      <4> QED
        BY <4>1
    <3>2. CASE Rearranging(stack)
      <4>1. /\ stack[1].units \in Nat /\ have + LeftAll(stack) <= stack[1].units
            /\ stack[1].units <= asked
        BY <3>2, UnitsTaken DEF Conserved
      <4> QED
        BY ONLY <1>1, <3>1, <4>1
    <3>3. CASE ~Rearranging(stack)
      <4>1. have + LeftAll(stack) <= asked
        BY <3>3 DEF Conserved
      <4> QED
        BY ONLY <1>1, <3>1, <4>1
    <3> QED
      BY <3>2, <3>3
  <2>2. CASE ~InAdd
    <3>1. LeftAll(stack) = 0
      BY <2>2, TopTells
    <3>2. CASE Rearranging(stack)
      <4>1. /\ stack[1].units \in Nat /\ have + 0 <= stack[1].units
            /\ stack[1].units <= asked
        BY <3>1, <3>2, UnitsTaken DEF Conserved
      <4> QED
        BY ONLY <1>1, <4>1
    <3>3. CASE ~Rearranging(stack)
      <4>1. have + 0 <= asked
        BY <3>1, <3>3 DEF Conserved
      <4> QED
        BY ONLY <1>1, <4>1
    <3> QED
      BY <3>2, <3>3
  <2> QED
    BY <2>1, <2>2
<1> QED
  BY <1>1, <1>2, BoundsAssumption DEF Units

\* What is left to report of the harvest is an amount.
LEMMA ReportableIsNat ==
  ASSUME StackOK
  PROVE  Reportable \in Nat
<1>1. CASE InAdd
  <2>1. /\ LeftAll(Front(stack)) \in Nat /\ Top.left \in Nat /\ Top.q \in Nat
    BY <1>1, TopFields
  <2>2. \/ Reportable = LeftAll(Front(stack)) + Top.q
        \/ Reportable = LeftAll(Front(stack)) + Top.left
        \/ Reportable = 0
    BY DEF Reportable
  <2> QED
    BY ONLY <2>1, <2>2
<1>2. CASE ~InAdd
  BY <1>2 DEF Reportable
<1> QED
  BY <1>1, <1>2

\* The client's calls and their returns.
LEMMA ClientKeeps ==
  ASSUME IInv, TransferFrom \/ TransferAll \/ Split \/ Merge
  PROVE  IInv'
<1>1. have \in Units
  BY HaveBounded DEF IInv
<1>2. CASE TransferFrom
  <2>1. CASE Top.call \in {"none", "TransferAll"} /\ Call([call |-> "TransferFrom"])
    <3> DEFINE f == [call |-> "TransferFrom"]
    <3>1. f \in Transfer \cup Rearrangement /\ f.call = "TransferFrom" /\ ~Rearranges(f)
      BY DEF Transfer, Rearranges
    <3> HIDE DEF f
    <3> QED
      BY <2>1, <3>1, CallKeeps DEF f
  <2>2. CASE Return("TransferFrom")
    BY <2>2, ReturnKeeps
  <2> QED
    BY <1>2, <2>1, <2>2 DEF TransferFrom
<1>3. CASE TransferAll
  <2>1. CASE Top.call = "none" /\ Call([call |-> "TransferAll"])
    <3> DEFINE f == [call |-> "TransferAll"]
    <3>1. f \in Transfer \cup Rearrangement /\ ~Rearranges(f)
      BY DEF Transfer, Rearranges
    <3> HIDE DEF f
    <3> QED
      BY <2>1, <3>1, CallKeeps DEF f
  <2>2. CASE Return("TransferAll")
    BY <2>2, ReturnKeeps
  <2> QED
    BY <1>3, <2>1, <2>2 DEF TransferAll
<1>4. CASE Split
  <2>1. CASE Top.call = "none" /\ Call([call |-> "Split", units |-> have])
    <3> DEFINE f == [call |-> "Split", units |-> have]
    <3>1. f \in Transfer \cup Rearrangement /\ f.units = have
      BY <1>1 DEF Rearrangement
    <3> HIDE DEF f
    <3> QED
      BY <2>1, <3>1, CallKeeps DEF f
  <2>2. CASE Top.call = "Split" /\ have = Top.units /\ Return("Split")
    BY <2>2, ReturnKeeps
  <2> QED
    BY <1>4, <2>1, <2>2 DEF Split
<1>5. CASE Merge
  <2>1. CASE Top.call = "none" /\ Call([call |-> "Merge", units |-> have])
    <3> DEFINE f == [call |-> "Merge", units |-> have]
    <3>1. f \in Transfer \cup Rearrangement /\ f.units = have
      BY <1>1 DEF Rearrangement
    <3> HIDE DEF f
    <3> QED
      BY <2>1, <3>1, CallKeeps DEF f
  <2>2. CASE Top.call = "Merge" /\ have = Top.units /\ Return("Merge")
    BY <2>2, ReturnKeeps
  <2> QED
    BY <1>5, <2>1, <2>2 DEF Merge
<1> QED
  BY <1>2, <1>3, <1>4, <1>5

\* Every step keeps the invariant.
LEMMA NextKeeps == IInv /\ [Next]_vars => IInv'
<1> SUFFICES ASSUME IInv, [Next]_vars PROVE IInv'
  OBVIOUS
<1>1. ASSUME NEW inv \in {"player", "dino"}, NEW q \in 1 .. MaxUnits,
             NEW fresh \in BOOLEAN, AddItem(inv, q, fresh)
      PROVE  IInv'
  BY <1>1, AddKeeps
<1>2. ASSUME NEW n \in 1 .. MaxUnits,
             \/ Stack(n) \/ RemoveItem(n) \/ RemoveRefused(n)
             \/ Change(n) \/ Change(-n)
      PROVE  IInv'
  <2>1. n \in Int /\ -n \in Int
    BY BoundsAssumption
  <2>2. CASE Stack(n)
    BY <2>2, StackKeeps
  <2>3. CASE RemoveItem(n)
    BY <2>3, RemoveItemKeeps
  <2>6. CASE RemoveRefused(n)
    BY <2>6, RemoveRefusedKeeps
  <2>4. CASE Change(n)
    BY <2>1, <2>4, ChangeKeeps
  <2>5. CASE Change(-n)
    BY <2>1, <2>5, ChangeKeeps
  <2> QED
    BY <1>2, <2>2, <2>3, <2>4, <2>5, <2>6
<1>3. ASSUME NEW q \in Units, AddReturns(q) PROVE IInv'
  BY <1>3, AddReturnsKeeps
<1>4. CASE NewItem
  BY <1>4, NewItemKeeps
<1>5. CASE AddReturnsPassed
  BY <1>5, AddReturnsPassedKeeps
<1>6. CASE AddReturnsDino
  BY <1>6, AddReturnsDinoKeeps
<1>7. CASE TransferFrom \/ TransferAll \/ Split \/ Merge
  BY <1>7, ClientKeeps
<1>8. CASE UNCHANGED vars
  <2>1. /\ stack' = stack /\ oi' = oi /\ have' = have /\ reported' = reported
        /\ hand' = hand /\ dino' = dino /\ asked' = asked /\ dinoAsked' = dinoAsked
        /\ harvested' = harvested /\ unseen' = unseen
    BY <1>8 DEF vars, counts
  <2>2. Top' = Top /\ InAdd' = InAdd
    BY <2>1 DEF Top, InAdd
  <2>3. StackOK'
    BY <2>1 DEF IInv, StackOK
  <2>4. FlagsTell'
    BY <2>1, <2>2 DEF IInv, FlagsTell
  <2>5. Conserved' /\ Behind'
    BY <2>1 DEF IInv, Conserved, Behind
  <2>6. Harvested'
    BY <2>1, <2>2 DEF IInv, Harvested, HandHarvestTrue, Reportable
  <2> QED
    BY <2>3, <2>4, <2>5, <2>6 DEF IInv
<1> QED
  BY <1>1, <1>2, <1>3, <1>4, <1>5, <1>6, <1>7, <1>8 DEF Next

\* The inductive invariant holds throughout: the stack of calls nests as the program
\* nests them, and every unit is accounted for.
THEOREM Invariance == Spec => []IInv
  BY InitOK, NextKeeps, PTL DEF Spec

-----------------------------------------------------------------------------
(* The properties.                                                          *)

\* The flags tell the calls that are under way.
LEMMA FlagsFollow ==
  ASSUME IInv
  PROVE  FlagsMatchStack
<1>1. StackOK /\ FlagsTell
  BY DEF IInv
<1>2. /\ stack \in Seq(Frame) /\ Shape(stack) /\ DOMAIN stack = 1 .. Len(stack)
      /\ Len(stack) \in Nat
  BY <1>1, LenProperties DEF StackOK
<1> DEFINE IsOwn(f) == f.call = "AddItem" /\ f.inv = "player" /\ ~f.passes
           FreshDino(f) == f.call = "AddItem" /\ f.inv = "dino" /\ f.fresh
           FreshOwn(f) == IsOwn(f) /\ f.fresh
\* The calls of AddItem are all for the item of the innermost.
<1>3. ASSUME NEW i \in DOMAIN stack, stack[i].call = "AddItem"
      PROVE  InAdd /\ Top.inv = stack[i].inv /\ Top.fresh = stack[i].fresh
  <2>1. InAdd /\ Len(stack) \in 1 .. Len(stack) /\ Top = stack[Len(stack)]
    <3>1. InAdd /\ stack # << >>
      BY <1>1, <1>2, <1>3, TopTells DEF IsAdd
    <3>2. Len(stack) \in Nat \ {0} /\ Last(stack) = stack[Len(stack)]
      BY <1>2, <3>1, FrontAndLast
    <3> QED
      BY <3>1, <3>2 DEF Top
  <2>2. CASE i = Len(stack)
    BY <2>1, <2>2
  <2>3. CASE i # Len(stack)
    <3>1. i \in 1 .. Len(stack) /\ i < Len(stack)
      BY <1>2, <2>3
    <3>2. Above(stack[i], Top)
      BY <1>2, <2>1, <3>1 DEF Shape
    <3> QED
      BY <1>3, <2>1, <3>2 DEF Above, IsAdd
  <2> QED
    BY <2>2, <2>3
\* One of the player's is the first.
<1>4. ASSUME InAdd, Top.inv = "player" PROVE \E i \in DOMAIN stack : IsOwn(stack[i])
  <2>1. stack # << >> /\ Top = Last(stack) /\ IsAdd(Top)
    BY <1>1, <1>4, TopFields
  <2>2. /\ Len(stack) \in Nat \ {0} /\ Top = stack[Len(stack)]
        /\ Len(stack) \in 1 .. Len(stack)
    <3>1. Len(stack) \in Nat \ {0} /\ Top = stack[Len(stack)]
      BY <1>2, <2>1, FrontAndLast
    <3> QED
      BY <3>1
  <2>3. CASE Top.passes
    <3>1. PICK i \in 1 .. Len(stack) : i < Len(stack) /\ Own(stack[i])
      BY <1>2, <2>1, <2>2, <2>3 DEF Shape
    <3> QED
      BY <1>2, <3>1 DEF Own, IsAdd
  <2>4. CASE ~Top.passes
    BY <1>2, <1>4, <2>1, <2>2, <2>4 DEF IsAdd
  <2> QED
    BY <2>3, <2>4
<1>5. ASSUME InAdd PROVE \E i \in DOMAIN stack : stack[i] = Top /\ Top.call = "AddItem"
  <2>1. stack # << >> /\ Top = Last(stack) /\ Top.call = "AddItem"
    BY <1>1, <1>5, TopFields
  <2>2. Len(stack) \in Nat \ {0} /\ Top = stack[Len(stack)]
    BY <1>2, <2>1, FrontAndLast
  <2>3. Len(stack) \in DOMAIN stack
    BY <1>2, <2>2
  <2> QED
    BY <2>1, <2>2, <2>3
<1>6. InAdd /\ Top.inv = "player" <=> \E i \in DOMAIN stack : IsOwn(stack[i])
  BY <1>3, <1>4
<1>7. InAdd /\ Top.inv = "player" /\ Top.fresh <=> \E i \in DOMAIN stack : FreshOwn(stack[i])
  BY <1>3, <1>4
<1>8. InAdd /\ Top.inv = "dino" /\ Top.fresh <=> \E i \in DOMAIN stack : FreshDino(stack[i])
  BY <1>3, <1>5
<1>9. InAdd => Top.inv \in {"player", "dino"}
  BY <1>1, TopFields
<1>10. /\ oi["inAddItem"] <=> \E i \in DOMAIN stack : IsOwn(stack[i])
       /\ oi["needharvest"] <=> /\ \E i \in DOMAIN stack : FreshOwn(stack[i])
                                /\ ~Calls({"TransferFrom", "Split", "Merge"})
       /\ oi["inTransferFrom"] <=> Calls({"TransferFrom"})
       /\ oi["inTransferAll"] <=> Calls({"TransferAll"})
       /\ oi["skipAddRemoveUpdateItems"] <=> Calls({"Split", "Merge"})
       /\ oi["onDino"] => \E i \in DOMAIN stack : FreshDino(stack[i])
       /\ oi["lastUpdatedItem"] => \/ \E i \in DOMAIN stack : IsOwn(stack[i])
                                   \/ \E i \in DOMAIN stack : FreshDino(stack[i])
  <2> HIDE DEF IsOwn, FreshOwn, FreshDino
  <2> QED
    BY <1>1, <1>6, <1>7, <1>8, <1>9, CallsAre DEF FlagsTell
<1> QED
  BY <1>10 DEF FlagsMatchStack

\* However the calls nest, the flags tell the calls that are under way, and every amount
\* has its type.
THEOREM FlagsTellCalls == Spec => []Inv
<1>1. IInv => Inv
  <2> SUFFICES ASSUME IInv PROVE Inv
    OBVIOUS
  <2>1. StackOK /\ FlagsTell /\ Conserved /\ Behind /\ Harvested
    BY DEF IInv
  <2>2. /\ asked \in Nat /\ asked <= MaxUnits /\ dinoAsked \in Nat /\ harvested \in Nat
        /\ have \in Nat /\ dinoAsked <= asked /\ harvested <= asked
    BY <2>1, BoundsAssumption DEF Conserved, Units
  <2>3. have <= asked
    BY <2>1, HaveBounded
  <2>4. Reportable \in Nat /\ dino \in Nat /\ dino + Reportable <= dinoAsked
    BY <2>1, ReportableIsNat DEF Harvested
  <2>5. dino <= dinoAsked
    BY ONLY <2>2, <2>4
  <2>6. {hand, dino, asked, dinoAsked, harvested} \subseteq Units /\ have \in Units
    <3>1. hand = harvested
      BY <2>1 DEF Harvested, HandHarvestTrue
    <3>2. \A n \in Nat : n <= asked => n \in Units
      BY <2>2, BoundsAssumption DEF Units
    <3>3. dino <= asked
      BY ONLY <2>2, <2>4, <2>5
    <3> QED
      BY <2>2, <2>3, <2>4, <3>1, <3>2, <3>3
  <2>7. TypeOK
    BY <2>1, <2>6 DEF TypeOK, StackOK, FlagsTell, Behind, Frame
  <2> QED
    BY <2>7, FlagsFollow DEF Inv
<1> QED
  BY <1>1, Invariance, PTL

\* What is reported as harvested is what was harvested, and the inventory messages tell
\* what the player has, but for new items that no message is about and removals that the
\* server refuses.
THEOREM Reports == Spec => []ReportsTrue
<1>1. IInv => ReportsTrue
  <2> SUFFICES ASSUME IInv PROVE ReportsTrue
    OBVIOUS
  <2>1. HandHarvestTrue
    BY DEF IInv, Harvested
  <2>2. DinoHarvestOnce
    <3>1. dino \in Nat /\ dinoAsked \in Nat /\ dino + Reportable <= dinoAsked
      BY DEF IInv, Harvested, Conserved
    <3>2. Reportable \in Nat
      BY ReportableIsNat DEF IInv
    <3> QED
      BY ONLY <3>1, <3>2 DEF DinoHarvestOnce
  <2>3. InventoryReplay
    <3>1. SUFFICES ASSUME stack = << >> PROVE have - reported = unseen
      BY DEF InventoryReplay
    <3>2. ~InAdd /\ ~Rearranging(stack)
      <4>1. 1 .. Len(stack) = {}
        BY <3>1, EmptySeq
      <4> QED
        BY <3>1, <4>1 DEF InAdd, Top, Rearranging
    <3>3. MadeAll(stack) = 0
      BY <3>2, TopTells DEF IInv
    <3>4. /\ have \in Nat /\ reported \in Int /\ unseen \in Int
          /\ have - reported - unseen = 0
      BY <3>2, <3>3 DEF IInv, Behind, Conserved
    <3> QED
      BY ONLY <3>4
  <2> QED
    BY <2>1, <2>2, <2>3 DEF ReportsTrue
<1> QED
  BY <1>1, Invariance, PTL

=============================================================================
