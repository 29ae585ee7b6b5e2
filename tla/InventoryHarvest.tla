--------------------------- MODULE InventoryHarvest ---------------------------
(***************************************************************************)
(* The hooks that report inventories and harvest                           *)
(* (M_inventory_and_harvest.cpp).  Calls of the server nest: a transfer    *)
(* adds items, adding an item may add it again in part, adding to a stack  *)
(* notifies of a new quantity.  The hooks tell each other what they are    *)
(* nested in by flags in the record of the player (M_online_players.h).    *)
(*                                                                         *)
(* The model has one player and one dino the player rides.  The stack is   *)
(* the stack of hooked calls; what the server does between them is any     *)
(* distribution of the units of an item over stacks, a new item and loss.  *)
(* Engrams, which no inventory message is about, are left out.             *)
(***************************************************************************)
EXTENDS Integers, Sequences, SequencesExt

CONSTANTS
  MaxUnits,   \* bound: the units the server ever adds
  MaxDepth    \* bound: the depth of the stack

ASSUME BoundsAssumption == MaxUnits \in Nat /\ MaxDepth \in Nat

VARIABLES
  stack,      \* the hooked calls, innermost last
  oi,         \* the flags of the player's record
  have,       \* units in the player's inventory
  reported,   \* the sum of the amounts in the inventory messages
  hand, dino, \* the sums of the amounts in the harvest messages
  asked, dinoAsked, \* units the server has added, of them fresh ones of the dino
  harvested,  \* units that were stacked on an item of the player by a harvest
  unseen      \* history: units in the inventory that the messages do not have: of new
              \* items that no message is about, and of items whose removal was
              \* reported and refused

counts == <<asked, dinoAsked, harvested, unseen>>
vars == <<stack, oi, have, reported, hand, dino, counts>>

Units == 0 .. MaxUnits
Added == [call : {"AddItem"}, inv : {"player", "dino"}, fresh : BOOLEAN,
          passes : BOOLEAN, q : Units, left : Units, made : Units,
          inner : Units, stacked : BOOLEAN]
Transfer == [call : {"TransferFrom", "TransferAll"}]
Rearrangement == [call : {"Split", "Merge"}, units : Units]

Flags == {"skipAddRemoveUpdateItems", "lastUpdatedItem", "inAddItem",
          "needharvest", "inTransferFrom", "inTransferAll", "onDino"}

TypeOK ==
  /\ stack \in Seq(Added \cup Transfer \cup Rearrangement)
  /\ Len(stack) <= MaxDepth
  /\ oi \in [Flags -> BOOLEAN]
  /\ have \in Units /\ reported \in Int /\ unseen \in Int
  /\ {hand, dino, asked, dinoAsked, harvested} \subseteq Units

-----------------------------------------------------------------------------

Calls(set) == \E i \in DOMAIN stack : stack[i].call \in set
Top == IF stack = <<>> THEN [call |-> "none"] ELSE Last(stack)
InAdd == Top.call = "AddItem"
Set(flags, b) == [f \in Flags |-> IF f \in flags THEN b ELSE oi[f]]
SetIf(flags, cond) == IF cond THEN Set(flags, TRUE) ELSE oi

Init ==
  /\ stack = <<>> /\ oi = [f \in Flags |-> FALSE]
  /\ have = 0 /\ reported = 0 /\ hand = 0 /\ dino = 0
  /\ asked = 0 /\ dinoAsked = 0 /\ harvested = 0 /\ unseen = 0

-----------------------------------------------------------------------------
(* AddItem: the hook up to the call of the server's function.               *)

\* Units that enter: at most what the calling AddItem still has to place, or
\* what a split or merge has taken out.
MayAdd(inv, q, fresh) ==
  CASE InAdd -> inv = Top.inv /\ fresh = Top.fresh /\ q <= Top.left
    [] Top.call \in {"Split", "Merge"} -> inv = "player" /\ q <= Top.units - have
    [] OTHER -> asked + q <= MaxUnits

Enter(inv, fresh) ==
  IF inv = "dino" THEN SetIf({"onDino"}, fresh)
  ELSE IF oi["inAddItem"] THEN oi
  ELSE [f \in Flags |->
         CASE f = "inAddItem" -> TRUE
           [] f = "lastUpdatedItem" -> FALSE
           [] f = "needharvest" ->
                \/ oi[f]
                \/ ~oi["skipAddRemoveUpdateItems"] /\ ~oi["inTransferFrom"] /\ fresh
           [] OTHER -> oi[f]]

AddItem(inv, q, fresh) ==
  /\ Len(stack) < MaxDepth /\ MayAdd(inv, q, fresh)
  /\ stack' = Append(
       IF InAdd THEN [stack EXCEPT ![Len(stack)].left = @ - q] ELSE stack,
       [call |-> "AddItem", inv |-> inv, fresh |-> fresh,
        passes |-> inv = "player" /\ oi["inAddItem"],
        q |-> q, left |-> q, made |-> 0, inner |-> 0, stacked |-> FALSE])
  /\ oi' = Enter(inv, fresh)
  /\ asked' = IF InAdd \/ Top.call \in {"Split", "Merge"} THEN asked ELSE asked + q
  /\ dinoAsked' = IF inv = "dino" /\ fresh /\ ~InAdd THEN dinoAsked + q ELSE dinoAsked
  /\ UNCHANGED <<have, reported, hand, dino, harvested, unseen>>

-----------------------------------------------------------------------------
(* NotifyItemQuantityUpdated, for an item of the player or of the dino.     *)

\* Mistake: the flag of a transfer of everything is not looked at.
NotifiedInTransfer(inv, n) ==
  IF inv = "dino"
  THEN /\ oi' = SetIf({"lastUpdatedItem"}, oi["onDino"])
       /\ UNCHANGED <<reported, hand>>
  ELSE IF oi["skipAddRemoveUpdateItems"] THEN UNCHANGED <<oi, reported, hand>>
  ELSE /\ reported' = reported + n
       /\ hand' = IF oi["needharvest"] THEN hand + n ELSE hand
       /\ oi' = SetIf({"lastUpdatedItem"}, oi["inAddItem"])

Notified(inv, n) ==
  IF inv = "dino"
  THEN /\ oi' = SetIf({"lastUpdatedItem"}, oi["onDino"])
       /\ UNCHANGED <<reported, hand>>
  ELSE IF oi["skipAddRemoveUpdateItems"] THEN UNCHANGED <<oi, reported, hand>>
  ELSE /\ reported' = reported + n
       /\ hand' = IF oi["needharvest"] /\ ~oi["inTransferAll"] THEN hand + n ELSE hand
       /\ oi' = SetIf({"lastUpdatedItem"}, oi["inAddItem"])

\* In AddItem: n units go onto an item that is there.
Stack(n) ==
  /\ InAdd /\ n <= Top.left
  /\ Top.inv = "player" => have > Top.made
  /\ stack' = [stack EXCEPT ![Len(stack)].left = @ - n, ![Len(stack)].stacked = TRUE]
  /\ have' = IF Top.inv = "player" THEN have + n ELSE have
  /\ Notified(Top.inv, n)
  /\ harvested' =
       IF Top.inv = "player" /\ Top.fresh
          /\ ~Calls({"TransferFrom", "TransferAll", "Split", "Merge"})
       THEN harvested + n ELSE harvested
  /\ UNCHANGED <<dino, asked, dinoAsked, unseen>>

\* Out of AddItem: an item grows or is used up in part.
Change(n) ==
  /\ ~InAdd /\ have + n >= 1 /\ have > 0
  /\ IF Top.call \in {"Split", "Merge"}
     THEN have + n <= Top.units /\ asked' = asked
     ELSE asked' = (IF n > 0 THEN asked + n ELSE asked) /\ asked' <= MaxUnits
  /\ have' = have + n
  /\ Notified("player", n)
  /\ UNCHANGED <<stack, dino, dinoAsked, harvested, unseen>>

-----------------------------------------------------------------------------
(* What the server does with the rest of an item, and the way back.         *)

\* The rest becomes a new item.  What is not placed when AddItem returns did
\* not fit.
NewItem ==
  /\ InAdd /\ Top.left > 0 /\ Top.made = 0
  /\ stack' = [stack EXCEPT ![Len(stack)].made = Top.left, ![Len(stack)].left = 0]
  /\ have' = IF Top.inv = "player" THEN have + Top.left ELSE have
  /\ UNCHANGED <<oi, reported, hand, dino, counts>>

\* The caller of the innermost call, told what an inner AddItem has placed.
Returned ==
  LET f == Last(stack)
      rest == Front(stack)
  IN  IF f.call = "AddItem" /\ rest # <<>> /\ Last(rest).call = "AddItem"
      THEN [rest EXCEPT ![Len(rest)].inner = @ + f.made + f.inner,
                        ![Len(rest)].stacked = @ \/ f.stacked]
      ELSE rest

AddFlags == {"inAddItem", "needharvest", "lastUpdatedItem"}

\* A call inside another one of the player: the hook is passed through.
AddReturnsPassed ==
  /\ InAdd /\ Top.passes
  /\ stack' = Returned
  /\ UNCHANGED <<oi, have, reported, hand, dino, counts>>

\* The player's item: it is found when the server has made a new one.  The
\* message has the quantity the server left in the item's description, q.
AddReturns(q) ==
  /\ InAdd /\ Top.inv = "player" /\ ~Top.passes /\ q <= Top.q
  /\ LET found == Top.made > 0 /\ ~oi["skipAddRemoveUpdateItems"]
                  /\ ~oi["lastUpdatedItem"]
     IN  /\ reported' = IF found THEN reported + q ELSE reported
         /\ (found \/ q = 0)
  /\ unseen' = IF Calls({"Split", "Merge"}) THEN unseen
               ELSE unseen + Top.inner + Top.made
                    - (IF Top.stacked THEN 0 ELSE q)
  /\ oi' = Set(AddFlags, FALSE)
  /\ stack' = Returned
  /\ UNCHANGED <<have, hand, dino, asked, dinoAsked, harvested>>

DinoFlags == {"onDino", "lastUpdatedItem"}

\* The dino's item: a harvest of all that was asked for, if any was stacked.
AddReturnsDino ==
  /\ InAdd /\ Top.inv = "dino"
  /\ dino' = IF Top.fresh /\ oi["lastUpdatedItem"] THEN dino + Top.q ELSE dino
  /\ oi' = Set(DinoFlags, FALSE)
  /\ stack' = Returned
  /\ UNCHANGED <<have, reported, hand, counts>>

-----------------------------------------------------------------------------

\* Mistake: RemoveItem does not know of splits and merges.
RemovedAlways(n) == reported - n

Removed(n) == IF oi["skipAddRemoveUpdateItems"] THEN reported ELSE reported - n

\* RemoveItem, of an item of n units.
RemoveItem(n) ==
  /\ ~InAdd /\ n <= have
  /\ reported' = Removed(n) /\ have' = have - n
  /\ UNCHANGED <<stack, oi, hand, dino, counts>>

\* The message is pushed before the server's function is called, which may refuse: its
\* result is not looked at.  The bound on unseen bounds the refusals.
RemoveRefused(n) ==
  /\ ~InAdd /\ n <= have /\ unseen + n <= MaxUnits
  /\ reported' = Removed(n)
  /\ unseen' = IF Calls({"Split", "Merge"}) THEN unseen ELSE unseen + n
  /\ UNCHANGED <<stack, oi, have, hand, dino, asked, dinoAsked, harvested>>

\* The calls of a client: a hook that raises a flag for the time of the call.
FlagOf(call) ==
  CASE call = "TransferFrom" -> "inTransferFrom"
    [] call = "TransferAll" -> "inTransferAll"
    [] OTHER -> "skipAddRemoveUpdateItems"

Call(frame) ==
  /\ Len(stack) < MaxDepth
  /\ stack' = Append(stack, frame)
  /\ oi' = Set({FlagOf(frame.call)}, TRUE)
  /\ UNCHANGED <<have, reported, hand, dino, counts>>

\* Mistake: the flag stays up.
ReturnLeavesFlag(call) ==
  /\ Top.call = call
  /\ stack' = Returned
  /\ UNCHANGED <<oi, have, reported, hand, dino, counts>>

Return(call) ==
  /\ Top.call = call
  /\ stack' = Returned
  /\ oi' = Set({FlagOf(call)}, FALSE)
  /\ UNCHANGED <<have, reported, hand, dino, counts>>

\* A transfer of everything may transfer item by item.
TransferFrom ==
  \/ Top.call \in {"none", "TransferAll"} /\ Call([call |-> "TransferFrom"])
  \/ Return("TransferFrom")

TransferAll ==
  \/ Top.call = "none" /\ Call([call |-> "TransferAll"])
  \/ Return("TransferAll")

\* A split and a merge put back all the units they take out.
Split ==
  \/ Top.call = "none" /\ Call([call |-> "Split", units |-> have])
  \/ Top.call = "Split" /\ have = Top.units /\ Return("Split")

Merge ==
  \/ Top.call = "none" /\ Call([call |-> "Merge", units |-> have])
  \/ Top.call = "Merge" /\ have = Top.units /\ Return("Merge")

Next ==
  \/ \E inv \in {"player", "dino"}, q \in 1 .. MaxUnits, fresh \in BOOLEAN :
       AddItem(inv, q, fresh)
  \/ \E n \in 1 .. MaxUnits :
       Stack(n) \/ RemoveItem(n) \/ RemoveRefused(n) \/ Change(n) \/ Change(-n)
  \/ \E q \in Units : AddReturns(q)
  \/ NewItem \/ AddReturnsPassed \/ AddReturnsDino
  \/ TransferFrom \/ TransferAll \/ Split \/ Merge

Spec == Init /\ [][Next]_vars

-----------------------------------------------------------------------------

\* Each flag is up exactly while the call it stands for is on the stack, so a
\* flag that one call leaves behind can not change what a later one reports
\* (M_inventory_and_harvest.cpp 82-105, 208-217, 468/521, 549/555, 673/679).
\* The flags of the dino are only cleared too early, by an inner AddItem, and
\* never left up.
FlagsMatchStack ==
  LET Frame(P(_)) == \E i \in DOMAIN stack : P(stack[i])
      Own(f) == f.call = "AddItem" /\ f.inv = "player" /\ ~f.passes
      FreshDino(f) == f.call = "AddItem" /\ f.inv = "dino" /\ f.fresh
      FreshOwn(f) == Own(f) /\ f.fresh
  IN  /\ oi["inAddItem"] <=> Frame(Own)
      /\ oi["needharvest"] <=>
           Frame(FreshOwn) /\ ~Calls({"TransferFrom", "Split", "Merge"})
      /\ oi["inTransferFrom"] <=> Calls({"TransferFrom"})
      /\ oi["inTransferAll"] <=> Calls({"TransferAll"})
      /\ oi["skipAddRemoveUpdateItems"] <=> Calls({"Split", "Merge"})
      /\ oi["onDino"] => Frame(FreshDino)
      /\ oi["lastUpdatedItem"] => Frame(Own) \/ Frame(FreshDino)

\* What is reported as harvested by hand is what fresh items have added to the
\* player's stacks, and never a unit that a transfer, a split or a merge has
\* moved (M_inventory_and_harvest.cpp 103-105, 325-329).
HandHarvestTrue == hand = harvested

\* No unit is reported twice as harvested by a dino, although an AddItem of
\* the dino that is called by another one reports as well
\* (M_inventory_and_harvest.cpp 130-135, 214-217).
DinoHarvestOnce == dino <= dinoAsked

\* Between the server's calls the sum of the inventory messages is what the
\* player has, but for the new items made when a part of the item had been
\* stacked, or by an inner AddItem, the difference between the quantity of
\* a new item and the one in its description, and the items that the server
\* has refused to remove after the message (M_inventory_and_harvest.cpp
\* 148, 165-199, 402-440).
InventoryReplay == stack = <<>> => have - reported = unseen

\* However the calls nest, the flags tell the calls that are under way.
Inv == TypeOK /\ FlagsMatchStack

\* Harvests are reported for what was harvested, by hand and by dinos, and the inventory
\* as it is, up to the units of which no message is or comes true.
ReportsTrue == HandHarvestTrue /\ DinoHarvestOnce /\ InventoryReplay

=============================================================================
