-------------------------------- MODULE Fifo ---------------------------------
(***************************************************************************)
(* What a boundary pair around a pass-through graph promises: one FIFO     *)
(* channel from fill() to drain().  A drain may find that the data is      *)
(* still on its way (the graph has not been run), but it never reorders,   *)
(* loses or repeats an item.                                               *)
(***************************************************************************)
EXTENDS Sequences

CONSTANT Items

VARIABLES channel,  \* items filled and not yet drained, oldest first
          drained   \* every item drained so far

Init == channel = <<>> /\ drained = <<>>

Put(x) == channel' = Append(channel, x) /\ UNCHANGED drained

Get == /\ channel # <<>>
       /\ channel' = Tail(channel)
       /\ drained' = Append(drained, Head(channel))

Next == (\E x \in Items : Put(x)) \/ Get

\* What is never wrong, and that what was filled is drained in the end.
Safety == Init /\ [][Next]_<<channel, drained>>
Spec   == Safety /\ WF_<<channel, drained>>(Get)
=============================================================================
