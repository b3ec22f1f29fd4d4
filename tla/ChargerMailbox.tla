--------------------------- MODULE ChargerMailbox ---------------------------
(***************************************************************************)
(* What the path from a charger to the regulator promises, whatever its    *)
(* registers, flags and interrupts do: a box that holds Capacity frames,   *)
(* in no order.  A frame that finds the box full is lost, and no other     *)
(* frame is; each frame in the box is taken once, unchanged; and once the  *)
(* box is attended, it is not left alone while a frame is in it.           *)
(***************************************************************************)
EXTENDS Naturals, FiniteSets

CONSTANTS Frames,   (* what chargers may put in the box                    *)
          Capacity  (* a number of frames, at least one                    *)

VARIABLES waiting,  (* for each frame, how many copies of it are in the box *)
          attended  (* somebody takes frames out                           *)

vars == <<waiting, attended>>

Empty == [f \in Frames |-> 0]

(* The copies in the box, numbered frame by frame.                         *)
Copies == {copy \in Frames \X (1..Capacity) : copy[2] <= waiting[copy[1]]}

Occupancy == Cardinality(Copies)

Init == waiting = Empty /\ attended = FALSE

Attend == /\ ~attended
          /\ attended' = TRUE
          /\ UNCHANGED waiting

Deliver(f) == /\ Occupancy < Capacity
              /\ waiting' = [waiting EXCEPT ![f] = @ + 1]
              /\ UNCHANGED attended

Take(f) == /\ attended
           /\ waiting[f] > 0
           /\ waiting' = [waiting EXCEPT ![f] = @ - 1]
           /\ UNCHANGED attended

(* The receiver loses power.                                               *)
Reset == waiting' = Empty /\ attended' = FALSE

Next == Attend \/ Reset \/ \E f \in Frames : Deliver(f) \/ Take(f)

FairSpec == /\ Init
            /\ [][Next]_vars
            /\ WF_vars(\E f \in Frames : Take(f))
=============================================================================
