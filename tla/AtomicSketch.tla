---------------------------- MODULE AtomicSketch ----------------------------
(***************************************************************************)
(* What the over-the-air update promises a user of the board: there is one *)
(* installed sketch, a new image is offered by the running sketch, and     *)
(* between two runs the offered image replaces the installed one in a      *)
(* single step, or is refused; a sketch starts only when no offer is left  *)
(* to be decided: an offer that is still there is refused or installed.    *)
(* Power cuts only ever stop the running sketch.                           *)
(***************************************************************************)
CONSTANTS Image,       \* sketch images
          NoImage,     \* "none", not an image
          Acceptable   \* the images an update may install

VARIABLES installed,   \* the image the next start will run
          offered,     \* the image waiting to be installed, or NoImage
          running      \* the image that is executing, or NoImage

vars == <<installed, offered, running>>

Init == /\ installed \in Image
        /\ offered = NoImage
        /\ running = NoImage

Offer(m) == /\ running # NoImage
            /\ offered' = m
            /\ UNCHANGED <<installed, running>>

Install == /\ running = NoImage
           /\ offered \in Acceptable
           /\ installed' = offered
           /\ UNCHANGED <<offered, running>>

Dismiss == /\ running = NoImage
           /\ offered # NoImage
           /\ offered \in Acceptable => installed = offered
           /\ offered' = NoImage
           /\ UNCHANGED <<installed, running>>

Start == /\ running = NoImage
         /\ offered \in Acceptable => offered = installed
         /\ running' = installed
         /\ UNCHANGED <<installed, offered>>

Stop == /\ running # NoImage
        /\ running' = NoImage
        /\ UNCHANGED <<installed, offered>>

Next == \/ \E m \in Image : Offer(m)
        \/ Install
        \/ Dismiss
        \/ Start
        \/ Stop

Spec == Init /\ [][Next]_vars
=============================================================================
