---------------------------- MODULE FirmwareSlot ----------------------------
(***************************************************************************)
(* What an update promises: the device runs whole images only.  An image   *)
(* that was accepted waits in the update area until the next restart puts  *)
(* it in place; until then a further upload may write over it, and losing  *)
(* the supply loses it.                                                    *)
(***************************************************************************)
CONSTANTS Images, NoImage, Torn

VARIABLES running, staged

slotVars == <<running, staged>>

Init == running \in Images /\ staged = NoImage

\* A whole image has arrived.
Accept == staged' \in Images /\ UNCHANGED running

\* Another upload has begun to write where the accepted image waits.
Overwrite == staged # NoImage /\ staged' = Torn /\ UNCHANGED running

\* A restart.
Install == staged # NoImage /\ running' = staged /\ staged' = NoImage

\* The supply was cut before the restart.
Forget == staged' = NoImage /\ UNCHANGED running

Next == Accept \/ Overwrite \/ Install \/ Forget

Spec == Init /\ [][Next]_slotVars

=============================================================================
