-------------------------------- MODULE Desk --------------------------------
(***************************************************************************)
(* What administrators do at the same time: sign in, reset, demote and     *)
(* delete each other (Accounts), edit settings and import configurations   *)
(* (Transfer).  The two share no table (ui/app.py mounts their routers     *)
(* beside each other, and a signed-in administrator may call all of them), *)
(* so a behaviour takes the steps of one part while the other rests.       *)
(***************************************************************************)
EXTENDS Accounts, Transfer

VARIABLE part

\* A part at rest is in one of its initial states.
AccountsAtRest == LET s == CHOOSE x \in Scenarios : TRUE IN Init /\ users = s.users /\ fuel = s.fuel
TransferAtRest == TransferInit /\ Tables = FreshInstall /\ devTools

DeskInit == \/ part = "accounts" /\ Init /\ TransferAtRest
            \/ part = "transfer" /\ TransferInit /\ AccountsAtRest
DeskNext == /\ UNCHANGED part
            /\ \/ part = "accounts" /\ Next /\ UNCHANGED allVars
               \/ part = "transfer" /\ TransferNext /\ UNCHANGED vars
DeskSpec == DeskInit /\ [][DeskNext]_<<vars, allVars, part>>

\* Accounts, settings and transfers keep their types: a name has one row, a setting in the
\* table is one of the catalogue, a review is of a bundle that was uploaded.
DeskTypeOK == TypeOK /\ SettingsTypeOK /\ TransferTypeOK
=============================================================================
