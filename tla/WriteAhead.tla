----------------------------- MODULE WriteAhead -----------------------------
(***************************************************************************)
(* The discipline behind applied.json, for one system change: the change   *)
(* is written down before it is made, and the note is erased only after    *)
(* the change has been undone.  Whatever stops the program in between, a   *)
(* change in force is a change on record.                                  *)
(***************************************************************************)

VARIABLES effect,  \* the change is in force
          ledger   \* the change is on record

wvars == <<effect, ledger>>

Init == ~effect /\ ~ledger

Record == ~effect' /\ ~effect /\ ledger'
Apply  == ledger /\ ledger' /\ effect'
Undo   == ~effect' /\ ledger' = ledger
Erase  == ~effect' /\ ~ledger'

Next == Record \/ Apply \/ Undo \/ Erase

Spec == Init /\ [][Next]_wvars

OnRecord == effect => ledger
=============================================================================
