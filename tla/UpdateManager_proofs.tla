---------------------- MODULE UpdateManager_proofs ----------------------
(***************************************************************************)
(* Proofs about UpdateManager, for any number of releases and of           *)
(* operations in flight, live or overtaken.                                *)
(***************************************************************************)
EXTENDS UpdateManager, TLAPS

USE DEF Steps, Step, Close, Open, Free, NoOp

\* What the properties leave out: a download or an install has the release it was
\* started for, and while an offer is being followed up it is not dismissed.
OpHasRelease ==
  \A o \in Ops : ops[o].at \notin {"none", "check"} => ops[o].rel # None
OfferStands ==
  status \in {"update-available", "downloading", "verifying", "staging"} =>
    pending # dismissed

\* The inductive invariant of the manager.
ManagerInv == /\ TypeOK /\ OpHasRelease /\ OfferStands
              /\ BusyIsWorked /\ RestartingHasContract

\* The table leads from a state to a state.
LEMMA SetStateType ==
  ASSUME NEW s \in States, NEW to \in States
  PROVE  SetState(s, to) \in States
BY DEF SetState

\* One step keeps the types, and the releases of the operations.
LEMMA TypeStep ==
  ASSUME TypeOK, OpHasRelease, [Next]_vars
  PROVE  TypeOK'
<1> USE DEF TypeOK
<1>0. \A to \in States : SetState(status, to) \in States
  BY SetStateType
<1>s. /\ "checking" \in States /\ "no-update" \in States /\ "failed" \in States
      /\ "update-available" \in States /\ "downloading" \in States
      /\ "cancelled" \in States /\ "verifying" \in States /\ "staging" \in States
      /\ "installing" \in States /\ "restarting" \in States
      /\ "idle" \in States /\ "updated" \in States
  BY DEF States
<1>1. ASSUME NEW o \in Ops, StartCheck(o) PROVE TypeOK'
  BY <1>0, <1>s, <1>1 DEF StartCheck
<1>2. ASSUME NEW o \in Ops, Check(o) PROVE TypeOK'
  BY <1>0, <1>s, <1>2 DEF Check, CheckIgnored, CheckEmpty, CheckFound
<1>3. ASSUME NEW o \in Ops, StartDownload(o) PROVE TypeOK'
  BY <1>0, <1>s, <1>3 DEF StartDownload
<1>4. ASSUME NEW o \in Ops, Fetch(o) PROVE TypeOK'
  BY <1>0, <1>s, <1>4 DEF Fetch, FetchFails, Fetched
<1>5. ASSUME NEW o \in Ops, Verify(o) PROVE TypeOK'
  BY <1>0, <1>s, <1>5 DEF Verify, VerifyIgnored, VerifyFails, Verified
<1>6. ASSUME NEW o \in Ops, StartInstall(o) PROVE TypeOK'
  BY <1>0, <1>s, <1>6 DEF StartInstall
<1>7. ASSUME NEW o \in Ops, Assembled(o) PROVE TypeOK'
  <2>1. CASE Step(o, "settle") /\ trees' = trees \cup {ops[o].rel}
    BY <1>7, <2>1 DEF Assembled, OpHasRelease
  <2>2. CASE Step(o, "broken") /\ UNCHANGED trees
    BY <1>7, <2>2 DEF Assembled
  <2>3. CASE Step(o, "fallback") /\ UNCHANGED trees
    BY <1>7, <2>3 DEF Assembled
  <2> QED  BY <1>7, <2>1, <2>2, <2>3 DEF Assembled
<1>8. ASSUME NEW o \in Ops, FallBack(o) PROVE TypeOK'
  BY <1>8 DEF FallBack
<1>9. ASSUME NEW o \in Ops, InstallAbandoned(o) PROVE TypeOK'
  BY <1>9 DEF InstallAbandoned
<1>10. ASSUME NEW o \in Ops, InstallFails(o) PROVE TypeOK'
  BY <1>0, <1>s, <1>10 DEF InstallFails
<1>11. ASSUME NEW o \in Ops, HandOff(o) PROVE TypeOK'
  <2>1. SetState(status, "installing") \in States  BY <1>0, <1>s
  <2>2. status' \in States  BY <1>s, <1>11, <2>1, SetStateType DEF HandOff
  <2> QED  BY <1>11, <2>2 DEF HandOff
<1>12. CASE UpdaterExits  BY <1>0, <1>s, <1>12 DEF UpdaterExits
<1>13. CASE Cancel
  <2>1. status' \in States
    BY <1>s, <1>13, SetStateType DEF Cancel
  <2>2. ops' = [o \in Ops |-> [ops[o] EXCEPT !.ctx = IF cancel = o THEN "stopped" ELSE @]]
    BY <1>13 DEF Cancel
  <2>3. ops' \in [Ops -> [at : Steps, rel : Releases \cup {None},
                          kind : {"none", "delta", "full"}, ctx : {"live", "stopped"}]]
    BY <2>2
  <2>4. /\ cancel' = None /\ contract' \in {contract, None}
        /\ UNCHANGED <<pending, artifact, staged, dismissed, trees>>
    BY <1>13 DEF Cancel
  <2> QED  BY <2>1, <2>3, <2>4
<1>14. CASE Dismiss  BY <1>0, <1>s, <1>14 DEF Dismiss
<1>15. CASE Restart  BY <1>s, <1>15 DEF Restart
<1>16. CASE UNCHANGED vars  BY <1>16 DEF vars
<1> QED
  BY <1>1, <1>2, <1>3, <1>4, <1>5, <1>6, <1>7, <1>8, <1>9, <1>10, <1>11,
     <1>12, <1>13, <1>14, <1>15, <1>16 DEF Next, Work, Settle

LEMMA ReleaseStep ==
  ASSUME TypeOK, TypeOK', OpHasRelease, [Next]_vars
  PROVE  OpHasRelease'
<1> USE DEF TypeOK, OpHasRelease
<1>1. ASSUME NEW o \in Ops, StartCheck(o) PROVE OpHasRelease'
  BY <1>1 DEF StartCheck
<1>2. ASSUME NEW o \in Ops, StartDownload(o) PROVE OpHasRelease'
  BY <1>2 DEF StartDownload
<1>3. ASSUME NEW o \in Ops, StartInstall(o) PROVE OpHasRelease'
  BY <1>3 DEF StartInstall
<1>4. ASSUME NEW o \in Ops, Check(o) PROVE OpHasRelease'
  BY <1>4 DEF Check, CheckIgnored, CheckEmpty, CheckFound
<1>5. ASSUME NEW o \in Ops, Fetch(o) PROVE OpHasRelease'
  BY <1>5 DEF Fetch, FetchFails, Fetched
<1>6. ASSUME NEW o \in Ops, Verify(o) PROVE OpHasRelease'
  BY <1>6 DEF Verify, VerifyIgnored, VerifyFails, Verified
<1>7. ASSUME NEW o \in Ops, Assembled(o) PROVE OpHasRelease'
  BY <1>7 DEF Assembled
<1>8. ASSUME NEW o \in Ops, FallBack(o) PROVE OpHasRelease'
  BY <1>8 DEF FallBack
<1>9. ASSUME NEW o \in Ops, Settle(o) PROVE OpHasRelease'
  BY <1>9 DEF Settle, InstallAbandoned, InstallFails, HandOff
<1>10. CASE Cancel  BY <1>10 DEF Cancel
<1>11. CASE UNCHANGED ops  BY <1>11
<1>12. CASE Restart  BY <1>12 DEF Restart
<1> QED
  BY <1>1, <1>2, <1>3, <1>4, <1>5, <1>6, <1>7, <1>8, <1>9, <1>10, <1>11, <1>12
     DEF Next, Work, UpdaterExits, Dismiss, vars

\* Only RunCheck makes an offer, of what is not dismissed; only Dismiss dismisses.
LEMMA OfferStep ==
  ASSUME TypeOK, TypeOK', OfferStands, [Next]_vars
  PROVE  OfferStands'
<1> USE DEF TypeOK, OfferStands, SetState, Allowed
<1>1. ASSUME NEW o \in Ops, StartCheck(o) PROVE OfferStands'
  BY <1>1 DEF StartCheck
<1>2. ASSUME NEW o \in Ops, StartDownload(o) PROVE OfferStands'
  BY <1>2 DEF StartDownload
<1>3. ASSUME NEW o \in Ops, StartInstall(o) PROVE OfferStands'
  BY <1>3 DEF StartInstall
<1>4. ASSUME NEW o \in Ops, CheckIgnored(o) PROVE OfferStands'
  BY <1>4 DEF CheckIgnored
<1>5. ASSUME NEW o \in Ops, CheckEmpty(o) PROVE OfferStands'
  BY <1>5 DEF CheckEmpty
<1>6. ASSUME NEW o \in Ops, CheckFound(o) PROVE OfferStands'
  BY <1>6 DEF CheckFound
<1>7. ASSUME NEW o \in Ops, FetchFails(o) PROVE OfferStands'
  BY <1>7 DEF FetchFails
<1>8. ASSUME NEW o \in Ops, Fetched(o) PROVE OfferStands'
  BY <1>8 DEF Fetched
<1>9. ASSUME NEW o \in Ops, VerifyIgnored(o) PROVE OfferStands'
  BY <1>9 DEF VerifyIgnored
<1>10. ASSUME NEW o \in Ops, VerifyFails(o) PROVE OfferStands'
  BY <1>10 DEF VerifyFails
<1>11. ASSUME NEW o \in Ops, Verified(o) PROVE OfferStands'
  BY <1>11 DEF Verified
<1>12. ASSUME NEW o \in Ops, Assembled(o) PROVE OfferStands'
  BY <1>12 DEF Assembled
<1>13. ASSUME NEW o \in Ops, FallBack(o) PROVE OfferStands'
  BY <1>13 DEF FallBack
<1>14. ASSUME NEW o \in Ops, InstallAbandoned(o) PROVE OfferStands'
  BY <1>14 DEF InstallAbandoned
<1>15. ASSUME NEW o \in Ops, InstallFails(o) PROVE OfferStands'
  BY <1>15 DEF InstallFails
<1>16. ASSUME NEW o \in Ops, HandOff(o) PROVE OfferStands'
  BY <1>16 DEF HandOff
<1>17. CASE UpdaterExits  BY <1>17 DEF UpdaterExits
<1>18. CASE Cancel  BY <1>18 DEF Cancel
<1>19. CASE Dismiss  BY <1>19 DEF Dismiss
<1>20. CASE Restart  BY <1>20 DEF Restart
<1>21. CASE UNCHANGED vars  BY <1>21 DEF vars
<1> QED
  BY <1>1, <1>2, <1>3, <1>4, <1>5, <1>6, <1>7, <1>8, <1>9, <1>10, <1>11, <1>12, <1>13, <1>14, <1>15, <1>16, <1>17, <1>18, <1>19, <1>20, <1>21
     DEF Next, Work, Check, Fetch, Verify, Settle

\* Whoever leaves restarting may drop the contract; nobody else does.
LEMMA ContractStep ==
  ASSUME TypeOK, TypeOK', OpHasRelease, RestartingHasContract, [Next]_vars
  PROVE  RestartingHasContract'
<1> USE DEF TypeOK, OpHasRelease, RestartingHasContract, SetState, Allowed
<1>1. ASSUME NEW o \in Ops, StartCheck(o) PROVE RestartingHasContract'
  BY <1>1 DEF StartCheck
<1>2. ASSUME NEW o \in Ops, StartDownload(o) PROVE RestartingHasContract'
  BY <1>2 DEF StartDownload
<1>3. ASSUME NEW o \in Ops, StartInstall(o) PROVE RestartingHasContract'
  BY <1>3 DEF StartInstall
<1>4. ASSUME NEW o \in Ops, CheckIgnored(o) PROVE RestartingHasContract'
  BY <1>4 DEF CheckIgnored
<1>5. ASSUME NEW o \in Ops, CheckEmpty(o) PROVE RestartingHasContract'
  BY <1>5 DEF CheckEmpty
<1>6. ASSUME NEW o \in Ops, CheckFound(o) PROVE RestartingHasContract'
  BY <1>6 DEF CheckFound
<1>7. ASSUME NEW o \in Ops, FetchFails(o) PROVE RestartingHasContract'
  BY <1>7 DEF FetchFails
<1>8. ASSUME NEW o \in Ops, Fetched(o) PROVE RestartingHasContract'
  BY <1>8 DEF Fetched
<1>9. ASSUME NEW o \in Ops, VerifyIgnored(o) PROVE RestartingHasContract'
  BY <1>9 DEF VerifyIgnored
<1>10. ASSUME NEW o \in Ops, VerifyFails(o) PROVE RestartingHasContract'
  BY <1>10 DEF VerifyFails
<1>11. ASSUME NEW o \in Ops, Verified(o) PROVE RestartingHasContract'
  BY <1>11 DEF Verified
<1>12. ASSUME NEW o \in Ops, Assembled(o) PROVE RestartingHasContract'
  BY <1>12 DEF Assembled
<1>13. ASSUME NEW o \in Ops, FallBack(o) PROVE RestartingHasContract'
  BY <1>13 DEF FallBack
<1>14. ASSUME NEW o \in Ops, InstallAbandoned(o) PROVE RestartingHasContract'
  BY <1>14 DEF InstallAbandoned
<1>15. ASSUME NEW o \in Ops, InstallFails(o) PROVE RestartingHasContract'
  BY <1>15 DEF InstallFails
<1>16. ASSUME NEW o \in Ops, HandOff(o) PROVE RestartingHasContract'
  BY <1>16 DEF HandOff
<1>17. CASE UpdaterExits  BY <1>17 DEF UpdaterExits
<1>18. CASE Cancel  BY <1>18 DEF Cancel
<1>19. CASE Dismiss  BY <1>19 DEF Dismiss
<1>20. CASE Restart  BY <1>20 DEF Restart
<1>21. CASE UNCHANGED vars  BY <1>21 DEF vars
<1> QED
  BY <1>1, <1>2, <1>3, <1>4, <1>5, <1>6, <1>7, <1>8, <1>9, <1>10, <1>11, <1>12, <1>13, <1>14, <1>15, <1>16, <1>17, <1>18, <1>19, <1>20, <1>21
     DEF Next, Work, Check, Fetch, Verify, Settle

\* A busy state is left by the operation that made it, or by a stale one.
LEMMA BusyStep ==
  ASSUME TypeOK, TypeOK', BusyIsWorked, [Next]_vars
  PROVE  BusyIsWorked'
<1> USE DEF TypeOK, BusyIsWorked, Busy, SetState, Allowed
<1>1. ASSUME NEW o \in Ops, StartCheck(o) PROVE BusyIsWorked'
  BY <1>1 DEF StartCheck
<1>2. ASSUME NEW o \in Ops, StartDownload(o) PROVE BusyIsWorked'
  BY <1>2 DEF StartDownload
<1>3. ASSUME NEW o \in Ops, StartInstall(o) PROVE BusyIsWorked'
  BY <1>3 DEF StartInstall
<1>4. ASSUME NEW o \in Ops, CheckIgnored(o) PROVE BusyIsWorked'
  BY <1>4 DEF CheckIgnored
<1>5. ASSUME NEW o \in Ops, CheckEmpty(o) PROVE BusyIsWorked'
  BY <1>5 DEF CheckEmpty
<1>6. ASSUME NEW o \in Ops, CheckFound(o) PROVE BusyIsWorked'
  BY <1>6 DEF CheckFound
<1>7. ASSUME NEW o \in Ops, FetchFails(o) PROVE BusyIsWorked'
  BY <1>7 DEF FetchFails
<1>8. ASSUME NEW o \in Ops, Fetched(o) PROVE BusyIsWorked'
  BY <1>8 DEF Fetched
<1>9. ASSUME NEW o \in Ops, VerifyIgnored(o) PROVE BusyIsWorked'
  BY <1>9 DEF VerifyIgnored
<1>10. ASSUME NEW o \in Ops, VerifyFails(o) PROVE BusyIsWorked'
  BY <1>10 DEF VerifyFails
<1>11. ASSUME NEW o \in Ops, Verified(o) PROVE BusyIsWorked'
  BY <1>11 DEF Verified
<1>12. ASSUME NEW o \in Ops, Assembled(o) PROVE BusyIsWorked'
  BY <1>12 DEF Assembled
<1>13. ASSUME NEW o \in Ops, FallBack(o) PROVE BusyIsWorked'
  BY <1>13 DEF FallBack
<1>14. ASSUME NEW o \in Ops, InstallAbandoned(o) PROVE BusyIsWorked'
  BY <1>14 DEF InstallAbandoned
<1>15. ASSUME NEW o \in Ops, InstallFails(o) PROVE BusyIsWorked'
  BY <1>15 DEF InstallFails
<1>16. ASSUME NEW o \in Ops, HandOff(o) PROVE BusyIsWorked'
  BY <1>16 DEF HandOff
<1>17. CASE UpdaterExits  BY <1>17 DEF UpdaterExits
<1>18. CASE Cancel  BY <1>18 DEF Cancel
<1>19. CASE Dismiss  BY <1>19 DEF Dismiss
<1>20. CASE Restart  BY <1>20 DEF Restart
<1>21. CASE UNCHANGED vars  BY <1>21 DEF vars
<1> QED
  BY <1>1, <1>2, <1>3, <1>4, <1>5, <1>6, <1>7, <1>8, <1>9, <1>10, <1>11, <1>12, <1>13, <1>14, <1>15, <1>16, <1>17, <1>18, <1>19, <1>20, <1>21
     DEF Next, Work, Check, Fetch, Verify, Settle

\* The inductive invariant holds of every behaviour.
LEMMA SpecManagerInv == Spec => []ManagerInv
<1>1. Init => ManagerInv
  <2> SUFFICES ASSUME Init PROVE ManagerInv  OBVIOUS
  <2>1. TypeOK  BY DEF Init, TypeOK, States
  <2>2. OpHasRelease  BY DEF Init, OpHasRelease
  <2>3. OfferStands /\ BusyIsWorked /\ RestartingHasContract
    BY DEF Init, OfferStands, BusyIsWorked, RestartingHasContract
  <2> QED  BY <2>1, <2>2, <2>3 DEF ManagerInv
<1>2. ManagerInv /\ [Next]_vars => ManagerInv'
  BY TypeStep, ReleaseStep, OfferStep, ContractStep, BusyStep DEF ManagerInv
<1> QED  BY <1>1, <1>2, PTL DEF Spec

\* Every variable keeps its type.
THEOREM SpecTypeOK == Spec => []TypeOK
<1>1. ManagerInv => TypeOK  BY DEF ManagerInv
<1> QED  BY SpecManagerInv, <1>1, PTL

\* However many overtaken operations come back, a busy state has the operation
\* that will leave it: setState never strands the manager.
THEOREM SpecBusyIsWorked == Spec => []BusyIsWorked
<1>1. ManagerInv => BusyIsWorked  BY DEF ManagerInv
<1> QED  BY SpecManagerInv, <1>1, PTL

\* A release the user dismissed is not on offer, in no phase of its installation.
THEOREM SpecDismissedStaysHidden == Spec => []DismissedStaysHidden
<1>1. ManagerInv => DismissedStaysHidden
  BY DEF ManagerInv, OfferStands, DismissedStaysHidden
<1> QED  BY SpecManagerInv, <1>1, PTL

\* While the manager says restarting, pending.json is there.
THEOREM SpecRestartingHasContract == Spec => []RestartingHasContract
<1>1. ManagerInv => RestartingHasContract  BY DEF ManagerInv
<1> QED  BY SpecManagerInv, <1>1, PTL
=============================================================================
