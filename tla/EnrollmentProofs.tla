--------------------------- MODULE EnrollmentProofs --------------------------
(***************************************************************************)
(* Proofs about Enrollment, for any sets of nodes, identifiers and         *)
(* requests.                                                               *)
(*                                                                         *)
(* What the rows of D1 and the sockets say of an instance depends on the   *)
(* requests that carry it: the strengthening says of an edit, a deletion   *)
(* and an upgrade what still holds of the instance when its second call    *)
(* comes, unless another request crossed it, and of an instance that is    *)
(* gone which requests can still carry it.                                 *)
(***************************************************************************)
EXTENDS Enrollment, TLAPS

\* A request has what its next call needs.
RequestsOK ==
  \A r \in Requests :
    /\ req[r].at \in {"settings", "create", "seed", "upgrade", "accept", "put"}
         => req[r].node \in Nodes
    /\ req[r].at \in {"seed", "upgrade", "accept", "report", "put", "forget"}
         => req[r].id \in used

\* An edit that nobody crossed writes the owner back that is there.
EditsKeepOwner ==
  \A r \in Requests :
    req[r].at = "put" /\ req[r].id \notin disturbed => owner[req[r].id] = req[r].node

\* A deletion that nobody crossed is of an instance that is gone.
DeletionsAreFinal ==
  \A r \in Requests :
    req[r].at = "forget" /\ req[r].id \notin disturbed => req[r].id \notin Alive

\* An upgrade that nobody crossed has seeded the credential.
UpgradesAreSeeded ==
  \A r \in Requests :
    req[r].at = "accept" /\ req[r].id \notin disturbed => req[r].id \in creds

\* Only its deletion and reports carry an instance that is gone, and nothing
\* is left of it once its deletion is over.
GoneIsGone ==
  \A i \in (used \ Alive) \ disturbed :
    /\ \A n \in Nodes : connected[n] # i
    /\ \A r \in Requests : req[r].id = i => req[r].at \in {"forget", "report"}
    /\ \/ \E r \in Requests : req[r].id = i /\ req[r].at = "forget"
       \/ i \notin creds \cup rows /\ \A r \in Requests : req[r].id # i

RequestInv == EditsKeepOwner /\ DeletionsAreFinal /\ UpgradesAreSeeded /\ GoneIsGone

IInv ==
  /\ TypeOK /\ RequestsOK /\ RequestInv
  /\ OneInstancePerNode /\ ConnectedCanReport

USE NoneAssumption

(***************************************************************************)
(* The table of requests.                                                  *)
(***************************************************************************)
LEMMA GotoIs ==
  ASSUME TypeOK, NEW r \in Requests, NEW at, NEW id, NEW node, Goto(r, at, id, node)
  PROVE  /\ DOMAIN req' = Requests
         /\ req'[r] = [at |-> at, id |-> id, node |-> node]
         /\ \A q \in Requests \ {r} : req'[q] = req[q]
BY DEF TypeOK, Goto, Idle

LEMMA FinishIs ==
  ASSUME TypeOK, NEW r \in Requests, Finish(r)
  PROVE  /\ DOMAIN req' = Requests
         /\ req'[r] = Idle
         /\ \A q \in Requests \ {r} : req'[q] = req[q]
BY DEF TypeOK, Finish

(***************************************************************************)
(* Every call of every request keeps the invariant.                        *)
(***************************************************************************)
LEMMA EnrollSettingsKeeps ==
  ASSUME IInv, NEW r \in Requests, EnrollSettings(r)
  PROVE  IInv'
<1> USE DEF EnrollSettings, cloudVars
<1>1. TypeOK /\ RequestsOK /\ RequestInv /\ OneInstancePerNode /\ ConnectedCanReport
  BY DEF IInv
<1>2. /\ DOMAIN req' = Requests
      /\ req'[r] = [at |-> "create", id |-> None, node |-> req[r].node]
      /\ \A q \in Requests \ {r} : req'[q] = req[q]
  BY <1>1, GotoIs
<1>3. TypeOK'
  BY <1>1, <1>2 DEF TypeOK, Alive
<1>4. RequestsOK'
  BY <1>1, <1>2 DEF RequestsOK
<1>5. EditsKeepOwner'
  BY <1>1, <1>2 DEF RequestInv, EditsKeepOwner
<1>6. DeletionsAreFinal'
  BY <1>1, <1>2 DEF RequestInv, DeletionsAreFinal, Alive
<1>7. UpgradesAreSeeded'
  BY <1>1, <1>2 DEF RequestInv, UpgradesAreSeeded
<1>8. GoneIsGone'
  BY <1>1, <1>2 DEF RequestInv, GoneIsGone, Alive, TypeOK
<1>9. OneInstancePerNode'
  BY <1>1 DEF OneInstancePerNode, Alive
<1>10. ConnectedCanReport'
  BY <1>1 DEF ConnectedCanReport, Alive
<1> QED
  BY <1>3, <1>4, <1>5, <1>6, <1>7, <1>8, <1>9, <1>10 DEF IInv, RequestInv

LEMMA EnrollSeedKeeps ==
  ASSUME IInv, NEW r \in Requests, EnrollSeed(r)
  PROVE  IInv'
<1> USE DEF EnrollSeed, cloudVars
<1>1. TypeOK /\ RequestsOK /\ RequestInv /\ OneInstancePerNode /\ ConnectedCanReport
  BY DEF IInv
<1>2. /\ DOMAIN req' = Requests
      /\ req'[r] = Idle
      /\ \A q \in Requests \ {r} : req'[q] = req[q]
  BY <1>1, FinishIs
<1>3. TypeOK'
  BY <1>1, <1>2 DEF Seed, StartDaemon, TypeOK, Alive, RequestsOK, Idle
<1>4. RequestsOK'
  BY <1>1, <1>2 DEF Seed, StartDaemon, RequestsOK, Idle
<1>5. EditsKeepOwner'
  BY <1>1, <1>2 DEF Seed, StartDaemon, RequestInv, EditsKeepOwner, Idle
<1>6. DeletionsAreFinal'
  BY <1>1, <1>2 DEF Seed, StartDaemon, RequestInv, DeletionsAreFinal, Alive, Idle
<1>7. UpgradesAreSeeded'
  BY <1>1, <1>2 DEF Seed, StartDaemon, RequestInv, UpgradesAreSeeded, Idle
<1>8. GoneIsGone'
  BY <1>1, <1>2 DEF Seed, StartDaemon, RequestInv, GoneIsGone, Alive, TypeOK, Idle
<1>9. OneInstancePerNode'
  BY <1>1 DEF Seed, StartDaemon, OneInstancePerNode, Alive
<1>10. ConnectedCanReport'
  BY <1>1 DEF Seed, StartDaemon, ConnectedCanReport, Alive, TypeOK
<1> QED
  BY <1>3, <1>4, <1>5, <1>6, <1>7, <1>8, <1>9, <1>10 DEF IInv, RequestInv

LEMMA EnrollFailsKeeps ==
  ASSUME IInv, NEW r \in Requests, EnrollFails(r)
  PROVE  IInv'
<1> USE DEF EnrollFails, cloudVars
<1>1. TypeOK /\ RequestsOK /\ RequestInv /\ OneInstancePerNode /\ ConnectedCanReport
  BY DEF IInv
<1>2. /\ DOMAIN req' = Requests
      /\ req'[r] = Idle
      /\ \A q \in Requests \ {r} : req'[q] = req[q]
  BY <1>1, FinishIs
<1>3. TypeOK'
  BY <1>1, <1>2 DEF TypeOK, Alive, Idle
<1>4. RequestsOK'
  BY <1>1, <1>2 DEF RequestsOK, Idle
<1>5. EditsKeepOwner'
  BY <1>1, <1>2 DEF RequestInv, EditsKeepOwner, Idle
<1>6. DeletionsAreFinal'
  BY <1>1, <1>2 DEF RequestInv, DeletionsAreFinal, Alive, Idle
<1>7. UpgradesAreSeeded'
  BY <1>1, <1>2 DEF RequestInv, UpgradesAreSeeded, Idle
<1>8. GoneIsGone'
  BY <1>1, <1>2 DEF RequestInv, GoneIsGone, Alive, TypeOK, Idle
<1>9. OneInstancePerNode'
  BY <1>1 DEF OneInstancePerNode, Alive
<1>10. ConnectedCanReport'
  BY <1>1 DEF ConnectedCanReport, Alive
<1> QED
  BY <1>3, <1>4, <1>5, <1>6, <1>7, <1>8, <1>9, <1>10 DEF IInv, RequestInv

LEMMA UpgradeCheckKeeps ==
  ASSUME IInv, NEW r \in Requests, NEW n \in Nodes, UpgradeCheck(r, n)
  PROVE  IInv'
<1> USE DEF UpgradeCheck, cloudVars
<1>1. TypeOK /\ RequestsOK /\ RequestInv /\ OneInstancePerNode /\ ConnectedCanReport
  BY DEF IInv
<1>2. /\ DOMAIN req' = Requests
      /\ req'[r] = [at |-> "upgrade", id |-> identity[n], node |-> n]
      /\ \A q \in Requests \ {r} : req'[q] = req[q]
  BY <1>1, GotoIs
<1>3. TypeOK'
  BY <1>1, <1>2 DEF TypeOK, Alive
<1>4. RequestsOK'
  BY <1>1, <1>2 DEF RequestsOK, TypeOK
<1>5. EditsKeepOwner'
  BY <1>1, <1>2 DEF RequestInv, EditsKeepOwner
<1>6. DeletionsAreFinal'
  BY <1>1, <1>2 DEF RequestInv, DeletionsAreFinal, Alive
<1>7. UpgradesAreSeeded'
  BY <1>1, <1>2 DEF RequestInv, UpgradesAreSeeded
<1>8. GoneIsGone'
  BY <1>1, <1>2 DEF RequestInv, GoneIsGone, Alive, Idle
<1>9. OneInstancePerNode'
  BY <1>1 DEF OneInstancePerNode, Alive
<1>10. ConnectedCanReport'
  BY <1>1 DEF ConnectedCanReport, Alive
<1> QED
  BY <1>3, <1>4, <1>5, <1>6, <1>7, <1>8, <1>9, <1>10 DEF IInv, RequestInv

LEMMA UpgradeSeedKeeps ==
  ASSUME IInv, NEW r \in Requests, UpgradeSeed(r)
  PROVE  IInv'
<1> USE DEF UpgradeSeed, cloudVars
<1>1. TypeOK /\ RequestsOK /\ RequestInv /\ OneInstancePerNode /\ ConnectedCanReport
  BY DEF IInv
<1>2. /\ DOMAIN req' = Requests
      /\ req'[r] = [at |-> "accept", id |-> req[r].id, node |-> req[r].node]
      /\ \A q \in Requests \ {r} : req'[q] = req[q]
  BY <1>1, GotoIs
<1>3. TypeOK'
  BY <1>1, <1>2 DEF Seed, TypeOK, Alive, RequestsOK
<1>4. RequestsOK'
  BY <1>1, <1>2 DEF Seed, RequestsOK
<1>5. EditsKeepOwner'
  BY <1>1, <1>2 DEF Seed, RequestInv, EditsKeepOwner
<1>6. DeletionsAreFinal'
  BY <1>1, <1>2 DEF Seed, RequestInv, DeletionsAreFinal, Alive
<1>7. UpgradesAreSeeded'
  BY <1>1, <1>2 DEF Seed, RequestInv, UpgradesAreSeeded
<1>8. GoneIsGone'
  BY <1>1, <1>2 DEF Seed, RequestInv, GoneIsGone, Alive
<1>9. OneInstancePerNode'
  BY <1>1 DEF Seed, OneInstancePerNode, Alive
<1>10. ConnectedCanReport'
  BY <1>1 DEF Seed, ConnectedCanReport, Alive
<1> QED
  BY <1>3, <1>4, <1>5, <1>6, <1>7, <1>8, <1>9, <1>10 DEF IInv, RequestInv

LEMMA UpgradeAcceptKeeps ==
  ASSUME IInv, NEW r \in Requests, UpgradeAccept(r)
  PROVE  IInv'
<1> USE DEF UpgradeAccept, cloudVars
<1>1. TypeOK /\ RequestsOK /\ RequestInv /\ OneInstancePerNode /\ ConnectedCanReport
  BY DEF IInv
<1>2. /\ DOMAIN req' = Requests
      /\ req'[r] = Idle
      /\ \A q \in Requests \ {r} : req'[q] = req[q]
  BY <1>1, FinishIs
<1>3. TypeOK'
  BY <1>1, <1>2 DEF TypeOK, Alive, RequestsOK, Idle
<1>4. RequestsOK'
  BY <1>1, <1>2 DEF RequestsOK, Idle
<1>5. EditsKeepOwner'
  BY <1>1, <1>2 DEF RequestInv, EditsKeepOwner, Idle
<1>6. DeletionsAreFinal'
  BY <1>1, <1>2 DEF RequestInv, DeletionsAreFinal, Alive, Idle
<1>7. UpgradesAreSeeded'
  BY <1>1, <1>2 DEF RequestInv, UpgradesAreSeeded, Idle
<1>8. GoneIsGone'
  BY <1>1, <1>2 DEF RequestInv, GoneIsGone, Alive, TypeOK, Idle
<1>9. OneInstancePerNode'
  BY <1>1 DEF OneInstancePerNode, Alive
<1>10. ConnectedCanReport'
  BY <1>1 DEF RequestInv, ConnectedCanReport, Alive, UpgradesAreSeeded
<1> QED
  BY <1>3, <1>4, <1>5, <1>6, <1>7, <1>8, <1>9, <1>10 DEF IInv, RequestInv

LEMMA ReportCheckKeeps ==
  ASSUME IInv, NEW r \in Requests, NEW n \in Nodes, ReportCheck(r, n)
  PROVE  IInv'
<1> USE DEF ReportCheck, cloudVars
<1>1. TypeOK /\ RequestsOK /\ RequestInv /\ OneInstancePerNode /\ ConnectedCanReport
  BY DEF IInv
<1>2. /\ DOMAIN req' = Requests
      /\ req'[r] = [at |-> "report", id |-> identity[n], node |-> n]
      /\ \A q \in Requests \ {r} : req'[q] = req[q]
  BY <1>1, GotoIs
<1>3. TypeOK'
  BY <1>1, <1>2 DEF TypeOK, Alive
<1>4. RequestsOK'
  BY <1>1, <1>2 DEF RequestsOK, TypeOK
<1>5. EditsKeepOwner'
  BY <1>1, <1>2 DEF RequestInv, EditsKeepOwner
<1>6. DeletionsAreFinal'
  BY <1>1, <1>2 DEF RequestInv, DeletionsAreFinal, Alive
<1>7. UpgradesAreSeeded'
  BY <1>1, <1>2 DEF RequestInv, UpgradesAreSeeded
<1>8. GoneIsGone'
  BY <1>1, <1>2 DEF RequestInv, GoneIsGone, Alive, Idle
<1>9. OneInstancePerNode'
  BY <1>1 DEF OneInstancePerNode, Alive
<1>10. ConnectedCanReport'
  BY <1>1 DEF ConnectedCanReport, Alive
<1> QED
  BY <1>3, <1>4, <1>5, <1>6, <1>7, <1>8, <1>9, <1>10 DEF IInv, RequestInv

LEMMA ReportStoreKeeps ==
  ASSUME IInv, NEW r \in Requests, ReportStore(r)
  PROVE  IInv'
<1> USE DEF ReportStore, cloudVars
<1>1. TypeOK /\ RequestsOK /\ RequestInv /\ OneInstancePerNode /\ ConnectedCanReport
  BY DEF IInv
<1>2. /\ DOMAIN req' = Requests
      /\ req'[r] = Idle
      /\ \A q \in Requests \ {r} : req'[q] = req[q]
  BY <1>1, FinishIs
<1>3. TypeOK'
  BY <1>1, <1>2 DEF TypeOK, Alive, RequestsOK, Idle
<1>4. RequestsOK'
  BY <1>1, <1>2 DEF RequestsOK, Idle
<1>5. EditsKeepOwner'
  BY <1>1, <1>2 DEF RequestInv, EditsKeepOwner, Idle
<1>6. DeletionsAreFinal'
  BY <1>1, <1>2 DEF RequestInv, DeletionsAreFinal, Alive, Idle
<1>7. UpgradesAreSeeded'
  BY <1>1, <1>2 DEF RequestInv, UpgradesAreSeeded, Idle
<1>8. GoneIsGone'
  BY <1>1, <1>2 DEF RequestInv, GoneIsGone, Alive, TypeOK, Idle
<1>9. OneInstancePerNode'
  BY <1>1 DEF OneInstancePerNode, Alive
<1>10. ConnectedCanReport'
  BY <1>1 DEF ConnectedCanReport, Alive
<1> QED
  BY <1>3, <1>4, <1>5, <1>6, <1>7, <1>8, <1>9, <1>10 DEF IInv, RequestInv

LEMMA PutReadKeeps ==
  ASSUME IInv, NEW r \in Requests, NEW i \in Ids, PutRead(r, i)
  PROVE  IInv'
<1> USE DEF PutRead, cloudVars
<1>1. TypeOK /\ RequestsOK /\ RequestInv /\ OneInstancePerNode /\ ConnectedCanReport
  BY DEF IInv
<1>2. /\ DOMAIN req' = Requests
      /\ req'[r] = [at |-> "put", id |-> i, node |-> owner[i]]
      /\ \A q \in Requests \ {r} : req'[q] = req[q]
  BY <1>1, GotoIs
<1>3. TypeOK'
  BY <1>1, <1>2 DEF TypeOK, Alive
<1>4. RequestsOK'
  BY <1>1, <1>2 DEF RequestsOK, TypeOK, Alive
<1>5. EditsKeepOwner'
  BY <1>1, <1>2 DEF RequestInv, EditsKeepOwner
<1>6. DeletionsAreFinal'
  BY <1>1, <1>2 DEF RequestInv, DeletionsAreFinal, Alive
<1>7. UpgradesAreSeeded'
  BY <1>1, <1>2 DEF RequestInv, UpgradesAreSeeded
<1>8. GoneIsGone'
  BY <1>1, <1>2 DEF RequestInv, GoneIsGone, Alive, Idle
<1>9. OneInstancePerNode'
  BY <1>1 DEF OneInstancePerNode, Alive
<1>10. ConnectedCanReport'
  BY <1>1 DEF ConnectedCanReport, Alive
<1> QED
  BY <1>3, <1>4, <1>5, <1>6, <1>7, <1>8, <1>9, <1>10 DEF IInv, RequestInv

LEMMA PutWriteKeeps ==
  ASSUME IInv, NEW r \in Requests, PutWrite(r)
  PROVE  IInv'
<1> USE DEF PutWrite, cloudVars
<1>1. TypeOK /\ RequestsOK /\ RequestInv /\ OneInstancePerNode /\ ConnectedCanReport
  BY DEF IInv
<1>2. /\ DOMAIN req' = Requests
      /\ req'[r] = Idle
      /\ \A q \in Requests \ {r} : req'[q] = req[q]
  BY <1>1, FinishIs
<1>3. TypeOK'
  BY <1>1, <1>2 DEF TypeOK, Alive, RequestsOK, Idle
<1>4. RequestsOK'
  BY <1>1, <1>2 DEF RequestsOK, Idle
<1>5. EditsKeepOwner'
  BY <1>1, <1>2 DEF RequestInv, EditsKeepOwner, Idle
<1>6. DeletionsAreFinal'
  BY <1>1, <1>2 DEF RequestInv, DeletionsAreFinal, Alive, Idle, EditsKeepOwner
<1>7. UpgradesAreSeeded'
  BY <1>1, <1>2 DEF RequestInv, UpgradesAreSeeded, Idle
<1>8. GoneIsGone'
  BY <1>1, <1>2 DEF RequestInv, GoneIsGone, Alive, TypeOK, RequestsOK, Idle
<1>9. OneInstancePerNode'
  BY <1>1 DEF RequestInv, OneInstancePerNode, Alive, EditsKeepOwner
<1>10. ConnectedCanReport'
  BY <1>1 DEF RequestInv, ConnectedCanReport, Alive, EditsKeepOwner
<1> QED
  BY <1>3, <1>4, <1>5, <1>6, <1>7, <1>8, <1>9, <1>10 DEF IInv, RequestInv

LEMMA DeleteFromHubKeeps ==
  ASSUME IInv, NEW r \in Requests, NEW i \in Ids, DeleteFromHub(r, i)
  PROVE  IInv'
<1> USE DEF DeleteFromHub, cloudVars
<1>1. TypeOK /\ RequestsOK /\ RequestInv /\ OneInstancePerNode /\ ConnectedCanReport
  BY DEF IInv
<1>2. /\ DOMAIN req' = Requests
      /\ req'[r] = [at |-> "forget", id |-> i, node |-> None]
      /\ \A q \in Requests \ {r} : req'[q] = req[q]
  BY <1>1, GotoIs
<1>3. TypeOK'
  BY <1>1, <1>2 DEF Disturb, Carried, TypeOK, Alive
<1>4. RequestsOK'
  BY <1>1, <1>2 DEF Disturb, Carried, RequestsOK, TypeOK
<1>5. EditsKeepOwner'
  BY <1>1, <1>2 DEF Disturb, Carried, RequestInv, EditsKeepOwner
<1>6. DeletionsAreFinal'
  BY <1>1, <1>2 DEF Disturb, Carried, RequestInv, DeletionsAreFinal, Alive, TypeOK
<1>7. UpgradesAreSeeded'
  BY <1>1, <1>2 DEF Disturb, Carried, RequestInv, UpgradesAreSeeded
<1>8. GoneIsGone'
  BY <1>1, <1>2 DEF Disturb, Carried, RequestInv, GoneIsGone, Alive, Idle
<1>9. OneInstancePerNode'
  BY <1>1 DEF Disturb, Carried, OneInstancePerNode, Alive
<1>10. ConnectedCanReport'
  BY <1>1 DEF Disturb, Carried, ConnectedCanReport, Alive
<1> QED
  BY <1>3, <1>4, <1>5, <1>6, <1>7, <1>8, <1>9, <1>10 DEF IInv, RequestInv

LEMMA DeleteAgentStateKeeps ==
  ASSUME IInv, NEW r \in Requests, DeleteAgentState(r)
  PROVE  IInv'
<1> USE DEF DeleteAgentState, cloudVars
<1>1. TypeOK /\ RequestsOK /\ RequestInv /\ OneInstancePerNode /\ ConnectedCanReport
  BY DEF IInv
<1>2. /\ DOMAIN req' = Requests
      /\ req'[r] = Idle
      /\ \A q \in Requests \ {r} : req'[q] = req[q]
  BY <1>1, FinishIs
<1>3. TypeOK'
  BY <1>1, <1>2 DEF Forget, Disturb, Carried, TypeOK, Alive, RequestsOK, Idle
<1>4. RequestsOK'
  BY <1>1, <1>2 DEF Forget, Disturb, Carried, RequestsOK, Idle
<1>5. EditsKeepOwner'
  BY <1>1, <1>2 DEF Forget, Disturb, Carried, RequestInv, EditsKeepOwner, Idle
<1>6. DeletionsAreFinal'
  BY <1>1, <1>2 DEF Forget, Disturb, Carried, RequestInv, DeletionsAreFinal, Alive, Idle
<1>7. UpgradesAreSeeded'
  BY <1>1, <1>2 DEF Forget, Disturb, Carried, RequestInv, UpgradesAreSeeded, Idle
<1>8. GoneIsGone'
  BY <1>1, <1>2 DEF Forget, Disturb, Carried, RequestInv, GoneIsGone, Alive, TypeOK, Idle
<1>9. OneInstancePerNode'
  BY <1>1 DEF Forget, Disturb, Carried, OneInstancePerNode, Alive
<1>10. ConnectedCanReport'
  BY <1>1 DEF Forget, Disturb, Carried, RequestInv, ConnectedCanReport, Alive, DeletionsAreFinal
<1> QED
  BY <1>3, <1>4, <1>5, <1>6, <1>7, <1>8, <1>9, <1>10 DEF IInv, RequestInv

LEMMA DeleteFailsKeeps ==
  ASSUME IInv, NEW r \in Requests, DeleteFails(r)
  PROVE  IInv'
<1> USE DEF DeleteFails, cloudVars
<1>1. TypeOK /\ RequestsOK /\ RequestInv /\ OneInstancePerNode /\ ConnectedCanReport
  BY DEF IInv
<1>2. /\ DOMAIN req' = Requests
      /\ req'[r] = Idle
      /\ \A q \in Requests \ {r} : req'[q] = req[q]
  BY <1>1, FinishIs
<1>3. TypeOK'
  BY <1>1, <1>2 DEF TypeOK, Alive, RequestsOK, Idle
<1>4. RequestsOK'
  BY <1>1, <1>2 DEF RequestsOK, Idle
<1>5. EditsKeepOwner'
  BY <1>1, <1>2 DEF RequestInv, EditsKeepOwner, Idle
<1>6. DeletionsAreFinal'
  BY <1>1, <1>2 DEF RequestInv, DeletionsAreFinal, Alive, Idle
<1>7. UpgradesAreSeeded'
  BY <1>1, <1>2 DEF RequestInv, UpgradesAreSeeded, Idle
<1>8. GoneIsGone'
  BY <1>1, <1>2 DEF RequestInv, GoneIsGone, Alive, TypeOK, Idle
<1>9. OneInstancePerNode'
  BY <1>1 DEF OneInstancePerNode, Alive
<1>10. ConnectedCanReport'
  BY <1>1 DEF ConnectedCanReport, Alive
<1> QED
  BY <1>3, <1>4, <1>5, <1>6, <1>7, <1>8, <1>9, <1>10 DEF IInv, RequestInv

LEMMA EnrollFindKeeps ==
  ASSUME IInv, NEW r \in Requests, NEW n \in Nodes, EnrollFind(r, n)
  PROVE  IInv'
<1> USE DEF cloudVars
<1>1. TypeOK /\ RequestsOK /\ RequestInv /\ OneInstancePerNode /\ ConnectedCanReport
  BY DEF IInv
<1>2. PICK at \in {"seed", "settings"}, id \in used \cup {None} :
        /\ id \in Alive \/ (at = "settings" /\ id = None)
        /\ Goto(r, at, id, n)
  BY <1>1 DEF EnrollFind, InstancesOf, TypeOK
<1>3. /\ DOMAIN req' = Requests
      /\ req'[r] = [at |-> at, id |-> id, node |-> n]
      /\ \A q \in Requests \ {r} : req'[q] = req[q]
  BY <1>1, <1>2, GotoIs
<1>4. UNCHANGED <<cloudVars, identity, disturbed>>
  BY DEF EnrollFind
<1>5. TypeOK'
  BY <1>1, <1>2, <1>3, <1>4 DEF TypeOK, Alive
<1>6. RequestsOK'
  BY <1>1, <1>2, <1>3, <1>4 DEF RequestsOK, TypeOK, Alive
<1>7. EditsKeepOwner'
  BY <1>1, <1>2, <1>3, <1>4 DEF RequestInv, EditsKeepOwner
<1>8. DeletionsAreFinal'
  BY <1>1, <1>2, <1>3, <1>4 DEF RequestInv, DeletionsAreFinal, Alive
<1>9. UpgradesAreSeeded'
  BY <1>1, <1>2, <1>3, <1>4 DEF RequestInv, UpgradesAreSeeded
<1>10. GoneIsGone'
  <2>1. req[r].at = "idle" /\ req[r].id = None
    BY DEF EnrollFind, Idle
  <2>2. ASSUME NEW i \in (used \ Alive) \ disturbed
        PROVE  i # id /\ i # None
    BY <1>1, <1>2 DEF TypeOK
  <2> QED
    BY <1>1, <1>2, <1>3, <1>4, <2>1, <2>2 DEF RequestInv, GoneIsGone, TypeOK, Alive
<1>11. OneInstancePerNode' /\ ConnectedCanReport'
  BY <1>1, <1>4 DEF OneInstancePerNode, ConnectedCanReport, Alive
<1> QED
  BY <1>5, <1>6, <1>7, <1>8, <1>9, <1>10, <1>11 DEF IInv, RequestInv

\* The identifier is new: no request, row or socket has it.
LEMMA EnrollCreateKeeps ==
  ASSUME IInv, NEW r \in Requests, EnrollCreate(r)
  PROVE  IInv'
<1>1. TypeOK /\ RequestsOK /\ RequestInv /\ OneInstancePerNode /\ ConnectedCanReport
  BY DEF IInv
<1> DEFINE n == req[r].node
<1>2. PICK i \in Ids \ used :
        /\ owner' = [owner EXCEPT ![i] = n]
        /\ used' = used \cup {i}
        /\ disturbed' = IF InstancesOf(n) = {} THEN disturbed ELSE disturbed \cup {i}
        /\ Goto(r, "seed", i, n)
  BY DEF EnrollCreate
<1>3. /\ DOMAIN req' = Requests
      /\ req'[r] = [at |-> "seed", id |-> i, node |-> n]
      /\ \A q \in Requests \ {r} : req'[q] = req[q]
  BY <1>1, <1>2, GotoIs
<1>4. UNCHANGED <<creds, rows, connected, identity>> /\ req[r].at = "create"
  BY DEF EnrollCreate
<1>5. n \in Nodes /\ n # None
  BY <1>1, <1>4 DEF RequestsOK
<1>6. /\ owner'[i] = n
      /\ \A j \in Ids \ {i} : owner'[j] = owner[j]
      /\ disturbed \subseteq disturbed' /\ disturbed' \subseteq disturbed \cup {i}
      /\ Alive' = Alive \cup {i}
  BY <1>1, <1>2, <1>5 DEF TypeOK, Alive
<1> HIDE DEF n
<1>7. /\ \A q \in Requests : req[q].id # i
      /\ \A m \in Nodes : connected[m] # i
      /\ i \notin creds \cup rows \cup disturbed
  BY <1>1 DEF TypeOK
<1>8. TypeOK'
  BY <1>1, <1>2, <1>3, <1>4, <1>5, <1>6 DEF TypeOK
<1>9. RequestsOK'
  BY <1>1, <1>2, <1>3, <1>4, <1>5 DEF RequestsOK
<1>10. EditsKeepOwner'
  BY <1>1, <1>3, <1>6, <1>7 DEF RequestInv, EditsKeepOwner, TypeOK, RequestsOK
<1>11. DeletionsAreFinal' /\ UpgradesAreSeeded'
  BY <1>1, <1>3, <1>4, <1>6, <1>7 DEF RequestInv, DeletionsAreFinal, UpgradesAreSeeded
<1>12. GoneIsGone'
  <2>1. (used' \ Alive') \ disturbed' \subseteq (used \ Alive) \ disturbed
    BY <1>2, <1>6
  <2> QED
    BY <1>1, <1>3, <1>4, <1>6, <1>7, <2>1 DEF RequestInv, GoneIsGone
<1>13. OneInstancePerNode'
  <2>1. ASSUME NEW j \in Alive, owner[j] = n
        PROVE  i \in disturbed'
    BY <1>1, <1>2, <2>1 DEF InstancesOf
  <2>2. ASSUME NEW j \in Alive', NEW k \in Alive', owner'[j] = owner'[k], j # k
        PROVE  {j, k} \cap disturbed' # {}
    <3>1. CASE i \in {j, k}
      BY <1>6, <2>1, <2>2, <3>1 DEF Alive
    <3>2. CASE i \notin {j, k}
      BY <1>1, <1>6, <2>2, <3>2 DEF OneInstancePerNode, Alive
    <3> QED
      BY <3>1, <3>2
  <2> QED
    BY <2>2 DEF OneInstancePerNode
<1>14. ConnectedCanReport'
  BY <1>1, <1>4, <1>6, <1>7 DEF ConnectedCanReport
<1> QED
  BY <1>8, <1>9, <1>10, <1>11, <1>12, <1>13, <1>14 DEF IInv, RequestInv

LEMMA ProvisionKeeps ==
  ASSUME IInv, NEW n \in Nodes, NEW i \in Ids, Provision(n, i)
  PROVE  IInv'
<1>1. TypeOK /\ RequestsOK /\ RequestInv /\ OneInstancePerNode /\ ConnectedCanReport
  BY DEF IInv
<1>2. /\ i \in Alive
      /\ identity' = [identity EXCEPT ![n] = i]
      /\ connected' = [connected EXCEPT ![n] = None]
      /\ UNCHANGED <<owner, used, creds, rows, req, disturbed>>
  BY DEF Provision, StartDaemon
<1>3. TypeOK'
  BY <1>1, <1>2 DEF TypeOK, Alive
<1>4. RequestsOK' /\ RequestInv' /\ OneInstancePerNode'
  BY <1>1, <1>2 DEF RequestsOK, RequestInv, EditsKeepOwner, DeletionsAreFinal, UpgradesAreSeeded,
       GoneIsGone, OneInstancePerNode, Alive, TypeOK
<1>5. ConnectedCanReport'
  BY <1>1, <1>2 DEF ConnectedCanReport, Alive, TypeOK
<1> QED
  BY <1>3, <1>4, <1>5 DEF IInv

LEMMA DisconnectKeeps ==
  ASSUME IInv, NEW n \in Nodes, Disconnect(n)
  PROVE  IInv'
<1>1. TypeOK /\ RequestsOK /\ RequestInv /\ OneInstancePerNode /\ ConnectedCanReport
  BY DEF IInv
<1>2. /\ connected' = [connected EXCEPT ![n] = None]
      /\ UNCHANGED <<owner, used, creds, rows, identity, req, disturbed>>
  BY DEF Disconnect
<1>3. TypeOK'
  BY <1>1, <1>2 DEF TypeOK, Alive
<1>4. RequestsOK' /\ RequestInv' /\ OneInstancePerNode'
  BY <1>1, <1>2 DEF RequestsOK, RequestInv, EditsKeepOwner, DeletionsAreFinal, UpgradesAreSeeded,
       GoneIsGone, OneInstancePerNode, Alive, TypeOK
<1>5. ConnectedCanReport'
  BY <1>1, <1>2 DEF ConnectedCanReport, Alive, TypeOK
<1> QED
  BY <1>3, <1>4, <1>5 DEF IInv

LEMMA StutterKeeps ==
  ASSUME IInv, UNCHANGED vars
  PROVE  IInv'
<1>1. UNCHANGED <<cloudVars, identity, req, disturbed>>
  BY DEF vars
<1>2. TypeOK'
  BY <1>1 DEF IInv, TypeOK, Alive, cloudVars
<1>3. RequestsOK' /\ RequestInv'
  BY <1>1 DEF IInv, RequestsOK, RequestInv, EditsKeepOwner, DeletionsAreFinal, UpgradesAreSeeded,
       GoneIsGone, Alive, cloudVars
<1>4. OneInstancePerNode' /\ ConnectedCanReport'
  BY <1>1 DEF IInv, OneInstancePerNode, ConnectedCanReport, Alive, cloudVars
<1> QED
  BY <1>2, <1>3, <1>4 DEF IInv

LEMMA InitIInv == Init => IInv
<1> SUFFICES ASSUME Init
             PROVE  IInv
  OBVIOUS
<1>1. Alive = {}
  BY DEF Init, Alive
<1>2. \A r \in Requests : req[r] = Idle
  BY DEF Init
<1>3. TypeOK
  BY <1>1 DEF Init, TypeOK, Idle
<1>4. RequestsOK /\ RequestInv
  BY <1>1, <1>2 DEF Init, RequestsOK, RequestInv, EditsKeepOwner, DeletionsAreFinal,
       UpgradesAreSeeded, GoneIsGone, Idle
<1>5. OneInstancePerNode /\ ConnectedCanReport
  BY <1>1 DEF Init, OneInstancePerNode, ConnectedCanReport
<1> QED
  BY <1>3, <1>4, <1>5 DEF IInv

LEMMA NextIInv == IInv /\ [Next]_vars => IInv'
<1> SUFFICES ASSUME IInv, [Next]_vars
             PROVE  IInv'
  OBVIOUS
<1>1. CASE UNCHANGED vars
  BY <1>1, StutterKeeps
<1>2. ASSUME NEW r \in Requests, NEW n \in Nodes,
             EnrollFind(r, n) \/ UpgradeCheck(r, n) \/ ReportCheck(r, n)
      PROVE  IInv'
  BY <1>2, EnrollFindKeeps, UpgradeCheckKeeps, ReportCheckKeeps
<1>3. ASSUME NEW r \in Requests, NEW i \in Ids, PutRead(r, i) \/ DeleteFromHub(r, i)
      PROVE  IInv'
  BY <1>3, PutReadKeeps, DeleteFromHubKeeps
<1>4. ASSUME NEW r \in Requests,
             EnrollSettings(r) \/ EnrollCreate(r) \/ EnrollSeed(r) \/ EnrollFails(r)
      PROVE  IInv'
  BY <1>4, EnrollSettingsKeeps, EnrollCreateKeeps, EnrollSeedKeeps, EnrollFailsKeeps
<1>5. ASSUME NEW r \in Requests,
             UpgradeSeed(r) \/ UpgradeAccept(r) \/ ReportStore(r) \/ PutWrite(r)
      PROVE  IInv'
  BY <1>5, UpgradeSeedKeeps, UpgradeAcceptKeeps, ReportStoreKeeps, PutWriteKeeps
<1>6. ASSUME NEW r \in Requests,
             DeleteAgentState(r) \/ DeleteFails(r)
      PROVE  IInv'
  BY <1>6, DeleteAgentStateKeeps, DeleteFailsKeeps
<1>7. ASSUME NEW n \in Nodes, Disconnect(n) \/ \E i \in Ids : Provision(n, i)
      PROVE  IInv'
  BY <1>7, DisconnectKeeps, ProvisionKeeps
<1> QED
  BY <1>1, <1>2, <1>3, <1>4, <1>5, <1>6, <1>7 DEF Next

LEMMA AlwaysIInv == Spec => []IInv
  BY InitIInv, NextIInv, PTL DEF Spec

(***************************************************************************)
(* Records, rows and requests keep their shapes.                           *)
(***************************************************************************)
THEOREM TypeCorrect == Spec => []TypeOK
<1>1. IInv => TypeOK
  BY DEF IInv
<1> QED
  BY <1>1, AlwaysIInv, PTL

(***************************************************************************)
(* POST /api/agent/enroll is idempotent: two instances of one node only    *)
(* come of requests that crossed.                                          *)
(***************************************************************************)
THEOREM Idempotent == Spec => []OneInstancePerNode
<1>1. IInv => OneInstancePerNode
  BY DEF IInv
<1> QED
  BY <1>1, AlwaysIInv, PTL

(***************************************************************************)
(* DELETE /api/instances/:id leaves nothing in D1 and no socket open,      *)
(* unless it crossed another request or failed half-way.                   *)
(***************************************************************************)
THEOREM Forgotten == Spec => []DeletedIsForgotten
<1>1. IInv => DeletedIsForgotten
  BY DEF IInv, RequestInv, GoneIsGone, DeletedIsForgotten
<1> QED
  BY <1>1, AlwaysIInv, PTL

(***************************************************************************)
(* handleAgentUpgrade seeds D1 before it accepts the socket: a connected   *)
(* node has the credential of its reports.                                 *)
(***************************************************************************)
THEOREM CanReport == Spec => []ConnectedCanReport
<1>1. IInv => ConnectedCanReport
  BY DEF IInv
<1> QED
  BY <1>1, AlwaysIInv, PTL
=============================================================================
