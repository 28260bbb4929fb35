-------------------------- MODULE UploadFlowProofs --------------------------
(***************************************************************************)
(* What holds of the upload page for every set of batches and every number *)
(* of loads, moves and lost requests.                                      *)
(*                                                                         *)
(* Nothing ties an answer to the address, so the invariant has to follow   *)
(* what is under way: as long as nothing disturbs the page, all of it is   *)
(* about the address, and a page that does not show its address yet waits  *)
(* for a load that will.                                                   *)
(***************************************************************************)
EXTENDS UploadFlow, TLAPS

\* What is under way is about the address, and what is not shown is awaited.
AwaitsAddress ==
  ~disturbed => ~Strays /\ (shown.id = address \/ BagToSet(loads) # {})

\* While a dialog counts as opened on a quiet page, the page stays quiet.
StaysQuiet == opened # Nobody => opened = address /\ Quiet

IInv == TypeOK /\ AwaitsAddress /\ StaysQuiet

-----------------------------------------------------------------------------
(* Bags of loads.                                                            *)

LEMMA OneInBag ==
  ASSUME NEW l
  PROVE  IsABag(SetToBag({l})) /\ BagToSet(SetToBag({l})) = {l}
  BY DEF IsABag, BagToSet, SetToBag

LEMMA NoneInBag == IsABag(EmptyBag) /\ BagToSet(EmptyBag) = {}
  BY DEF IsABag, BagToSet, SetToBag, EmptyBag

LEMMA BagsTogether ==
  ASSUME NEW B, NEW C, IsABag(B), IsABag(C)
  PROVE  IsABag(B (+) C) /\ BagToSet(B (+) C) = BagToSet(B) \cup BagToSet(C)
<1>1. DOMAIN (B (+) C) = DOMAIN B \cup DOMAIN C
  BY DEF (+)
<1>2. ASSUME NEW e \in DOMAIN B \cup DOMAIN C
      PROVE  (B (+) C)[e] \in {n \in Nat : n > 0}
  BY <1>2 DEF (+), IsABag
<1>3. B (+) C = [e \in DOMAIN (B (+) C) |-> (B (+) C)[e]]
  BY DEF (+)
<1> QED
  BY <1>1, <1>2, <1>3 DEF IsABag, BagToSet

LEMMA BagWithout ==
  ASSUME NEW B, NEW C, IsABag(B), IsABag(C)
  PROVE  IsABag(B (-) C) /\ BagToSet(B (-) C) \subseteq BagToSet(B)
<1> DEFINE D == [e \in DOMAIN B |-> IF e \in DOMAIN C THEN B[e] - C[e] ELSE B[e]]
           S == {d \in DOMAIN D : D[d] > 0}
<1>1. B (-) C = [e \in S |-> D[e]]
  BY DEF (-)
<1>2. S \subseteq DOMAIN B
  OBVIOUS
<1>3. ASSUME NEW e \in S PROVE D[e] \in {n \in Nat : n > 0}
  BY <1>3 DEF IsABag
<1> HIDE DEF D, S
<1> QED
  BY <1>1, <1>2, <1>3 DEF IsABag, BagToSet

LEMMA SentBag ==
  ASSUME NEW b, NEW n
  PROVE  IsABag(Sent(b, n)) /\ BagToSet(Sent(b, n)) = {[id |-> b, answer |-> "waiting"]}
<1> DEFINE one == SetToBag({[id |-> b, answer |-> "waiting"]})
<1>1. IsABag(one) /\ BagToSet(one) = {[id |-> b, answer |-> "waiting"]}
  BY OneInBag
<1>2. Sent(b, n) = one (+) (IF n = 2 THEN one ELSE EmptyBag)
  BY DEF Sent
<1> HIDE DEF one
<1>3. CASE n = 2
  BY <1>1, <1>2, <1>3, BagsTogether
<1>4. CASE n # 2
  BY <1>1, <1>2, <1>4, BagsTogether, NoneInBag
<1> QED
  BY <1>3, <1>4

\* What a step does to the loads under way.
LEMMA LoadsSent ==
  ASSUME IsABag(loads), NEW b, NEW n, loads' = loads (+) Sent(b, n)
  PROVE  /\ IsABag(loads')
         /\ BagToSet(loads') = BagToSet(loads) \cup {[id |-> b, answer |-> "waiting"]}
  BY SentBag, BagsTogether

LEMMA LoadEnds ==
  ASSUME IsABag(loads), NEW l, loads' = loads (-) SetToBag({l})
  PROVE  IsABag(loads') /\ BagToSet(loads') \subseteq BagToSet(loads)
  BY OneInBag, BagWithout

LEMMA LoadBecomes ==
  ASSUME IsABag(loads), NEW l, NEW m, Becomes(l, m)
  PROVE  /\ IsABag(loads')
         /\ m \in BagToSet(loads')
         /\ BagToSet(loads') \subseteq BagToSet(loads) \cup {m}
<1>1. loads' = (loads (-) SetToBag({l})) (+) SetToBag({m})
  BY DEF Becomes
<1>2. /\ IsABag(loads (-) SetToBag({l}))
      /\ BagToSet(loads (-) SetToBag({l})) \subseteq BagToSet(loads)
  BY OneInBag, BagWithout
<1>3. IsABag(SetToBag({m})) /\ BagToSet(SetToBag({m})) = {m}
  BY OneInBag
<1> QED
  BY <1>1, <1>2, <1>3, BagsTogether

-----------------------------------------------------------------------------
(* Types.                                                                    *)

LEMMA LoadIsTyped ==
  ASSUME TypeOK, NEW l \in BagToSet(loads)
  PROVE  l \in Load /\ l.id \in Batches /\ l.answer \in Status \cup {"waiting"}
  BY DEF TypeOK, Load

LEMMA ActIsTyped ==
  ASSUME TypeOK, busy
  PROVE  act \in Act /\ act.id \in Batches /\ act.answer \in Answer
  BY DEF TypeOK, Act, busy

\* A dialog that the address closes or leaves.
LEMMA DialogsType ==
  ASSUME TypeOK, NEW a \in Batches \cup {Nobody}, ClosesDialogs(a)
  PROVE  dialog' \in {"none", "publish", "hold"} /\ opened' \in Batches \cup {Nobody}
  BY DEF TypeOK, ClosesDialogs

LEMMA SendsType ==
  ASSUME TypeOK, NEW b \in Batches, NEW n, loads' = loads (+) Sent(b, n)
  PROVE  IsABag(loads') /\ BagToSet(loads') \subseteq Load
<1>1. [id |-> b, answer |-> "waiting"] \in Load
  BY DEF Load
<1> QED
  BY <1>1, LoadsSent DEF TypeOK

LEMMA MovesType ==
  ASSUME TypeOK, moves < MaxMoves, moves' = moves + 1
  PROVE  moves' \in 0..MaxMoves
  BY UploadFlowAssumption DEF TypeOK

LEMMA FailuresType ==
  ASSUME TypeOK, failures < MaxFailures, failures' = failures + 1
  PROVE  failures' \in 0..MaxFailures /\ failures' # failures
  BY UploadFlowAssumption DEF TypeOK

LEMMA StepType == TypeOK /\ Step /\ Note => TypeOK'
<1> SUFFICES ASSUME TypeOK, Step, Note PROVE TypeOK'
  OBVIOUS
<1> USE DEF TypeOK
<1>1. disturbed' \in BOOLEAN
  BY DEF Note, Strays
<1>2. ASSUME NEW b \in Batches, Open(b) PROVE TypeOK'
  BY <1>1, <1>2, DialogsType, SendsType, MovesType DEF Open
<1>3. ASSUME NEW b \in Batches, Upload(b) PROVE TypeOK'
  <2>1. status' \in [Batches -> Status]
    BY <1>3 DEF Upload, Status
  <2> QED
    BY <1>1, <1>3, <2>1, DialogsType, SendsType, MovesType DEF Upload
<1>4. CASE Leave
  BY <1>1, <1>4, DialogsType, MovesType DEF Leave, ShowNothing
<1>5. CASE Poll
  <2>1. shown.id \in Batches
    BY <1>5 DEF Poll, NoBatch
  <2> QED
    BY <1>1, <1>5, <2>1, SendsType DEF Poll
<1>6. CASE CancelDialog
  BY <1>1, <1>6 DEF CancelDialog
<1>7. ASSUME NEW kind \in {"publish", "hold"}, OpenDialog(kind) PROVE TypeOK'
  BY <1>1, <1>7 DEF OpenDialog, NoBatch
<1>8. ASSUME NEW kind \in {"publish", "hold"}, Confirm(kind) PROVE TypeOK'
  <2>1. shown.id \in Batches
    BY <1>8 DEF Confirm, Offers, NoBatch
  <2>2. act' \in Act
    BY <1>8, <2>1 DEF Confirm, SendAct, Act, Answer
  <2> QED
    BY <1>1, <1>8, <2>2 DEF Confirm
<1>9. CASE Retry
  <2>1. shown.id \in Batches
    BY <1>9 DEF Retry, NoBatch
  <2>2. act' \in Act
    BY <1>9, <2>1 DEF Retry, SendAct, Act, Answer
  <2> QED
    BY <1>1, <1>9, <2>2 DEF Retry
<1>10. ASSUME NEW b \in Batches, NEW s \in {"held", "rejected"}, Parse(b, s) PROVE TypeOK'
  BY <1>1, <1>10 DEF Parse, Status
<1>11. ASSUME NEW b \in Batches, Elsewhere(b) PROVE TypeOK'
  BY <1>1, <1>11 DEF Elsewhere, Status
<1>12. ASSUME NEW l \in BagToSet(loads), ServeLoad(l) PROVE TypeOK'
  <2>1. l \in Load /\ status[l.id] \in Status
    BY LoadIsTyped
  <2>2. [l EXCEPT !.answer = status[l.id]] \in Load
    BY <2>1 DEF Load
  <2>3. IsABag(loads') /\ BagToSet(loads') \subseteq Load
    BY <1>12, <2>2, LoadBecomes DEF ServeLoad
  <2> QED
    BY <1>1, <1>12, <2>3 DEF ServeLoad
<1>13. ASSUME NEW l \in BagToSet(loads), LoadAnswer(l) PROVE TypeOK'
  <2>1. IsABag(loads') /\ BagToSet(loads') \subseteq Load
    BY <1>13, LoadEnds DEF LoadAnswer
  <2>2. CASE l.answer = "none"
    BY <1>1, <1>13, <2>1, <2>2, DialogsType DEF LoadAnswer, Missing
  <2>3. CASE l.answer # "none"
    <3>1. l.id \in Batches /\ l.answer \in Status \ {"none"}
      BY <1>13, <2>3, LoadIsTyped DEF LoadAnswer
    <3> QED
      BY <1>1, <1>13, <2>1, <2>3, <3>1 DEF LoadAnswer, Takes, Shows
  <2> QED
    BY <2>2, <2>3
<1>14. ASSUME NEW l \in BagToSet(loads), LoadFails(l) PROVE TypeOK'
  <2>1. IsABag(loads') /\ BagToSet(loads') \subseteq Load
    BY <1>14, LoadEnds DEF LoadFails
  <2> QED
    BY <1>1, <1>14, <2>1, FailuresType DEF LoadFails
<1>15. CASE ServeAct
  <2>1. act \in Act /\ act.id \in Batches
    BY <1>15, ActIsTyped DEF ServeAct
  <2> DEFINE s == Outcome(act.kind, status[act.id])
  <2>2. s \in Answer /\ (s # "error" => s \in Status)
    BY DEF Outcome, Answer, Status
  <2>3. /\ act' = [act EXCEPT !.answer = s]
        /\ status' = IF s = "error" THEN status ELSE [status EXCEPT ![act.id] = s]
    BY <1>15 DEF ServeAct
  <2> HIDE DEF s
  <2>4. act' \in Act
    BY <2>1, <2>2, <2>3 DEF Act
  <2>5. status' \in [Batches -> Status]
    BY <2>1, <2>2, <2>3
  <2> QED
    BY <1>1, <1>15, <2>4, <2>5 DEF ServeAct
<1>16. CASE ActAnswer
  <2>1. act.id \in Batches /\ act.answer \in Answer
    BY <1>16, ActIsTyped DEF ActAnswer
  <2>2. shown' \in [id : Batches, status : Status \ {"none"}] \cup {NoBatch}
    BY <1>16, <2>1 DEF ActAnswer, Shows, Answer
  <2>3. dialog' \in {"none", "publish", "hold"} /\ opened' \in Batches \cup {Nobody}
    BY <1>16 DEF ActAnswer, ClosesOwnDialog
  <2> QED
    BY <1>1, <1>16, <2>2, <2>3 DEF ActAnswer
<1>17. CASE ActFails
  <2>1. dialog' \in {"none", "publish", "hold"} /\ opened' \in Batches \cup {Nobody}
    BY <1>17 DEF ActFails, ClosesOwnDialog
  <2> QED
    BY <1>1, <1>17, <2>1, FailuresType DEF ActFails
<1> QED
  BY <1>2, <1>3, <1>4, <1>5, <1>6, <1>7, <1>8, <1>9, <1>10, <1>11, <1>12, <1>13, <1>14,
     <1>15, <1>16, <1>17 DEF Step

-----------------------------------------------------------------------------
(* What is under way.                                                        *)

\* An undisturbed step: it loses nothing, leaves nothing about another batch
\* under way, and begins undisturbed unless it changes the address.
LEMMA Undisturbed ==
  ASSUME TypeOK, Note, ~disturbed'
  PROVE  /\ ~Strays'
         /\ failures' = failures
         /\ disturbed => address' # address
  BY DEF Note

LEMMA AwaitsStep == TypeOK /\ TypeOK' /\ AwaitsAddress /\ Step /\ Note => AwaitsAddress'
<1> SUFFICES ASSUME TypeOK, TypeOK', AwaitsAddress, Step, Note, ~disturbed'
             PROVE  shown'.id = address' \/ BagToSet(loads') # {}
  BY Undisturbed DEF AwaitsAddress, Strays
<1>1. failures' = failures /\ (disturbed => address' # address)
  BY Undisturbed
<1>2. address' = address =>
        /\ \A l \in BagToSet(loads) : l.id = address
        /\ busy => act.id = address
        /\ shown.id = address \/ BagToSet(loads) # {}
  BY <1>1 DEF AwaitsAddress, Strays
<1>3. IsABag(loads)
  BY DEF TypeOK
<1>4. ASSUME NEW b \in Batches, Open(b) PROVE BagToSet(loads') # {}
  BY <1>3, <1>4, LoadsSent DEF Open
<1>5. ASSUME NEW b \in Batches, Upload(b) PROVE BagToSet(loads') # {}
  <2>1. \E n : loads' = loads (+) Sent(b, n)
    BY <1>5 DEF Upload
  <2> QED
    BY <1>3, <2>1, LoadsSent
<1>6. CASE Leave
  BY <1>6 DEF Leave, ShowNothing, NoBatch
<1>7. CASE Poll
  BY <1>3, <1>7, LoadsSent DEF Poll
<1>8. CASE UNCHANGED <<address, shown, loads>>
  BY <1>2, <1>8
<1>9. ASSUME NEW l \in BagToSet(loads), ServeLoad(l) PROVE BagToSet(loads') # {}
  BY <1>3, <1>9, LoadBecomes DEF ServeLoad
<1>10. ASSUME NEW l \in BagToSet(loads), LoadAnswer(l) PROVE shown'.id = address'
  <2>1. CASE l.answer = "none"
    BY <1>10, <2>1 DEF LoadAnswer, Missing, NoBatch
  <2>2. CASE l.answer # "none"
    BY <1>2, <1>10, <2>2 DEF LoadAnswer, Takes, Shows
  <2> QED
    BY <2>1, <2>2
<1>11. ASSUME NEW l \in BagToSet(loads), LoadFails(l) PROVE FALSE
  BY <1>1, <1>11, FailuresType DEF LoadFails
<1>12. CASE ActAnswer
  <2>1. address' = address /\ loads' = loads
    BY <1>12 DEF ActAnswer
  <2>2. shown'.id = act.id \/ shown' = shown
    BY <1>12 DEF ActAnswer, Shows
  <2> QED
    BY <1>2, <1>12, <2>1, <2>2 DEF ActAnswer
<1>13. CASE ActFails
  BY <1>1, <1>13, FailuresType DEF ActFails
<1> QED
  BY <1>4, <1>5, <1>6, <1>7, <1>8, <1>9, <1>10, <1>11, <1>12, <1>13
  DEF Step, CancelDialog, Retry, OpenDialog, Confirm, Parse, Elsewhere, ServeAct

-----------------------------------------------------------------------------
(* Dialogs.                                                                  *)

\* A dialog that outlives a step of the address is one of the same address.
LEMMA SameAddress ==
  ASSUME NEW a, address' = a, ClosesDialogs(a), opened' # Nobody
  PROVE  a = address /\ opened' = opened
  BY DEF ClosesDialogs

\* More loads of the address, or fewer loads, leave a quiet page quiet.
LEMMA StaysSettled ==
  ASSUME Quiet, UNCHANGED <<address, act>>, shown'.id = shown.id,
         \A l \in BagToSet(loads') : l.id = address
  PROVE  Quiet'
  BY DEF Quiet, Settled, busy

LEMMA QuietStep == TypeOK /\ TypeOK' /\ StaysQuiet /\ Step => StaysQuiet'
<1> SUFFICES ASSUME TypeOK, TypeOK', StaysQuiet, Step, opened' # Nobody
             PROVE  opened' = address' /\ Quiet'
  BY DEF StaysQuiet
<1>1. opened # Nobody =>
        /\ opened = address /\ Quiet /\ address = shown.id
        /\ \A l \in BagToSet(loads) : l.id = address
        /\ busy => act.id = address
  BY DEF StaysQuiet, Quiet, Settled
<1>2. IsABag(loads)
  BY DEF TypeOK
<1>3. ASSUME NEW b \in Batches, Open(b) PROVE FALSE
  BY <1>3, SameAddress DEF Open
<1>4. ASSUME NEW b \in Batches, Upload(b) PROVE opened' = address' /\ Quiet'
  <2>1. PICK n : loads' = loads (+) Sent(b, n)
    BY <1>4 DEF Upload
  <2>2. BagToSet(loads') = BagToSet(loads) \cup {[id |-> b, answer |-> "waiting"]}
    BY <1>2, <2>1, LoadsSent
  <2>3. b = address /\ opened' = opened
    BY <1>4, SameAddress DEF Upload
  <2>4. UNCHANGED <<address, act, shown>>
    BY <1>4, <2>3 DEF Upload
  <2> QED
    BY <1>1, <2>2, <2>3, <2>4, StaysSettled
<1>5. CASE Leave
  BY <1>5, SameAddress DEF Leave
<1>6. CASE Poll
  <2>1. BagToSet(loads') = BagToSet(loads) \cup {[id |-> shown.id, answer |-> "waiting"]}
    BY <1>2, <1>6, LoadsSent DEF Poll
  <2> QED
    BY <1>1, <1>6, <2>1, StaysSettled DEF Poll
<1>7. CASE CancelDialog
  BY <1>7 DEF CancelDialog
<1>8. ASSUME NEW kind \in {"publish", "hold"}, OpenDialog(kind)
      PROVE  opened' = address' /\ Quiet'
  BY <1>8 DEF OpenDialog, Quiet, Settled, busy
<1>9. ASSUME UNCHANGED <<address, shown, loads, opened>>, act'.id = shown.id
      PROVE  opened' = address' /\ Quiet'
  BY <1>1, <1>9 DEF Quiet, Settled, busy
<1>10. ASSUME NEW kind \in {"publish", "hold"}, Confirm(kind)
       PROVE  opened' = address' /\ Quiet'
  BY <1>9, <1>10 DEF Confirm, SendAct
<1>11. CASE Retry
  BY <1>9, <1>11 DEF Retry, SendAct
<1>12. CASE UNCHANGED <<address, shown, loads, opened, act>>
  BY <1>1, <1>12, StaysSettled
<1>13. ASSUME NEW l \in BagToSet(loads), ServeLoad(l) PROVE opened' = address' /\ Quiet'
  <2> DEFINE m == [l EXCEPT !.answer = status[l.id]]
  <2>1. m.id = l.id
    BY LoadIsTyped DEF Load
  <2>2. BagToSet(loads') \subseteq BagToSet(loads) \cup {m}
    BY <1>2, <1>13, LoadBecomes DEF ServeLoad
  <2>3. UNCHANGED <<address, act, shown, opened>>
    BY <1>13 DEF ServeLoad
  <2> HIDE DEF m
  <2> QED
    BY <1>1, <2>1, <2>2, <2>3, StaysSettled
<1>14. ASSUME NEW l \in BagToSet(loads), LoadAnswer(l) PROVE opened' = address' /\ Quiet'
  <2>1. BagToSet(loads') \subseteq BagToSet(loads)
    BY <1>2, <1>14, LoadEnds DEF LoadAnswer
  <2>2. CASE l.answer = "none"
    <3>1. address' = Nobody /\ opened' = opened /\ address = Nobody
      BY <1>14, <2>2, SameAddress DEF LoadAnswer, Missing
    <3> QED
      BY <1>1, <3>1
  <2>3. CASE l.answer # "none"
    <3>1. UNCHANGED <<address, act, opened>> /\ shown'.id = l.id
      BY <1>14, <2>3 DEF LoadAnswer, Takes, Shows
    <3> QED
      BY <1>1, <2>1, <3>1, StaysSettled
  <2> QED
    BY <2>2, <2>3
<1>15. ASSUME NEW l \in BagToSet(loads), LoadFails(l) PROVE opened' = address' /\ Quiet'
  <2>1. BagToSet(loads') \subseteq BagToSet(loads)
    BY <1>2, <1>15, LoadEnds DEF LoadFails
  <2> QED
    BY <1>1, <1>15, <2>1, StaysSettled DEF LoadFails
<1>16. CASE ServeAct
  <2>1. UNCHANGED <<address, shown, loads, opened>> /\ act'.id = act.id /\ busy
    BY <1>16, ActIsTyped DEF ServeAct, Act
  <2> QED
    BY <1>1, <1>9, <2>1
<1>17. ASSUME ClosesOwnDialog PROVE opened' = opened
  BY <1>17 DEF ClosesOwnDialog
<1>18. CASE ActAnswer
  <2>1. act' = NoAct /\ UNCHANGED <<address, loads, opened>>
    BY <1>17, <1>18 DEF ActAnswer
  <2>2. shown'.id = act.id \/ shown' = shown
    BY <1>18 DEF ActAnswer, Shows
  <2>3. shown'.id = address
    BY <1>1, <1>18, <2>1, <2>2 DEF ActAnswer
  <2> QED
    BY <1>1, <2>1, <2>3 DEF Quiet, Settled, busy
<1>19. CASE ActFails
  BY <1>1, <1>17, <1>19 DEF ActFails, Quiet, Settled, busy
<1> QED
  BY <1>3, <1>4, <1>5, <1>6, <1>7, <1>8, <1>10, <1>11, <1>12, <1>13, <1>14, <1>15, <1>16,
     <1>18, <1>19
  DEF Step, Parse, Elsewhere

-----------------------------------------------------------------------------
(* The invariant and the theorems.                                           *)

LEMMA InitIInv == Init => IInv
<1> SUFFICES ASSUME Init PROVE IInv
  OBVIOUS
<1>1. TypeOK
  <2>1. IsABag(loads) /\ BagToSet(loads) \subseteq Load
    BY NoneInBag DEF Init
  <2>2. status \in [Batches -> Status]
    BY DEF Init, Status
  <2>3. moves \in 0..MaxMoves /\ failures \in 0..MaxFailures
    BY UploadFlowAssumption DEF Init
  <2>4. /\ address \in Batches \cup {Nobody}
        /\ opened \in Batches \cup {Nobody}
        /\ shown = NoBatch /\ act = NoAct /\ dialog = "none"
    BY DEF Init
  <2>5. disturbed \in BOOLEAN
    BY DEF Init
  <2> QED
    BY <2>1, <2>2, <2>3, <2>4, <2>5 DEF TypeOK
<1>2. AwaitsAddress
  BY NoneInBag DEF Init, AwaitsAddress, Strays, busy, NoBatch
<1>3. StaysQuiet
  BY DEF Init, StaysQuiet
<1> QED
  BY <1>1, <1>2, <1>3 DEF IInv

LEMMA NextIInv == IInv /\ [Next]_vars => IInv'
<1> SUFFICES ASSUME IInv, [Next]_vars PROVE IInv'
  OBVIOUS
<1>1. CASE Next
  BY <1>1, StepType, AwaitsStep, QuietStep DEF IInv, Next
<1>2. CASE UNCHANGED vars
  BY <1>2 DEF vars, IInv, TypeOK, AwaitsAddress, StaysQuiet, Strays, Quiet, Settled, busy
<1> QED
  BY <1>1, <1>2

LEMMA Invariant == Spec => []IInv
  BY InitIInv, NextIInv, PTL DEF Spec

\* Every variable of the page and of the server keeps its type: in particular
\* what is shown is a batch the server has (loadBatch, onPublish, onHold).
THEOREM TypeCorrect == Spec => []TypeOK
<1>1. IInv => TypeOK
  BY DEF IInv
<1> QED
  BY <1>1, Invariant, PTL

\* Once no load is under way the page shows the batch of its address, unless an
\* answer about another one was still to come when the address had changed, or
\* a request was lost (loadBatch).
THEOREM PageShowsAddress == Spec => []AddressIsShown
<1>1. IInv => AddressIsShown
  BY NoneInBag DEF IInv, AwaitsAddress, AddressIsShown
<1> QED
  BY <1>1, Invariant, PTL

\* A publish or a hold acts on the batch whose dialog was opened on a quiet page
\* (onPublish, onHold).
THEOREM DialogsActOnTheirBatch == Spec => ConfirmedIsOpened
<1>1. IInv /\ [Next]_vars =>
        [~busy /\ busy' /\ act'.kind # "retry" /\ opened # Nobody => act'.id = opened]_vars
  <2> SUFFICES ASSUME IInv, Next, ~busy, busy', act'.kind # "retry", opened # Nobody
               PROVE  act'.id = opened
    OBVIOUS
  <2>1. opened = shown.id
    BY DEF IInv, StaysQuiet, Quiet
  <2>2. act' # act
    BY DEF busy
  <2>3. CASE Retry
    BY <2>3 DEF Retry, SendAct
  <2>4. ASSUME NEW kind \in {"publish", "hold"}, Confirm(kind) PROVE act'.id = opened
    BY <2>1, <2>4 DEF Confirm, SendAct
  <2>5. CASE ServeAct \/ ActAnswer \/ ActFails
    BY <2>5 DEF ServeAct, ActAnswer, ActFails
  <2> QED
    BY <2>2, <2>3, <2>4, <2>5
    DEF Next, Step, Open, Upload, Elsewhere, Leave, Poll, CancelDialog, OpenDialog, Parse,
        ServeLoad, LoadAnswer, LoadFails
<1> QED
  BY <1>1, Invariant, PTL DEF Spec, ConfirmedIsOpened
=============================================================================
