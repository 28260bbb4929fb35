----------------------------- MODULE UploadFlow -----------------------------
(***************************************************************************)
(* The upload page (ItemUploadFlow.tsx, on the page that keeps the batch   *)
(* in its address): it shows one batch, polls it while it is processing,   *)
(* and lets a steward publish it, take it off search or retry it.          *)
(*                                                                         *)
(* Every request is sent, handled by the server and answered to the page   *)
(* in separate steps, and answers come in any order: loadBatch cancels     *)
(* nothing.  Meanwhile the address changes (links of LiveSourcePane, the   *)
(* back button), batches are parsed, and other stewards publish and hold.  *)
(* What a handler or an effect of the page does runs without interruption  *)
(* and is one action.                                                      *)
(*                                                                         *)
(* An upload is one action, from the request to its answer: nothing but    *)
(* the disabled button depends on it being under way.  The server reads    *)
(* the batch it answers with in the step that changes it.  Left out: file  *)
(* picker, notes and errors, the list of skipped rows (which does cancel), *)
(* and the destination that is picked when publishing.  The user is a      *)
(* steward.                                                                *)
(*                                                                         *)
(* opened and disturbed are history variables.                             *)
(***************************************************************************)
EXTENDS Naturals, FiniteSets, Bags

CONSTANTS
  Batches,      \* ids an address may hold
  Nobody,       \* no batch
  MaxLoads,     \* bound: loads of a batch under way at once
  MaxMoves,     \* bound: changes of the address by the user, and uploads
  MaxFailures   \* bound: requests that are lost

ASSUME UploadFlowAssumption ==
  /\ Nobody \notin Batches
  /\ MaxLoads \in Nat
  /\ MaxMoves \in Nat
  /\ MaxFailures \in Nat

\* "none": there is no such batch
Status == {"none", "processing", "held", "published", "rejected"}

Answer == (Status \ {"none"}) \cup {"waiting", "error"}

\* A request about a batch, and the server's answer once it has one.
Load == [id : Batches, answer : Status \cup {"waiting"}]
Act == [kind : {"publish", "hold", "retry"}, id : Batches, answer : Answer]

NoAct == [kind |-> "none", id |-> Nobody, answer |-> "waiting"]
NoBatch == [id |-> Nobody, status |-> "none"]

VARIABLES
  status,     \* the server's batches
  address,    \* batchIdParam
  shown,      \* batch: what the page last heard
  dialog,     \* which of confirmingPublish, confirmingHold is set
  act,        \* the publish, hold or retry under way; busy while there is one
  loads,      \* loadBatch calls under way, as a bag
  opened,     \* history: the batch whose dialog was opened on a quiet page
  disturbed,  \* history: see Strays
  moves,      \* how often the user has moved
  failures    \* how many requests were lost

vars == <<status, address, shown, dialog, act, loads, opened, disturbed, moves, failures>>

TypeOK ==
  /\ status \in [Batches -> Status]
  /\ address \in Batches \cup {Nobody}
  /\ shown \in [id : Batches, status : Status \ {"none"}] \cup {NoBatch}
  /\ dialog \in {"none", "publish", "hold"}
  /\ act \in Act \cup {NoAct}
  /\ IsABag(loads) /\ BagToSet(loads) \subseteq Load
  /\ opened \in Batches \cup {Nobody}
  /\ disturbed \in BOOLEAN
  /\ moves \in 0..MaxMoves
  /\ failures \in 0..MaxFailures

Init ==
  /\ status = [b \in Batches |-> "none"]
  /\ address = Nobody
  /\ shown = NoBatch
  /\ dialog = "none"
  /\ act = NoAct
  /\ loads = EmptyBag
  /\ opened = Nobody
  /\ disturbed = FALSE
  /\ moves = 0
  /\ failures = 0

-----------------------------------------------------------------------------
busy == act # NoAct

\* Nothing is under way that could bring another batch onto the page.
Settled(b) ==
  /\ \A l \in BagToSet(loads) : l.id = b
  /\ busy => act.id = b

Quiet == address = shown.id /\ Settled(address)

Sent(b, n) == SetToBag({[id |-> b, answer |-> "waiting"]}) (+)
              (IF n = 2 THEN SetToBag({[id |-> b, answer |-> "waiting"]}) ELSE EmptyBag)

Room(n) == BagCardinality(loads) + n <= MaxLoads

\* WRONG (breaks ConfirmedIsOpened): a dialog stays open over the change
KeepsDialogs(a) == UNCHANGED <<dialog, opened>>

\* The effect on batchIdParam closes both dialogs.
ClosesDialogs(a) ==
  IF a = address THEN UNCHANGED <<dialog, opened>>
                 ELSE dialog' = "none" /\ opened' = Nobody

\* Back to an address without a batch: nothing is shown.
ShowNothing == shown' = NoBatch

-----------------------------------------------------------------------------
(* The page.                                                                 *)

\* The user follows a link to a batch, or goes back.
Open(b) ==
  /\ moves < MaxMoves
  /\ b # address
  /\ Room(1)
  /\ address' = b
  /\ ClosesDialogs(b)
  /\ loads' = loads (+) Sent(b, 1)
  /\ moves' = moves + 1
  /\ UNCHANGED <<status, shown, act, failures>>

Leave ==
  /\ moves < MaxMoves
  /\ address # Nobody
  /\ address' = Nobody
  /\ ClosesDialogs(Nobody)
  /\ ShowNothing
  /\ moves' = moves + 1
  /\ UNCHANGED <<status, act, loads, failures>>

\* onUpload: a new file, or one the server has already; a batch that is stuck
\* or was rejected is parsed again.  The batch is put into the address, whose
\* effect loads it, and onUpload loads it too.
Upload(b) ==
  /\ moves < MaxMoves
  /\ Room(IF b = address THEN 1 ELSE 2)
  /\ status' = [status EXCEPT ![b] =
                  IF @ \in {"none", "rejected"} THEN "processing" ELSE @]
  /\ address' = b
  /\ ClosesDialogs(b)
  /\ loads' = loads (+) Sent(b, IF b = address THEN 1 ELSE 2)
  /\ moves' = moves + 1
  /\ UNCHANGED <<shown, act, failures>>

\* Every two seconds while the batch on the page is processing.
Poll ==
  /\ shown.status = "processing"
  /\ Room(1)
  /\ loads' = loads (+) Sent(shown.id, 1)
  /\ UNCHANGED <<status, address, shown, dialog, act, opened, moves, failures>>

\* canPublish, canHold
Offers(kind) ==
  \/ kind = "publish" /\ shown.status = "held"
  \/ kind = "hold" /\ shown.status = "published"

OpenDialog(kind) ==
  /\ Offers(kind)
  /\ dialog = "none"
  /\ ~busy
  /\ dialog' = kind
  /\ opened' = IF Quiet THEN shown.id ELSE Nobody
  /\ UNCHANGED <<status, address, shown, act, loads, moves, failures>>

\* Cancel is disabled while something is under way, in both dialogs.
CancelDialog ==
  /\ dialog # "none"
  /\ Offers(dialog)
  /\ ~busy
  /\ dialog' = "none"
  /\ opened' = Nobody
  /\ UNCHANGED <<status, address, shown, act, loads, moves, failures>>

SendAct(kind) == act' = [kind |-> kind, id |-> shown.id, answer |-> "waiting"]

\* onPublish, onHold
Confirm(kind) ==
  /\ dialog = kind
  /\ Offers(kind)
  /\ ~busy
  /\ SendAct(kind)
  /\ UNCHANGED <<status, address, shown, dialog, loads, opened, moves, failures>>

\* onRetry, offered for a rejected batch, and after two minutes of processing
Retry ==
  /\ shown.status \in {"processing", "rejected"}
  /\ ~busy
  /\ SendAct("retry")
  /\ UNCHANGED <<status, address, shown, dialog, loads, opened, moves, failures>>

-----------------------------------------------------------------------------
(* The server.                                                               *)

\* The job ends.
Parse(b, s) ==
  /\ status[b] = "processing"
  /\ s \in {"held", "rejected"}
  /\ status' = [status EXCEPT ![b] = s]
  /\ UNCHANGED <<address, shown, dialog, act, loads, opened, moves, failures>>

\* Another steward publishes it or takes it off.
Elsewhere(b) ==
  /\ status[b] \in {"held", "published"}
  /\ status' = [status EXCEPT ![b] = IF @ = "held" THEN "published" ELSE "held"]
  /\ UNCHANGED <<address, shown, dialog, act, loads, opened, moves, failures>>

Becomes(l, m) == loads' = (loads (-) SetToBag({l})) (+) SetToBag({m})

ServeLoad(l) ==
  /\ l.answer = "waiting"
  /\ Becomes(l, [l EXCEPT !.answer = status[l.id]])
  /\ UNCHANGED <<status, address, shown, dialog, act, opened, moves, failures>>

\* What a publish, hold or retry makes of the batch.
Outcome(kind, s) ==
  CASE kind = "publish" /\ s = "held" -> "published"
    [] kind = "hold" /\ s \in {"held", "published"} -> "held"
    [] kind = "retry" /\ s \in {"processing", "rejected"} -> "processing"
    [] OTHER -> "error"

ServeAct ==
  /\ busy
  /\ act.answer = "waiting"
  /\ LET s == Outcome(act.kind, status[act.id])
     IN  /\ act' = [act EXCEPT !.answer = s]
         /\ status' = IF s = "error" THEN status ELSE [status EXCEPT ![act.id] = s]
  /\ UNCHANGED <<address, shown, dialog, loads, opened, moves, failures>>

-----------------------------------------------------------------------------
(* Answers.                                                                  *)

Shows(id, s) == shown' = [id |-> id, status |-> s]

\* WRONG (breaks TypeOK): the answer is shown although there is no batch in it
MissingShown(l) ==
  /\ Shows(l.id, l.answer)
  /\ UNCHANGED <<address, dialog, opened>>

\* WRONG (breaks AddressIsShown): a batch that is not there stays in the address
MissingKept(l) ==
  /\ shown' = NoBatch
  /\ UNCHANGED <<address, dialog, opened>>

\* 404: loadBatch clears the batch and the address, whichever is in it.
Missing(l) ==
  /\ shown' = NoBatch
  /\ address' = Nobody
  /\ ClosesDialogs(Nobody)

\* WRONG (breaks MovesOn): an answer for the batch that is shown is dropped
TakesOthers(l) ==
  /\ IF l.id = shown.id THEN UNCHANGED shown ELSE Shows(l.id, l.answer)
  /\ UNCHANGED <<address, dialog, opened>>

\* Whatever batch it is about, the answer is shown.
Takes(l) ==
  /\ Shows(l.id, l.answer)
  /\ UNCHANGED <<address, dialog, opened>>

LoadAnswer(l) ==
  /\ l.answer # "waiting"
  /\ loads' = loads (-) SetToBag({l})
  /\ IF l.answer = "none" THEN Missing(l) ELSE Takes(l)
  /\ UNCHANGED <<status, act, moves, failures>>

\* Any other failure of loadBatch is ignored.
LoadFails(l) ==
  /\ failures < MaxFailures
  /\ loads' = loads (-) SetToBag({l})
  /\ failures' = failures + 1
  /\ UNCHANGED <<status, address, shown, dialog, act, opened, moves>>

ClosesOwnDialog ==
  IF dialog = act.kind THEN dialog' = "none" /\ opened' = Nobody
                       ELSE UNCHANGED <<dialog, opened>>

ActAnswer ==
  /\ busy
  /\ act.answer # "waiting"
  /\ IF act.answer = "error" THEN UNCHANGED shown ELSE Shows(act.id, act.answer)
  /\ ClosesOwnDialog
  /\ act' = NoAct
  /\ UNCHANGED <<status, address, loads, moves, failures>>

\* The request or its answer is lost: an error is shown and nothing else.
ActFails ==
  /\ busy
  /\ failures < MaxFailures
  /\ ClosesOwnDialog
  /\ act' = NoAct
  /\ failures' = failures + 1
  /\ UNCHANGED <<status, address, shown, loads, moves>>

-----------------------------------------------------------------------------
Step ==
  \/ \E b \in Batches : Open(b) \/ Upload(b) \/ Elsewhere(b)
  \/ Leave \/ Poll \/ CancelDialog \/ Retry
  \/ \E kind \in {"publish", "hold"} : OpenDialog(kind) \/ Confirm(kind)
  \/ \E b \in Batches, s \in {"held", "rejected"} : Parse(b, s)
  \/ \E l \in BagToSet(loads) : ServeLoad(l) \/ LoadAnswer(l) \/ LoadFails(l)
  \/ ServeAct \/ ActAnswer \/ ActFails

\* A request about another batch than the one in the address is under way.
Strays ==
  \/ \E l \in BagToSet(loads) : l.id # address
  \/ busy /\ act.id # address

\* disturbed: since the address last changed there was such a request, or a
\* request was lost.
Note ==
  disturbed' = \/ Strays'
               \/ failures' # failures
               \/ disturbed /\ address' = address

Next == Step /\ Note

\* The timer fires again and again, the server answers, and answers arrive
\* unless they are lost.  Strong fairness of the timer only makes up for the
\* bound on loads: an upload must not take the room of every poll.
Spec ==
  /\ Init /\ [][Next]_vars
  /\ SF_vars(Poll /\ Note)
  /\ \A b \in Batches : \A s \in Status \cup {"waiting"} :
       LET l == [id |-> b, answer |-> s]
       IN  WF_vars(BagIn(l, loads) /\ (ServeLoad(l) \/ LoadAnswer(l)) /\ Note)
  /\ WF_vars(ServeAct /\ Note) /\ WF_vars(ActAnswer /\ Note)

-----------------------------------------------------------------------------
(***************************************************************************)
(* A publish or a hold acts on the batch whose dialog the user opened, if  *)
(* the page was quiet then: it showed the batch of its address and no      *)
(* answer about another one was under way (onPublish, onHold; "the single  *)
(* most consequential action on this page").  Without that an answer may   *)
(* swap the batch under an open dialog: hazard of loadBatch.               *)
(***************************************************************************)
ConfirmedIsOpened ==
  [][~busy /\ busy' /\ act'.kind # "retry" /\ opened # Nobody
       => act'.id = opened]_vars

(***************************************************************************)
(* Once no load is under way the page shows the batch of its address,      *)
(* unless an answer about another batch was still to come when the address *)
(* had changed, or an answer was lost: loadBatch shows whatever comes      *)
(* last, and nothing else keeps the two together.                          *)
(***************************************************************************)
AddressIsShown ==
  loads = EmptyBag /\ ~disturbed => shown.id = address

(***************************************************************************)
(* "This page keeps checking on its own and will move on by itself when it *)
(* finishes" (ItemUploadFlow.tsx:412-414): once a batch is and stays out   *)
(* of processing, the page does not go on showing it as processing.        *)
(***************************************************************************)
MovesOn ==
  \A b \in Batches :
    <>[](status[b] # "processing") =>
      []<>(shown # [id |-> b, status |-> "processing"])
=============================================================================
