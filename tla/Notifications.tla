--------------------------- MODULE Notifications ---------------------------
(***************************************************************************)
(* What the deposit handlers tell the outside once they have committed:    *)
(* webhook events to a subscriber, mails with PDF papers to the tenant,    *)
(* and the same papers on request.                                         *)
(*                                                                         *)
(* fireWebhook and the mails each start a goroutine that nobody waits for  *)
(* and whose error is dropped or only logged, so messages overtake each    *)
(* other and get lost.  The webhook URL is taken to be set.  An event      *)
(* carries no number; its timestamp, the time of the call of fireWebhook,  *)
(* is all a subscriber can order events by.                                *)
(***************************************************************************)
EXTENDS SerialLifecycle, FiniteSets

CONSTANTS
  Trusteeships,  \* what an application may state of its trust account
  MaxOutbox      \* bound on the goroutines that are still sending

(* TotalBalance and AccruedInterest, 0 if not stated. *)
ASSUME NotificationsAssumption ==
  /\ Trusteeships \subseteq [balance : Int, interest : Int]
  /\ MaxOutbox \in Nat \ {0}

VARIABLES
  trust,    \* the trusteeship of each deposit's application: Create stores
            \* it and no handler changes it
  updated,  \* the deposit each request got back from UpdateState, or Nil
  clock,    \* the time, counted in calls of fireWebhook
  outbox,   \* events and mails whose goroutine has not ended
  mirror,   \* the newest event the subscriber has, of each deposit
  fault     \* whether a request was cut short or a message lost so far

noticeVars == <<trust, updated, clock, outbox, mirror, fault>>

notifyVars ==
  <<deposits, audit, calls, trust, updated, clock, outbox, mirror, fault>>

-----------------------------------------------------------------------------
(* package receipt: what a paper says, its layout left out *)

(* Kautionsquittung: the amount, and "Confirmed by Bank". *)
Generate(d) ==
  [title |-> "receipt", amount |-> d.amount, confirmed |-> d.pledged]

(* The place in the history of the release; 0 is "falling back to today". *)
releasedAt(d) ==
  LET released == {k \in 1 .. Len(d.history) : d.history[k].state = "RELEASED"}
  IN  IF released = {} THEN 0
      ELSE CHOOSE k \in released : \A j \in released : k <= j

(* Mutant: the interest is listed and not returned. *)
ReleaseReceiptWithoutBalance(d, t) ==
  [title |-> "release", released |-> releasedAt(d), amount |-> d.amount,
   interest |-> IF t.balance > 0 /\ t.interest > 0 THEN t.interest ELSE 0,
   returned |-> d.amount]

(* Kautionsfreigabe: the date of the release, the deposit, the interest if   *)
(* it is listed (0 if not), and "Total Returned".                            *)
GenerateReleaseReceipt(d, t) ==
  [title |-> "release", released |-> releasedAt(d), amount |-> d.amount,
   interest |-> IF t.balance > 0 /\ t.interest > 0 THEN t.interest ELSE 0,
   returned |-> IF t.balance > 0 THEN t.balance ELSE d.amount]

-----------------------------------------------------------------------------
(* package api: papers on request.  The set is empty on an error. *)

GetReceipt(id) ==
  {Generate(deposits[k]) : k \in {i \in KnownIds \cap {id} :
     deposits[i].state \in
       {"PLEDGED", "RELEASED", "CLAIMED", "PARTIALLY_RELEASED",
        "SETTLE_PROPOSED", "DISPUTED", "CLOSED"}}}

GetReleaseReceipt(id) ==
  {GenerateReleaseReceipt(deposits[k], trust[k]) : k \in {i \in KnownIds \cap {id} :
     deposits[i].state \in {"RELEASED", "CLOSED"}}}

-----------------------------------------------------------------------------
(* package api: what follows the commit *)

(* Mutant: the time is taken once, when the server starts. *)
EventWithoutTime(r, now) ==
  [to |-> "subscriber", id |-> calls[r].id, state |-> updated[r].state,
   stamp |-> 1]

fireWebhook(r, now) ==
  [to |-> "subscriber", id |-> calls[r].id, state |-> updated[r].state,
   stamp |-> now]

sendReceiptEmail(r) ==
  [to |-> "tenant", id |-> calls[r].id, paper |-> Generate(updated[r])]

sendReleaseReceiptEmail(r) ==
  [to |-> "tenant", id |-> calls[r].id,
   paper |-> GenerateReleaseReceipt(updated[r], trust[calls[r].id])]

Mails(r) ==
  CASE calls[r].op = "Pledge" -> {sendReceiptEmail(r)}
    [] calls[r].op = "Release" -> {sendReleaseReceiptEmail(r)}
    [] OTHER -> {}

(* The last step of a handler: it starts the goroutines and answers. *)
Announce(r) ==
  /\ Notify(r)
  /\ Cardinality(outbox) < MaxOutbox
  /\ clock' = clock + 1
  /\ outbox' = outbox \cup {fireWebhook(r, clock')} \cup Mails(r)
  /\ updated' = [updated EXCEPT ![r] = Nil]
  /\ UNCHANGED <<trust, mirror, fault>>

(* UpdateState hands the row it wrote back to the handler. *)
Commit(r) ==
  /\ UpdateState(r)
  /\ updated' = [updated EXCEPT ![r] = deposits'[calls[r].id]]
  /\ UNCHANGED <<trust, clock, outbox, mirror, fault>>

(* The other steps of a handler. *)
Quiet(r) ==
  /\ \/ Handle(r)
     \/ InsertHistory(r)
     \/ RevokeCredentials(r)
     \/ DeleteVpSession(r)
  /\ UNCHANGED noticeVars

(* A request ends early, with whatever it had still to announce. *)
CutShort(r) ==
  /\ Fail(r)
  /\ updated' = [updated EXCEPT ![r] = Nil]
  /\ fault' = TRUE
  /\ UNCHANGED <<trust, clock, outbox, mirror>>

-----------------------------------------------------------------------------
(* The network, the mail server and the subscriber are not part of src/.     *)

(* A subscriber that keeps the event with the latest timestamp. *)
Newer(event, known) ==
  IF known = Nil \/ event.stamp > known.stamp THEN event ELSE known

Deliver(m) ==
  /\ outbox' = outbox \ {m}
  /\ mirror' = IF m.to = "subscriber"
               THEN [mirror EXCEPT ![m.id] = Newer(m, @)] ELSE mirror
  /\ UNCHANGED <<vars, trust, updated, clock, fault>>

(* The POST or the mail fails, or the server stops: nothing tries again. *)
Lose(m) ==
  /\ outbox' = outbox \ {m}
  /\ fault' = TRUE
  /\ UNCHANGED <<vars, trust, updated, clock, mirror>>

NoticeInit ==
  /\ Init
  /\ trust \in [Ids -> Trusteeships]
  /\ updated = [r \in Requests |-> Nil]
  /\ clock = 0
  /\ outbox = {}
  /\ mirror = [id \in Ids |-> Nil]
  /\ fault = FALSE

NoticeNext ==
  \/ \E r \in Requests : Quiet(r) \/ Commit(r) \/ Announce(r) \/ CutShort(r)
  \/ \E m \in outbox : Deliver(m) \/ Lose(m)

(* Goroutines run: a request that was accepted goes on until it has         *)
(* answered, a message that was sent arrives or fails.                      *)
NoticeSpec ==
  /\ NoticeInit
  /\ [][NoticeNext]_notifyVars
  /\ \A r \in Requests :
       /\ WF_notifyVars(Commit(r))
       /\ WF_notifyVars(RevokeCredentials(r) /\ UNCHANGED noticeVars)
       /\ WF_notifyVars(DeleteVpSession(r) /\ UNCHANGED noticeVars)
       /\ WF_notifyVars(Announce(r))
  /\ WF_notifyVars(\E m \in outbox : Deliver(m))

-----------------------------------------------------------------------------
(* Properties *)

UpToDate(id) ==
  \/ deposits[id] = Nil
  \/ Len(History(id)) = 1
  \/ mirror[id] # Nil /\ mirror[id].state = deposits[id].state

(* One request at a time: a subscriber that keeps the event with the latest  *)
(* timestamp and is behind catches up with the deposit, in whatever order    *)
(* the events arrive, unless a request is cut short or a message lost.  No   *)
(* commit is followed by silence, and a timestamp taken after the commit     *)
(* orders the events as the commits were ordered.                            *)
SubscriberCatchesUp ==
  \A id \in Ids : ~UpToDate(id) ~> (fault \/ UpToDate(id))

(* States in which the server has recorded that a party gets some of the     *)
(* money.  CLAIMED is none: a claim is paid, or rejected, outside of it.     *)
Awarded == {"PARTIALLY_RELEASED", "CLOSED"}

(* Place k of the history is the release, and nothing was awarded before it. *)
NamesRelease(id, k) ==
  /\ k \in 1 .. Len(History(id))
  /\ History(id)[k].state = "RELEASED"
  /\ \A j \in 1 .. k : History(id)[j].state \notin Awarded

(* The balance the application states, if any, is the deposit with interest. *)
AddsUp(t, amount) ==
  t.balance > 0 => t.interest >= 0 /\ t.balance = amount + t.interest

(* The figures of the paper are those of the deposit as it stands. *)
TrueFigures(id, paper) ==
  /\ paper.amount = deposits[id].amount
  /\ paper.title = "release" /\ AddsUp(trust[id], deposits[id].amount) =>
       paper.returned = deposits[id].amount + paper.interest

(* The papers are true: a receipt, mailed or fetched, says the bank has      *)
(* confirmed the pledge.  A release confirmation that is mailed, or fetched  *)
(* while the deposit is RELEASED, bears the date of the release; what it     *)
(* says is returned is the deposit and the interest it lists, if the         *)
(* application's own figures add up, and no settlement or partial release    *)
(* had given any of it away.  That is all it can say after a claim: whether  *)
(* the claim was paid (LIFECYCLE.md:42, "After claim payout or rejection of  *)
(* claim") is recorded nowhere, and the paper states the whole either way.   *)
PapersAreTrue ==
  /\ \A id \in Ids : \A p \in GetReceipt(id) : p.confirmed /\ TrueFigures(id, p)
  /\ \A id \in Ids : \A p \in GetReleaseReceipt(id) :
       deposits[id].state = "RELEASED" =>
         NamesRelease(id, p.released) /\ TrueFigures(id, p)
  /\ \A m \in outbox : m.to = "tenant" =>
       /\ TrueFigures(m.id, m.paper)
       /\ m.paper.title = "receipt" => m.paper.confirmed
       /\ m.paper.title = "release" => NamesRelease(m.id, m.paper.released)
=============================================================================
