------------------------------ MODULE SendForm ------------------------------
(***************************************************************************)
(* The transfer form of the browser wallet (website, wallet/SendModal.tsx) *)
(* and of the desktop miner (components/SendModal.tsx over sender.rs): one *)
(* click is one payment, a transaction that is built, sent and polled,     *)
(* whose verdict the form shows.  The two differ in what they say of a     *)
(* transaction that was sent but not confirmed in time: the website says   *)
(* "Status unknown", the desktop miner "Send failed".                      *)
(*                                                                         *)
(* The form may be closed and opened again, or leave the screen with the   *)
(* dashboard (mount), while a payment is under way; the payment goes on.   *)
(***************************************************************************)
EXTENDS Naturals, FiniteSets

CONSTANTS
  MAX_PAYMENTS,  \* bound of the model: clicks on Send
  MAX_MOUNTS     \* bound of the model: times the form comes on the screen

FormAssumption == MAX_PAYMENTS \in Nat /\ MAX_MOUNTS \in Nat

Payments == 1 .. MAX_PAYMENTS

VARIABLES
  app,       \* which of the two forms this is
  mount,     \* the form's component, counted by the times it was mounted
  open,      \* whether the form is open
  status,    \* what it shows
  payment,   \* payment -> its step, the component it reports to, its fate
  clicked,   \* payments begun
  reopened   \* whether the form was opened again with a payment under way

vars == <<app, mount, open, status, payment, clicked, reopened>>

NoPayment == [at |-> "none", mount |-> 0, fate |-> "none"]

TypeOK ==
  /\ app \in {"website", "desktop"}
  /\ mount \in 1 .. MAX_MOUNTS
  /\ open \in BOOLEAN /\ reopened \in BOOLEAN
  /\ status \in {"idle", "sending", "lost", "failed", "sent"}
  /\ payment \in [Payments -> [at : {"none", "building", "polling", "thrown", "over"},
                               mount : 0 .. MAX_MOUNTS,
                               fate : {"none", "unknown", "paid", "refused"}]]
  /\ clicked \in 0 .. MAX_PAYMENTS

Init ==
  /\ app \in {"website", "desktop"}
  /\ mount = 1 /\ open = FALSE /\ status = "idle"
  /\ payment = [p \in Payments |-> NoPayment]
  /\ clicked = 0 /\ reopened = FALSE

UnderWay == {p \in Payments : payment[p].at \in {"building", "polling"}}
Here == {p \in UnderWay : payment[p].mount = mount}

\* The effect on [open]: a form that opens starts from scratch.
Open ==
  /\ ~open
  /\ open' = TRUE
  /\ status' = "idle"
  /\ reopened' = (reopened \/ Here # {})
  /\ UNCHANGED <<app, mount, payment, clicked>>

Close ==
  /\ open
  /\ open' = FALSE
  /\ UNCHANGED <<app, mount, status, payment, clicked, reopened>>

\* The dashboard unmounts (the wallet is locked) and is mounted again later: a
\* new component, and verdicts for the old one go nowhere.
Remount ==
  /\ mount < MAX_MOUNTS
  /\ mount' = mount + 1
  /\ open' = FALSE /\ status' = "idle" /\ reopened' = FALSE
  /\ UNCHANGED <<app, payment, clicked>>

\* Mutant: canSend does not look at the status.
SendTwice ==
  /\ open
  /\ clicked < MAX_PAYMENTS
  /\ clicked' = clicked + 1
  /\ status' = "sending"
  /\ payment' = [payment EXCEPT ![clicked'] =
                   [at |-> "building", mount |-> mount, fate |-> "none"]]
  /\ UNCHANGED <<app, mount, open, reopened>>

\* send(): canSend holds while the form is open and does not say "sending".
Send ==
  /\ open /\ status # "sending"
  /\ clicked < MAX_PAYMENTS
  /\ clicked' = clicked + 1
  /\ status' = "sending"
  /\ payment' = [payment EXCEPT ![clicked'] =
                   [at |-> "building", mount |-> mount, fate |-> "none"]]
  /\ UNCHANGED <<app, mount, open, reopened>>

\* setStatus of the component the payment was made from.
Say(p, verdict) ==
  status' = IF payment[p].mount = mount THEN verdict ELSE status

\* Building, signing and sending: on an error the form says "failed", although
\* sendRawTransaction may have thrown after the transaction was out.
Submit(p, sent) ==
  /\ payment[p].at = "building"
  /\ \/ /\ sent
        /\ payment' = [payment EXCEPT ![p].at = "polling", ![p].fate = "unknown"]
        /\ UNCHANGED status
     \/ /\ ~sent
        /\ \E fate \in {"none", "unknown"} :
             payment' = [payment EXCEPT ![p].at = "thrown", ![p].fate = fate]
        /\ Say(p, "failed")
  /\ UNCHANGED <<app, mount, open, clicked, reopened>>

\* The cluster executes the transaction.
Execute(p, fate) ==
  /\ payment[p].fate = "unknown"
  /\ fate \in {"paid", "refused"}
  /\ payment' = [payment EXCEPT ![p].fate = fate]
  /\ UNCHANGED <<app, mount, open, status, clicked, reopened>>

\* The poll finds the transaction executed.
Polled(p) ==
  /\ payment[p].at = "polling"
  /\ payment[p].fate \in {"paid", "refused"}
  /\ payment' = [payment EXCEPT ![p].at = "over"]
  /\ Say(p, IF payment[p].fate = "paid" THEN "sent" ELSE "failed")
  /\ UNCHANGED <<app, mount, open, clicked, reopened>>

\* Mutant: the loop polls until there is a status.
TimeOutNever(p) ==
  /\ app = "website" /\ payment[p].at = "polling"
  /\ payment[p].fate # "unknown"
  /\ payment' = [payment EXCEPT ![p].at = "over"]
  /\ Say(p, "lost")
  /\ UNCHANGED <<app, mount, open, clicked, reopened>>

\* The website polls for 60 s and then says that it does not know.
TimeOut(p) ==
  /\ app = "website" /\ payment[p].at = "polling"
  /\ payment' = [payment EXCEPT ![p].at = "over"]
  /\ Say(p, "lost")
  /\ UNCHANGED <<app, mount, open, clicked, reopened>>

\* The desktop's command polls as long as the blockhash lives; the error it then
\* returns is shown like any other.
Expire(p) ==
  /\ app = "desktop" /\ payment[p].at = "polling"
  /\ payment' = [payment EXCEPT ![p].at = "over"]
  /\ Say(p, "failed")
  /\ UNCHANGED <<app, mount, open, clicked, reopened>>

PaymentStep(p) ==
  \/ \E sent \in BOOLEAN : Submit(p, sent)
  \/ Polled(p) \/ TimeOut(p) \/ Expire(p)

Next ==
  \/ Open \/ Close \/ Remount \/ Send
  \/ \E p \in Payments : PaymentStep(p) \/ \E fate \in {"paid", "refused"} : Execute(p, fate)

Spec == Init /\ [][Next]_vars

\* Requests end or fail and timers fire; the cluster promises nothing.
Fairness == \A p \in Payments : WF_vars(PaymentStep(p))

-----------------------------------------------------------------------------
\* The payment the status is about: the last one made from this component.
Latest == CHOOSE p \in Payments :
  /\ payment[p].mount = mount
  /\ \A q \in Payments : payment[q].mount = mount => q <= p

\* What the form shows is true of the payment just made.  "sending": exactly one
\* payment is under way, so a click is one payment.  "sent": it is paid.
\* "failed", on the website: it was refused, or the send itself threw.
\* (Opening the form again with a payment under way mixes two verdicts.)
VerdictIsTrue ==
  ~reopened =>
    /\ Cardinality(Here) = (IF status = "sending" THEN 1 ELSE 0)
    /\ status = "sent" => payment[Latest].fate = "paid"
    /\ status = "failed" /\ app = "website" =>
         payment[Latest].at = "thrown" \/ payment[Latest].fate = "refused"

\* A click gets its verdict, though the transaction may never execute: the form
\* does not say "sending" for ever.
VerdictComes == status = "sending" ~> status # "sending"
=============================================================================
