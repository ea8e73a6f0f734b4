--------------------------- MODULE CommercePlacement ---------------------------
(***************************************************************************)
(* The purchase of a commerce offer (lib/commerce, lib/db/commerce-        *)
(* placements): a placement is prepared, the owner's signed x402 payment   *)
(* is sent to the merchant once, and the settlement the merchant reports   *)
(* is verified on chain.  Requests of the page, repeated and concurrent,   *)
(* are the routes authorization and settlement.                            *)
(*                                                                         *)
(* The merchant is free: it may settle any payment it was sent, before or  *)
(* after its answer, until the payment expires.  The payment is mined in   *)
(* the newest block, which is replaced at most once.                       *)
(***************************************************************************)
EXTENDS Naturals, FiniteSets

CONSTANTS
  Purchases,             \* bound on the requests in flight
  MinimumConfirmations,  \* minimumConfirmations
  MaxDepth               \* bound on the confirmations counted

ASSUME CommerceAssumption ==
  /\ MinimumConfirmations \in Nat \ {0}
  /\ MaxDepth \in Nat /\ MaxDepth >= MinimumConfirmations

VARIABLES
  placement,  \* the latest event of the placement
  reported,   \* its transaction: "none", the payment, or another one
  asked,      \* how often the merchant was sent the payment
  payment,    \* the payment at the token contract: depth 0 is not mined
  purchase    \* each request: its next await and what it read of the chain

commerceVars == <<placement, reported, asked, payment, purchase>>

NoPurchase == [at |-> "idle", depth |-> 0]

CommerceInit ==
  /\ placement = "prepared" /\ reported = "none" /\ asked = 0
  /\ payment = [depth |-> 0, expired |-> FALSE, replaced |-> FALSE]
  /\ purchase = [r \in Purchases |-> NoPurchase]

Proceeds(r, at) == purchase' = [purchase EXCEPT ![r].at = at]
Ends(r) == purchase' = [purchase EXCEPT ![r] = NoPurchase]
On(r, at) == purchase[r].at = at

\* Mutant: the state the event expects is not compared with the stored one.
CanAppendEvent(expected, state) == placement \notin {"confirmed", "rejected"}

\* append, under the lock of the placement's row.
CanAppendPlacement(expected, state) == placement = expected /\ placement \notin {"confirmed", "rejected"}

-----------------------------------------------------------------------------
(* The authorization route *)

\* The placement is read, and the signature, the window and the balance checked.
PostAuthorization(r) ==
  /\ On(r, "idle") /\ placement = "prepared" /\ ~payment.expired
  /\ Proceeds(r, "authorize")
  /\ UNCHANGED <<placement, reported, asked, payment>>

\* The event keeps every other request from sending the payment again.
Authorize(r) ==
  /\ On(r, "authorize")
  /\ IF CanAppendPlacement("prepared", "authorizing")
     THEN placement' = "authorizing" /\ Proceeds(r, "execute")
     ELSE Ends(r) /\ UNCHANGED placement
  /\ UNCHANGED <<reported, asked, payment>>

\* The merchant is asked for a fresh challenge first, which may no longer match.
ExecutePayment(r, matches) ==
  /\ On(r, "execute")
  /\ IF matches THEN asked' = asked + 1 /\ Proceeds(r, "answer") ELSE Ends(r) /\ UNCHANGED asked
  /\ UNCHANGED <<placement, reported, payment>>

\* 200 with a settlement header, whose transaction nobody has checked; 402; or an
\* answer that says nothing about the settlement.
MerchantAnswers(r, answer) ==
  /\ On(r, "answer")
  /\ CASE answer \in {"payment", "other"} ->
            IF CanAppendPlacement("authorizing", "submitted")
            THEN placement' = "submitted" /\ reported' = answer
            ELSE UNCHANGED <<placement, reported>>
       [] answer \in {"402", "unclear"} -> UNCHANGED <<placement, reported>>
  /\ IF answer = "402" THEN Proceeds(r, "unused") ELSE Ends(r)
  /\ UNCHANGED <<asked, payment>>

\* After a 402 the nonce is read, and the placement rejected if it is unused.
ReadAuthorizationState(r) ==
  /\ On(r, "unused")
  /\ IF payment.depth = 0 THEN Proceeds(r, "reject") ELSE Ends(r)
  /\ UNCHANGED <<placement, reported, asked, payment>>

AppendRejected(r, expected) ==
  /\ IF CanAppendPlacement(expected, "rejected") THEN placement' = "rejected" ELSE UNCHANGED placement
  /\ Ends(r)
  /\ UNCHANGED <<reported, asked, payment>>

RejectUnsettled(r) == On(r, "reject") /\ AppendRejected(r, "authorizing")

-----------------------------------------------------------------------------
(* The settlement route *)

PostSettlement(r) ==
  /\ On(r, "idle") /\ placement = "submitted"
  /\ Proceeds(r, "receipt")
  /\ UNCHANGED <<placement, reported, asked, payment>>

\* A transaction that is not mined is an error; another one is a mismatch.
ReadSettlement(r) ==
  /\ On(r, "receipt")
  /\ IF reported = "other" THEN Proceeds(r, "refuse")
     ELSE IF payment.depth = 0 THEN Ends(r)
     ELSE purchase' = [purchase EXCEPT ![r] = [at |-> "anchor", depth |-> payment.depth]]
  /\ UNCHANGED <<placement, reported, asked, payment>>

\* Mutant: a payment counts as soon as it is mined.
DeepWhenMined(depth) == depth >= 1

DeepEnough(depth) == depth >= MinimumConfirmations

\* The block is read once more; a read that fails counts like one that differs.
ConfirmAnchor(r, readable) ==
  /\ On(r, "anchor")
  /\ IF ~readable \/ payment.depth = 0 THEN Proceeds(r, "refuse")
     ELSE IF DeepEnough(purchase[r].depth) THEN Proceeds(r, "confirm")
     ELSE Ends(r)
  /\ UNCHANGED <<placement, reported, asked, payment>>

RefuseSettlement(r) == On(r, "refuse") /\ AppendRejected(r, "submitted")

ConfirmSettlement(r) ==
  /\ On(r, "confirm")
  /\ IF CanAppendPlacement("submitted", "confirmed") THEN placement' = "confirmed" ELSE UNCHANGED placement
  /\ Ends(r)
  /\ UNCHANGED <<reported, asked, payment>>

-----------------------------------------------------------------------------
(* The process, the merchant and the chain *)

RequestDies(r) ==
  /\ ~On(r, "idle") /\ Ends(r)
  /\ UNCHANGED <<placement, reported, asked, payment>>

MerchantSettles ==
  /\ asked > 0 /\ payment.depth = 0 /\ ~payment.expired
  /\ payment' = [payment EXCEPT !.depth = 1]
  /\ UNCHANGED <<placement, reported, asked, purchase>>

NewBlock ==
  /\ payment.depth \in 1..(MaxDepth - 1)
  /\ payment' = [payment EXCEPT !.depth = @ + 1]
  /\ UNCHANGED <<placement, reported, asked, purchase>>

\* The newest block is replaced by one without the payment.
PaymentReorged ==
  /\ payment.depth = 1 /\ ~payment.replaced
  /\ payment' = [payment EXCEPT !.depth = 0, !.replaced = TRUE]
  /\ UNCHANGED <<placement, reported, asked, purchase>>

PaymentExpires ==
  /\ ~payment.expired /\ payment' = [payment EXCEPT !.expired = TRUE]
  /\ UNCHANGED <<placement, reported, asked, purchase>>

CommerceStep(r) ==
  \/ PostAuthorization(r) \/ Authorize(r) \/ ReadAuthorizationState(r) \/ RejectUnsettled(r)
  \/ \E matches \in BOOLEAN : ExecutePayment(r, matches)
  \/ \E answer \in {"payment", "other", "402", "unclear"} : MerchantAnswers(r, answer)
  \/ PostSettlement(r) \/ ReadSettlement(r) \/ RefuseSettlement(r) \/ ConfirmSettlement(r)
  \/ \E readable \in BOOLEAN : ConfirmAnchor(r, readable)
  \/ RequestDies(r)

CommerceNext ==
  \/ MerchantSettles \/ NewBlock \/ PaymentReorged \/ PaymentExpires
  \/ \E r \in Purchases : CommerceStep(r)

CommerceSpec == CommerceInit /\ [][CommerceNext]_commerceVars

-----------------------------------------------------------------------------
\* The merchant is sent the payment once, whatever requests are repeated or race,
\* and not again after a verdict.
PaymentIsSentOnce == asked <= 1 /\ (placement = "prepared" => asked = 0)

\* A confirmed placement was paid, although its verdict raced other verdicts and the
\* newest block may have been replaced since it was read.
ConfirmedIsPaid == placement = "confirmed" => payment.depth > 0 /\ reported = "payment"
=============================================================================
