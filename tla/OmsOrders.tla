------------------------------ MODULE OmsOrders ------------------------------
(***************************************************************************)
(* An order sent from the inbox to the warehouse (cskh/oms) and the        *)
(* purchase reported for it to Meta (facebook/meta-conversions).  The      *)
(* program stores neither: it looks for the customer at the warehouse by   *)
(* phone, creates one if there is none, reads the conversation, posts the  *)
(* order, and then, when the conversation came from an ad, reads the       *)
(* page's token and posts the purchase under an event id made of the       *)
(* order's id.  Nothing is sent again by itself; the staff may press again *)
(* after an error.                                                         *)
(*                                                                         *)
(* Presses of one customer's order come from Staff; OmsFaults turns on     *)
(* "warehouse" (a call fails before it does anything), "lost reply" (a     *)
(* post is done and its answer lost: the 20 s timeout) and "no token".     *)
(***************************************************************************)
EXTENDS Integers, FiniteSets
CONSTANTS Staff, MaxOrders, MaxPresses, OmsFaults

VARIABLES
  warehouse,  \* OMS: number of customers with the phone, the orders taken
  counted,    \* Meta: the event ids of the purchases counted
  dataset,    \* MetaConversionsService.datasetCache
  conv,       \* the conversation's fromAd and adId
  press,      \* the request of each staff member
  presses
omsVars == <<warehouse, counted, dataset, conv, press, presses>>

NoPress == [at |-> "idle", customer |-> FALSE, ad |-> FALSE, order |-> 0]
Init ==
  /\ warehouse = [customers |-> 0, orders |-> {}]
  /\ counted = {} /\ dataset = FALSE
  /\ conv \in [fromAd : BOOLEAN, adId : BOOLEAN]
  /\ press = [s \in Staff |-> NoPress]
  /\ presses = 0

Fault(f) == f \in OmsFaults
At(s, what) == press[s].at = what
Go(s, rec) == press' = [press EXCEPT ![s] = rec]

\* createOrder: the locations are read, then the customers with the phone's digits.
PressOrder(s) ==
  /\ At(s, "idle") /\ presses < MaxPresses
  /\ presses' = presses + 1
  /\ Go(s, [NoPress EXCEPT !.at = "customer"])
  /\ UNCHANGED <<warehouse, counted, dataset, conv>>
\* findCustomerByPhone; an order without a usable phone has no customer.
FindCustomer(s) ==
  /\ At(s, "customer")
  /\ \/ Go(s, [press[s] EXCEPT !.at = IF warehouse.customers > 0 THEN "conv" ELSE "create",
                               !.customer = warehouse.customers > 0])
     \/ Go(s, [press[s] EXCEPT !.at = "conv"])
  /\ UNCHANGED <<warehouse, counted, dataset, conv, presses>>
CreateCustomer(s) ==
  /\ At(s, "create")
  /\ warehouse' = [warehouse EXCEPT !.customers = @ + 1]
  /\ \/ Go(s, [press[s] EXCEPT !.at = "conv", !.customer = TRUE])
     \/ Fault("lost reply") /\ Go(s, NoPress)
  /\ UNCHANGED <<counted, dataset, conv, presses>>
\* The conversation is read: the purchase is wanted if it came from an ad whose id is known, or
\* was given with the order.
ReadConversation(s) ==
  /\ At(s, "conv")
  /\ \E given \in BOOLEAN :
       Go(s, [press[s] EXCEPT !.at = "post", !.ad = conv.fromAd /\ (given \/ conv.adId)])
  /\ UNCHANGED <<warehouse, counted, dataset, conv, presses>>
NewOrder == Cardinality(warehouse.orders) + 1
PostOrder(s) ==
  /\ At(s, "post") /\ NewOrder <= MaxOrders
  /\ warehouse' = [warehouse EXCEPT !.orders = @ \union {NewOrder}]
  /\ \/ Go(s, IF press[s].ad THEN [press[s] EXCEPT !.at = "token", !.order = NewOrder] ELSE NoPress)
     \/ Fault("lost reply") /\ Go(s, NoPress)
  /\ UNCHANGED <<counted, dataset, conv, presses>>
\* The page's token is read; without one the purchase is skipped.
ReadToken(s) ==
  /\ At(s, "token")
  /\ \/ Go(s, [press[s] EXCEPT !.at = "dataset"])
     \/ Fault("no token") /\ Go(s, NoPress)
  /\ UNCHANGED <<warehouse, counted, dataset, conv, presses>>
\* resolveDatasetId: from the cache of 6 hours, or asked of Meta; without one nothing is reported.
Dataset(s) ==
  /\ At(s, "dataset")
  /\ \/ Go(s, [press[s] EXCEPT !.at = "report"]) /\ dataset' = TRUE
     \/ ~dataset /\ Fault("warehouse") /\ Go(s, NoPress) /\ UNCHANGED dataset
  /\ UNCHANGED <<warehouse, counted, conv, presses>>
DatasetExpires == dataset /\ dataset' = FALSE /\ UNCHANGED <<warehouse, counted, conv, press, presses>>
\* The purchase is posted; the answer only tells what the staff is shown.
ReportPurchase(s) ==
  /\ At(s, "report")
  /\ \/ counted' = counted \union {press[s].order}
     \/ Fault("warehouse") /\ UNCHANGED counted
  /\ Go(s, NoPress)
  /\ UNCHANGED <<warehouse, dataset, conv, presses>>
\* Mutant of CallFails: the purchase of an order that was not taken is reported.
CallFailsReports(s) ==
  /\ Fault("warehouse") /\ press[s].at \in {"customer", "create", "post"}
  /\ Go(s, IF press[s].at = "post" /\ press[s].ad THEN [press[s] EXCEPT !.at = "token", !.order = NewOrder] ELSE NoPress)
  /\ UNCHANGED <<warehouse, counted, dataset, conv, presses>>

\* A call to the warehouse fails: the request ends with an error.
CallFails(s) ==
  /\ Fault("warehouse") /\ press[s].at \in {"customer", "create", "post"}
  /\ Go(s, NoPress)
  /\ UNCHANGED <<warehouse, counted, dataset, conv, presses>>
\* The inbox sets the ad of the conversation: a referral in a webhook (applyReferralFromWebhook).
ReferralArrives ==
  /\ conv' = [fromAd |-> TRUE, adId |-> TRUE]
  /\ UNCHANGED <<warehouse, counted, dataset, press, presses>>

Next ==
  \/ DatasetExpires \/ ReferralArrives
  \/ \E s \in Staff : \/ PressOrder(s) \/ FindCustomer(s) \/ CreateCustomer(s) \/ ReadConversation(s)
                      \/ PostOrder(s) \/ ReadToken(s) \/ Dataset(s) \/ ReportPurchase(s) \/ CallFails(s)
Spec == Init /\ [][Next]_omsVars
-----------------------------------------------------------------------------
(* Meta counts a purchase only for an order the warehouse took, of a conversation from an ad,
   whatever call fails or loses its answer and however many staff members press. *)
CountedIsOrdered == counted \subseteq warehouse.orders /\ (counted # {} => conv.fromAd)
(* One press makes one order: an order per press that was answered or not. *)
OneOrder == Cardinality(warehouse.orders) <= 1
(* The warehouse has one customer for the phone. *)
OneCustomer == warehouse.customers <= 1
=============================================================================
