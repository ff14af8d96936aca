----------------------------- MODULE Storefront -----------------------------
(***************************************************************************)
(* The storefront page of interaction.js with the orders of commerce.cljk  *)
(* behind it.  A cart becomes an order that reserves stock for 30 minutes; *)
(* its card has a button that sends USDC from an injected wallet, waits    *)
(* for three confirmations and has the server verify the transaction.     *)
(* One product stands for the catalogue.                                   *)
(***************************************************************************)
EXTENDS Integers, FiniteSets, FiniteSetsExt

CONSTANTS
  Order,        \* bound: orders placed from the page
  Stock,        \* the shelf at the beginning; bound: the largest restock
  MaxTxs,       \* bound: transactions broadcast
  MaxRestocks   \* bound: changes of the shelf by the merchant

ASSUME StorefrontAssumption ==
  /\ Stock \in Nat \ {0} /\ MaxTxs \in Nat /\ MaxRestocks \in Nat
  /\ 0 \notin Order /\ IsFiniteSet(Order)

VARIABLES
  shelf,        \* on the server: inventory of the product
  order,        \* on the server: status and quantity of each order
  usedBy,       \* on the server: payment-transactions
  restocks,     \* how often the merchant changed the shelf
  chain,        \* each broadcast transaction: its order and its fate
  cart,         \* storefrontState.cart: the quantity
  catalog,      \* the inventory the product card was drawn with
  checkoutOn,   \* the checkout button is enabled
  card,         \* #storefront-order: the order on it and whether it is paid
  pay           \* of each order's button: transaction and where its click is

shop == <<shelf, order, usedBy, restocks>>
buyer == <<cart, catalog, checkoutOn, card>>
storeVars == <<shop, chain, buyer, pay>>

Tx == 1..MaxTxs
NoOrder == [of |-> 0, paid |-> FALSE]
Orderless == [status |-> "none", quantity |-> 0]

StoreInit ==
  /\ shelf = Stock /\ restocks = 0
  /\ order = [o \in Order |-> Orderless]
  /\ usedBy = [t \in Tx |-> 0]
  /\ chain = [t \in Tx |-> [order |-> 0, fate |-> "none"]]
  /\ cart = 0 /\ catalog = Stock /\ checkoutOn = FALSE
  /\ card = NoOrder
  /\ pay = [o \in Order |-> [at |-> "idle", tx |-> 0]]

(***************************************************************************)
(* The server.                                                             *)
(***************************************************************************)
Reserved ==
  MapThenSumSet(LAMBDA o : order[o].quantity,
                {o \in Order : order[o].status \in {"placed", "awaiting"}})

Available == IF shelf > Reserved THEN shelf - Reserved ELSE 0

\* create-order!: lines must not be empty and must be available.
PlaceOrder(o) ==
  /\ order[o].status = "asked"
  /\ IF order[o].quantity \in 1..Available
     THEN order' = [order EXCEPT ![o].status = "placed"]
     ELSE order' = [order EXCEPT ![o].status = "refused"]
  /\ UNCHANGED <<shelf, usedBy, restocks, chain, buyer, pay>>

\* The reservation's expires-at passes.
Expire(o) ==
  /\ order[o].status = "awaiting"
  /\ order' = [order EXCEPT ![o].status = "expired"]
  /\ UNCHANGED <<shelf, usedBy, restocks, chain, buyer, pay>>

\* upsert-product! replaces the inventory whatever is reserved.
Restock ==
  /\ restocks < MaxRestocks
  /\ shelf' \in (0..Stock) \ {shelf}
  /\ restocks' = restocks + 1
  /\ UNCHANGED <<order, usedBy, chain, buyer, pay>>

(***************************************************************************)
(* The cart and the checkout.                                              *)
(***************************************************************************)
\* Beyond what the product card was drawn with nothing is added, but the cart is
\* drawn all the same.
AddToCart ==
  /\ catalog > 0
  /\ cart' = (IF cart < catalog THEN cart + 1 ELSE cart) /\ checkoutOn' = TRUE
  /\ UNCHANGED <<shop, chain, catalog, card, pay>>

TakeFromCart ==
  /\ cart > 0
  /\ cart' = cart - 1 /\ checkoutOn' = (cart' > 0)
  /\ UNCHANGED <<shop, chain, catalog, card, pay>>

\* The button is disabled for the request, but drawing the cart enables it.
Checkout(o) ==
  /\ checkoutOn /\ order[o].status = "none"
  /\ order' = [order EXCEPT ![o] = [status |-> "asked", quantity |-> cart]]
  /\ checkoutOn' = FALSE
  /\ UNCHANGED <<shelf, usedBy, restocks, chain, cart, catalog, card, pay>>

\* The order arrives and its card replaces whatever the card showed.
OrderArrives(o) ==
  /\ order[o].status = "placed"
  /\ order' = [order EXCEPT ![o].status = "awaiting"]
  /\ card' = [of |-> o, paid |-> FALSE]
  /\ checkoutOn' = (cart > 0)
  /\ UNCHANGED <<shelf, usedBy, restocks, chain, cart, catalog, pay>>

\* The request was refused, or its answer was lost: the stock stays reserved.
CheckoutFails(o) ==
  /\ order[o].status \in {"refused", "placed"}
  /\ order' = [order EXCEPT ![o].status =
       IF order[o].status = "placed" THEN "awaiting" ELSE "gone"]
  /\ checkoutOn' = (cart > 0)
  /\ UNCHANGED <<shelf, usedBy, restocks, chain, cart, catalog, card, pay>>

(***************************************************************************)
(* payStorefrontOrder.                                                     *)
(***************************************************************************)
At(o, at) == pay[o].at = at
GoesTo(o, at) == pay' = [pay EXCEPT ![o].at = at]

\* A click on the card's button: a remembered transaction is only checked again.
PayClick(o) ==
  /\ card = [of |-> o, paid |-> FALSE] /\ At(o, "idle")
  /\ GoesTo(o, IF pay[o].tx = 0 THEN "wallet" ELSE "confirming")
  /\ UNCHANGED <<shop, chain, buyer>>

\* No wallet, another chain that cannot be switched to, or a refusal.
WalletRefuses(o) ==
  /\ At(o, "wallet")
  /\ GoesTo(o, "idle")
  /\ UNCHANGED <<shop, chain, buyer>>

NextTx == {t \in Tx : chain[t].fate = "none" /\ \A u \in 1..(t - 1) : chain[u].fate # "none"}

\* Mutant: the transaction is remembered only once it has been verified.
Broadcast_NotRemembered(o) ==
  /\ At(o, "wallet")
  /\ \E t \in NextTx :
       /\ chain' = [chain EXCEPT ![t] = [order |-> o, fate |-> "pending"]]
       /\ pay' = [pay EXCEPT ![o].at = "confirming"]
  /\ UNCHANGED <<shop, buyer>>

\* eth_sendTransaction: the hash goes into the button's dataset at once.
Broadcast(o) ==
  /\ At(o, "wallet")
  /\ \E t \in NextTx :
       /\ chain' = [chain EXCEPT ![t] = [order |-> o, fate |-> "pending"]]
       /\ pay' = [pay EXCEPT ![o] = [at |-> "confirming", tx |-> t]]
  /\ UNCHANGED <<shop, buyer>>

\* Base includes the transaction, or includes it reverted.
Included(t) ==
  /\ chain[t].fate = "pending"
  /\ \E fate \in {"mined", "reverted"} : chain' = [chain EXCEPT ![t].fate = fate]
  /\ UNCHANGED <<shop, buyer, pay>>

\* waitForBaseConfirmations: confirmed, reverted, or 60 attempts are over.
Confirmed(o) ==
  /\ At(o, "confirming")
  /\ IF pay[o].tx # 0 /\ chain[pay[o].tx].fate = "mined"
     THEN GoesTo(o, "verifying") ELSE GoesTo(o, "idle")
  /\ UNCHANGED <<shop, chain, buyer>>

\* The proof is another order's, or the reservation is over.
Refused(o) ==
  /\ At(o, "verifying") /\ order[o].status # "paid"
  /\ \/ order[o].status = "expired"
     \/ usedBy[pay[o].tx] \notin {0, o}
     \/ order[o].status = "awaiting" /\ shelf < order[o].quantity
  /\ GoesTo(o, "idle")
  /\ UNCHANGED <<shop, chain, buyer>>

\* verify-order-payment!: the order is paid and its stock leaves the shelf.
Capture(o) ==
  /\ At(o, "verifying") /\ order[o].status = "awaiting"
  /\ usedBy[pay[o].tx] \in {0, o} /\ shelf >= order[o].quantity
  /\ order' = [order EXCEPT ![o].status = "paid"]
  /\ shelf' = shelf - order[o].quantity
  /\ usedBy' = [usedBy EXCEPT ![pay[o].tx] = o]
  /\ GoesTo(o, "verified")
  /\ UNCHANGED <<restocks, chain, buyer>>

\* The same transaction again: the paid order is answered as it is.
AlreadyPaid(o) ==
  /\ At(o, "verifying") /\ order[o].status = "paid" /\ usedBy[pay[o].tx] = o
  /\ GoesTo(o, "verified")
  /\ UNCHANGED <<shop, chain, buyer>>

\* Five answers 402, or the answer was lost.
Unverified(o) ==
  /\ At(o, "verifying") \/ At(o, "verified")
  /\ GoesTo(o, "idle")
  /\ UNCHANGED <<shop, chain, buyer>>

\* The card becomes the receipt, whichever order it showed; the cart is cleared.
PaidArrives(o) ==
  /\ At(o, "verified")
  /\ card' = [of |-> o, paid |-> TRUE]
  /\ cart' = 0
  /\ pay' = [pay EXCEPT ![o] = [at |-> "reloading", tx |-> 0]]
  /\ UNCHANGED <<shop, chain, catalog, checkoutOn>>

\* loadStorefront: the catalogue and the cart are drawn again.
Reloaded(o) ==
  /\ At(o, "reloading")
  /\ catalog' = Available /\ checkoutOn' = (cart > 0)
  /\ GoesTo(o, "done")
  /\ UNCHANGED <<shop, chain, cart, card>>

\* It does not throw when the store cannot be read: nothing is drawn.
ReloadFails(o) ==
  /\ At(o, "reloading")
  /\ GoesTo(o, "done")
  /\ UNCHANGED <<shop, chain, buyer>>

StoreNext ==
  \/ AddToCart \/ TakeFromCart \/ Restock
  \/ \E o \in Order : Checkout(o) \/ PlaceOrder(o) \/ OrderArrives(o)
                        \/ CheckoutFails(o) \/ Expire(o)
  \/ \E o \in Order : PayClick(o) \/ WalletRefuses(o) \/ Broadcast(o) \/ Confirmed(o)
  \/ \E o \in Order : Refused(o) \/ Capture(o) \/ AlreadyPaid(o) \/ Unverified(o)
  \/ \E o \in Order : PaidArrives(o) \/ Reloaded(o) \/ ReloadFails(o)
  \/ \E t \in Tx : Included(t)

(***************************************************************************)
(* Properties.                                                             *)
(***************************************************************************)
\* Types; a quantity in the cart or of an order is never more than was ever on the
\* shelf, and a payment that is idle, broadcast or done is one of these.
StoreTypeOK ==
  /\ shelf \in 0..Stock /\ restocks \in 0..MaxRestocks
  /\ order \in [Order -> [status : {"none", "asked", "placed", "refused", "gone",
                                    "awaiting", "expired", "paid"},
                          quantity : 0..Stock]]
  /\ usedBy \in [Tx -> Order \cup {0}]
  /\ chain \in [Tx -> [order : Order \cup {0},
                       fate : {"none", "pending", "mined", "reverted"}]]
  /\ cart \in 0..Stock /\ catalog \in 0..Stock /\ checkoutOn \in BOOLEAN
  /\ card \in [of : Order \cup {0}, paid : BOOLEAN]
  /\ pay \in [Order -> [at : {"idle", "wallet", "confirming", "verifying", "verified",
                              "reloading", "done"}, tx : Tx \cup {0}]]

\* An order's money is sent once, however often its button is pressed, whether
\* confirmations time out, the answer of the server is lost or another order
\* replaces the card meanwhile: "A broadcast transaction is never replaced by a
\* second send from this button" (interaction.js).
OneBroadcast ==
  \A o \in Order : Cardinality({t \in Tx : chain[t].order = o}) <= 1

\* A paid order was paid by a transaction that was sent for it and succeeded,
\* and no transaction pays two orders.
PaidByItsOwn ==
  \A o \in Order : order[o].status = "paid" =>
    \E t \in Tx : usedBy[t] = o /\ chain[t] = [order |-> o, fate |-> "mined"]

\* What live orders hold is on the shelf unless the merchant changed it: the
\* refusal "reserved stock cannot be captured" is never met by a buyer who paid
\* in time.
ReservedIsOnShelf == restocks = 0 => Reserved <= shelf

\* A payment that left the wallet ends with the order paid or with a button that
\* checks it again; it never leaves the button disabled.
PaymentsSettle ==
  \A o \in Order : At(o, "confirming") ~> (At(o, "idle") \/ At(o, "done"))

\* Timers and requests that end, each in one of its ways.
StoreFairness ==
  \A o \in Order : /\ WF_storeVars(Confirmed(o))
                   /\ WF_storeVars(Refused(o) \/ Capture(o) \/ AlreadyPaid(o) \/ Unverified(o)
                                     \/ PaidArrives(o))
                   /\ WF_storeVars(Reloaded(o) \/ ReloadFails(o))

\* One order, one payment, one reservation.
StoreInv == StoreTypeOK /\ OneBroadcast /\ PaidByItsOwn /\ ReservedIsOnShelf
=============================================================================
