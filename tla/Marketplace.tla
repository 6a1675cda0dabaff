----------------------------- MODULE Marketplace -----------------------------
(***************************************************************************)
(* The gifts of the catalogue and one customer's cart: providers and       *)
(* administrators create, edit, hide and delete gifts while the customer   *)
(* fills the cart and orders it.  A request reads the cart and the gifts   *)
(* and writes later.  Prices, variants and quantities are left out, and so *)
(* is what becomes of an order (module OrderMoney).                        *)
(***************************************************************************)
EXTENDS Naturals

CONSTANTS
  Gift, Provider,
  Item,       \* rows of cart_items that can be created
  Buyer       \* requests on the cart that may overlap

\* A row of the cart always has a gift.
ASSUME MarketAssumption == Gift # {}

VARIABLES
  gift,       \* gift[g]: the row
  barred,     \* providers that are not approved
  item,       \* item[i]: the row of the cart, and what became of it
  buyer       \* buyer[b]: what a request of the customer has read

marketVars == <<gift, barred, item, buyer>>

GiftStatus == {"ACTIVE", "INACTIVE"}   \* OUT_OF_STOCK is as good as INACTIVE here
GiftRow == [status : GiftStatus, provider : Provider]
NoGift == [status |-> "NONE"]
OnSale(g) == gift[g] # NoGift

\* early (history): a checkout was under way when the item was added.  stale: it was ordered
\* after it had left the cart.
ItemRow == [state : {"new", "in cart", "taken out", "checked out"}, gift : Gift,
            orders : 0 .. 2, early : BOOLEAN, stale : BOOLEAN]
InCart == {i \in Item : item[i].state = "in cart"}

Browsing == [op |-> "browsing"]
Buys(b, job) == buyer' = [buyer EXCEPT ![b] = job]

-----------------------------------------------------------------------------
(* Gifts *)

Put(g, row) == gift' = [gift EXCEPT ![g] = row] /\ UNCHANGED <<barred, item, buyer>>

\* Gift management: an administrator's gift is active, a provider's is not.
CreateGift(g) == /\ ~OnSale(g)
                 /\ \E status \in GiftStatus, p \in Provider :
                      Put(g, [status |-> status, provider |-> p])

\* The provider's inventory.
CreateItemWithVariants(g) == /\ ~OnSale(g)
                             /\ \E p \in Provider : Put(g, [status |-> "ACTIVE", provider |-> p])

\* Gift management: any status and, from an administrator, any provider.
UpdateGift(g) == /\ OnSale(g)
                 /\ \E row \in GiftRow : Put(g, row)

\* nextStatus: without one in the request, the status that was read is written back.  It may
\* have changed since, so any status can be written.
UpdateItemWithVariants(g) == /\ OnSale(g)
                             /\ \E status \in GiftStatus :
                                  Put(g, [gift[g] EXCEPT !.status = status])

\* Rows of carts and orders refer to a gift and keep it.
DeleteGift(g) ==
  /\ OnSale(g)
  /\ \A i \in Item : item[i].gift = g => i \notin InCart /\ item[i].orders = 0
  /\ Put(g, NoGift)

UpdateProviderStatus(p) ==
  /\ barred' = IF p \in barred THEN barred \ {p} ELSE barred \cup {p}
  /\ UNCHANGED <<gift, item, buyer>>

-----------------------------------------------------------------------------
(* The cart *)

\* availableGiftWhere
Available(g) == OnSale(g) /\ gift[g].status = "ACTIVE" /\ gift[g].provider \notin barred

ProvidersOf(items) == {gift[g].provider : g \in {h \in {item[i].gift : i \in items} : Available(h)}}

\* The gift is available, and so is no gift of another provider in the cart.
AddCartItem(b, g) ==
  /\ buyer[b] = Browsing /\ Available(g)
  /\ ProvidersOf(InCart) # {} => gift[g].provider \in ProvidersOf(InCart)
  /\ Buys(b, [op |-> "add", gift |-> g])
  /\ UNCHANGED <<gift, barred, item>>

CreateCartItem(b, i) ==
  /\ buyer[b].op = "add" /\ item[i].state = "new" /\ OnSale(buyer[b].gift)
  /\ item' = [item EXCEPT ![i].state = "in cart", ![i].gift = buyer[b].gift,
                          ![i].early = \E c \in Buyer : buyer[c].op = "order"]
  /\ Buys(b, Browsing)
  /\ UNCHANGED <<gift, barred>>

\* deleteCartItem of one, clearCart of all.
TakeOut(items) ==
  /\ items # {} /\ items \subseteq InCart
  /\ item' = [i \in Item |-> IF i \in items THEN [item[i] EXCEPT !.state = "taken out"]
                             ELSE item[i]]
  /\ UNCHANGED <<gift, barred, buyer>>

DeleteCartItem(i) == TakeOut({i})
ClearCart == TakeOut(InCart)

\* createOrder, up to its transaction: every item is available, of one provider, and the
\* wallet has the money.
CreateOrder(b) ==
  /\ buyer[b] = Browsing
  /\ InCart # {}
  /\ \A i \in InCart : Available(item[i].gift)
  /\ \A p, q \in ProvidersOf(InCart) : p = q
  /\ Buys(b, [op |-> "order", items |-> InCart])
  /\ UNCHANGED <<gift, barred, item>>

\* Mutant: the items stay in the cart.
MutantCheckedOut(state) == state

\* markCartCheckedOut: whatever the cart holds by now is deleted.
CheckedOut(state) == IF state = "in cart" THEN "checked out" ELSE state

\* The order has the items that were read.  The model counts to two.
CreateOrderWithItems(b) ==
  /\ buyer[b].op = "order"
  /\ \A i \in buyer[b].items : OnSale(item[i].gift)
  /\ item' = [i \in Item |->
       LET ordered == i \in buyer[b].items
       IN [item[i] EXCEPT !.orders = IF ordered /\ @ < 2 THEN @ + 1 ELSE @,
                          !.stale = @ \/ (ordered /\ i \notin InCart),
                          !.state = CheckedOut(@)]]
  /\ Buys(b, Browsing)
  /\ UNCHANGED <<gift, barred>>

\* Refused, or stopped: the balance is short, a statement fails.
BuyerStops(b) == /\ buyer[b] # Browsing
                 /\ Buys(b, Browsing)
                 /\ UNCHANGED <<gift, barred, item>>

MarketInit ==
  /\ gift = [g \in Gift |-> NoGift]
  /\ barred = {}
  /\ item \in [Item -> {[state |-> "new", gift |-> g, orders |-> 0, early |-> FALSE,
                         stale |-> FALSE] : g \in {CHOOSE g \in Gift : TRUE}}]
  /\ buyer = [b \in Buyer |-> Browsing]

MarketNext ==
  \/ \E g \in Gift : \/ CreateGift(g) \/ CreateItemWithVariants(g) \/ UpdateGift(g)
                     \/ UpdateItemWithVariants(g) \/ DeleteGift(g)
  \/ \E p \in Provider : UpdateProviderStatus(p)
  \/ \E i \in Item : DeleteCartItem(i)
  \/ ClearCart
  \/ \E b \in Buyer : \/ \E g \in Gift : AddCartItem(b, g)
                      \/ \E i \in Item : CreateCartItem(b, i)
                      \/ CreateOrder(b) \/ CreateOrderWithItems(b) \/ BuyerStops(b)

MarketSpec == MarketInit /\ [][MarketNext]_marketVars

-----------------------------------------------------------------------------
\* The rows and the requests have the shape the code gives them.
MarketTypeOK ==
  /\ gift \in [Gift -> GiftRow \cup {NoGift}]
  /\ barred \subseteq Provider
  /\ item \in [Item -> ItemRow]
  /\ buyer \in [Buyer -> {Browsing} \cup [op : {"add"}, gift : Gift]
                         \cup [op : {"order"}, items : SUBSET Item]]

\* What the customer put in the cart is ordered once: twice only by a checkout that had
\* read the cart before another emptied it, and dropped unordered by a checkout only if it
\* was added while one was under way.
OrderedOnce ==
  \A i \in Item : /\ item[i].orders > 1 => item[i].stale
                  /\ item[i].state = "checked out" /\ item[i].orders = 0 => item[i].early

=============================================================================
