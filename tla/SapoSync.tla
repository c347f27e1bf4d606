------------------------------ MODULE SapoSync ------------------------------
(***************************************************************************)
(* The copy of the Sapo shop in the program's tables (cskh/sapo): the      *)
(* products, the customers and the orders, each read page by page from the *)
(* shop's API while the shop goes on changing, and written row by row.     *)
(* Any number of syncs may run at once: POST /cskh/sapo/sync and its four  *)
(* variants take no lock.                                                  *)
(*                                                                         *)
(* A product has one variant; an order line is the variant it names, the    *)
(* lines of Nameless products by their SKU alone.                          *)
(* PageSize stands for the API's 250.  SapoFaults turns on: "fails" (the   *)
(* API or the database fails and the sync ends), "newest first" (the list  *)
(* of customers starts with the newest, as the list of products does), and *)
(* "together" (a second sync starts while one runs).                       *)
(***************************************************************************)
EXTENDS Integers, Sequences, FiniteSets, SequencesExt
CONSTANTS ShopProducts, Nameless, ShopOrders, LinesOf, MaxCustomers, PageSize, Syncs, SapoFaults

VARIABLES
  shop,       \* Sapo: products (newest first), number of customers, status of each order
  stored,     \* our tables: products, variants ("none", "own", "unlinked"), customers, orders
  lines,      \* the order_items of each order: how many of each variant
  sync        \* the syncs in progress
sapoVars == <<shop, stored, lines, sync>>

Idle == [at |-> "idle", all |-> FALSE, page |-> 1, known |-> {}, todo |-> <<>>, left |-> {},
         seen |-> FALSE, fetched |-> 0, alone |-> TRUE, there |-> {}]
Ended == [Idle EXCEPT !.seen = TRUE]      \* as Idle, for the properties: ended without an error
Init ==
  /\ shop = [products |-> <<>>, customers |-> 0, orders |-> [o \in ShopOrders |-> "none"]]
  /\ stored = [products |-> {}, variants |-> [p \in ShopProducts |-> "none"], customers |-> {}, orders |-> {}]
  /\ lines = [o \in ShopOrders |-> [p \in ShopProducts |-> 0]]
  /\ sync = [r \in Syncs |-> Idle]

\* Page k of a list of the API; the list may have moved since page k - 1 was read.
PageOf(list, k) ==
  LET last == k * PageSize IN SubSeq(list, last - PageSize + 1, IF last < Len(list) THEN last ELSE Len(list))
Customers == IF "newest first" \in SapoFaults
             THEN [i \in 1..shop.customers |-> shop.customers + 1 - i]
             ELSE [i \in 1..shop.customers |-> i]
\* The page of the resume: the last full one again, "overlap 1 trang".
StartPage(count) == IF count < PageSize THEN 1 ELSE count \div PageSize
At(r, what) == sync[r].at = what
Set(r, rec) == sync' = [sync EXCEPT ![r] = rec]

\* SapoFullSyncService.sync: one resource, or products, customers and orders in this order.
\* What each resource reads first: the ids already stored; the page to resume from.
Enter(run, what) ==
  CASE what = "products"  -> [run EXCEPT !.at = what, !.page = 1, !.known = stored.products,
                                         !.fetched = 0, !.there = Range(shop.products)]
    [] what = "customers" -> [run EXCEPT !.at = what, !.known = stored.customers,
                                         !.page = StartPage(Cardinality(stored.customers)),
                                         !.there = Range(Customers)]
    [] what = "orders"    -> [run EXCEPT !.at = "open", !.todo = <<>>, !.there = {}]
    [] OTHER              -> Ended
After(run, what) ==
  Enter(run, IF ~run.all THEN "end" ELSE IF what = "products" THEN "customers"
             ELSE IF what = "customers" THEN "orders" ELSE "end")
SyncStart(r) ==
  /\ At(r, "idle")
  /\ "together" \in SapoFaults \/ \A q \in Syncs : At(q, "idle")
  /\ \E what \in {"all", "products", "customers", "orders"} :
       LET others == {q \in Syncs : ~At(q, "idle")}
           new == [Idle EXCEPT !.all = (what = "all"), !.alone = others = {}]
       IN sync' = [q \in Syncs |->
                     IF q = r THEN Enter(new, IF what = "all" THEN "products" ELSE what)
                     ELSE [sync[q] EXCEPT !.alone = At(q, "idle")]]
  /\ UNCHANGED <<shop, stored, lines>>

\* importFromSapoApi: a page of products.  A product already stored is left as it is; the nested
\* insert of a new one fails as a whole if its variant's id or SKU is taken (P2002).  A product
\* whose insert fails is skipped.
Insertable(p) == p \notin stored.products /\ stored.variants[p] = "none"
WithProducts(made) ==
  [stored EXCEPT !.products = @ \union made,
                 !.variants = [p \in ShopProducts |-> IF p \in made THEN "own" ELSE @[p]]]
ProductPage(r) ==
  /\ At(r, "products")
  /\ LET run == sync[r]
         batch == PageOf(shop.products, run.page)
         new == {p \in Range(batch) \ run.known : Insertable(p)}
         next == [run EXCEPT !.page = @ + 1, !.known = @ \union Range(batch),
                             !.fetched = @ + Len(batch)]
     IN /\ \E made \in IF "fails" \in SapoFaults THEN SUBSET new ELSE {new} :
             stored' = WithProducts(made)
        /\ Set(r, IF Len(batch) = PageSize THEN next
                  ELSE IF next.fetched = 0 THEN Idle      \* "Sapo không trả sản phẩm": the sync fails
                  ELSE After(next, "products"))
  /\ UNCHANGED <<shop, lines>>

\* Mutant of CustomerPage: the sync ends with a page that holds nothing new.
CustomerPageNew(r) ==
  /\ At(r, "customers")
  /\ LET run == sync[r]
         batch == PageOf(Customers, run.page)
         next == [run EXCEPT !.page = @ + 1, !.known = @ \union Range(batch)]
     IN /\ stored' = [stored EXCEPT !.customers = @ \union Range(batch)]
        /\ Set(r, IF Range(batch) \subseteq run.known THEN After(next, "customers") ELSE next)
  /\ UNCHANGED <<shop, lines>>

\* syncFromSapo of the customers: a page, in one createMany that skips duplicates.
CustomerPage(r) ==
  /\ At(r, "customers")
  /\ LET run == sync[r]
         batch == PageOf(Customers, run.page)
         next == [run EXCEPT !.page = @ + 1, !.known = @ \union Range(batch)]
     IN /\ stored' = [stored EXCEPT !.customers = @ \union Range(batch)]
        /\ Set(r, IF Len(batch) = PageSize THEN next ELSE After(next, "customers"))
  /\ UNCHANGED <<shop, lines>>

\* The next order of those read, or the end of the sync.
NextOrder(run) == IF run.todo = <<>> THEN Enter(run, "end") ELSE [run EXCEPT !.at = "order"]
Skip(run) == [run EXCEPT !.todo = Tail(@)]

\* fetchSapoPages: all the pages of one status, read as one.
RowsWith(status) == SetToSeq({o \in ShopOrders : shop.orders[o] = status})

\* syncFromSapo of the orders: the open ones, the closed ones, then the cancelled ones are read;
\* an order that is closed in between is read twice, one that is reopened is not read.
FetchOrders(r) ==
  /\ \E s \in {"open", "closed", "cancelled"} :
       /\ At(r, s)
       /\ LET rows == RowsWith(s)
              next == [sync[r] EXCEPT !.todo = @ \o rows, !.there = @ \union Range(rows)]
          IN Set(r, IF s = "open" THEN [next EXCEPT !.at = "closed"]
                    ELSE IF s = "closed" THEN [next EXCEPT !.at = "cancelled"]
                    ELSE NextOrder(next))
  /\ UNCHANGED <<shop, stored, lines>>

\* The row of the order is looked up by its Sapo id ...
OrderFind(r) ==
  /\ At(r, "order")
  /\ Set(r, [sync[r] EXCEPT !.at = "write", !.seen = Head(sync[r].todo) \in stored.orders])
  /\ UNCHANGED <<shop, stored, lines>>
\* ... then updated, or created: a row created meanwhile makes the insert fail, and the sync with it.
OrderWrite(r) ==
  /\ At(r, "write")
  /\ LET o == Head(sync[r].todo)
         next == [sync[r] EXCEPT !.at = IF sync[r].seen THEN "clear" ELSE "lines", !.left = LinesOf[o]]
     IN IF ~sync[r].seen /\ o \in stored.orders
        THEN Set(r, Idle) /\ UNCHANGED stored
        ELSE /\ Set(r, IF ~sync[r].seen /\ LinesOf[o] = {} THEN NextOrder(Skip(next)) ELSE next)
             /\ stored' = [stored EXCEPT !.orders = @ \union {o}]
  /\ UNCHANGED <<shop, lines>>
\* Mutant of OrderClear: the lines are put beside those of an earlier sync.
OrderClearNone(r) ==
  /\ At(r, "clear")
  /\ LET o == Head(sync[r].todo)
     IN Set(r, IF LinesOf[o] = {} THEN NextOrder(Skip(sync[r])) ELSE [sync[r] EXCEPT !.at = "lines"])
  /\ UNCHANGED <<shop, stored, lines>>

OrderClear(r) ==
  /\ At(r, "clear")
  /\ LET o == Head(sync[r].todo)
     IN /\ lines' = [lines EXCEPT ![o] = [p \in ShopProducts |-> 0]]
        /\ Set(r, IF LinesOf[o] = {} THEN NextOrder(Skip(sync[r])) ELSE [sync[r] EXCEPT !.at = "lines"])
  /\ UNCHANGED <<shop, stored>>
\* resolveVariantId: a variant the program does not know becomes one of the product "SP chưa map";
\* without an id of a variant there is none to make, and the line is skipped.
Skipped(p) == p \in Nameless /\ stored.variants[p] = "none"
VariantOf(p) == IF stored.variants[p] = "none" THEN "unlinked" ELSE stored.variants[p]
LineWrite(r) ==
  /\ At(r, "lines")
  /\ LET o == Head(sync[r].todo)
     IN \E p \in sync[r].left :
          /\ IF Skipped(p) THEN UNCHANGED <<stored, lines>>
             ELSE /\ stored' = [stored EXCEPT !.variants[p] = VariantOf(p)]
                  /\ lines' = [lines EXCEPT ![o][p] = @ + 1]
          /\ Set(r, IF sync[r].left = {p} THEN NextOrder(Skip(sync[r]))
                    ELSE [sync[r] EXCEPT !.left = @ \ {p}])
  /\ UNCHANGED shop

\* Any read or write may fail: the error ends the sync, what it wrote stays.
SyncFails(r) ==
  /\ "fails" \in SapoFaults
  /\ ~At(r, "idle")
  /\ Set(r, Idle)
  /\ UNCHANGED <<shop, stored, lines>>

\* The shop: a product, a customer or an order is added, an order is closed.
ShopChanges ==
  /\ \/ \E p \in ShopProducts \ Range(shop.products) : shop' = [shop EXCEPT !.products = <<p>> \o @]
     \/ shop.customers < MaxCustomers /\ shop' = [shop EXCEPT !.customers = @ + 1]
     \/ \E o \in ShopOrders : /\ shop.orders[o] = "none" /\ LinesOf[o] \subseteq Range(shop.products)
                              /\ shop' = [shop EXCEPT !.orders[o] = "open"]
     \/ \E o \in ShopOrders : shop.orders[o] = "open" /\ shop' = [shop EXCEPT !.orders[o] = "closed"]
  /\ UNCHANGED <<stored, lines, sync>>

Next ==
  \/ ShopChanges
  \/ \E r \in Syncs : \/ SyncStart(r) \/ ProductPage(r) \/ CustomerPage(r) \/ FetchOrders(r)
                      \/ OrderFind(r) \/ OrderWrite(r) \/ OrderClear(r) \/ LineWrite(r) \/ SyncFails(r)
Spec == Init /\ [][Next]_sapoVars
-----------------------------------------------------------------------------
\* The part of the sync that reads `what` ends without an error.
Ends(r, what) == At(r, what) /\ sync'[r].at # what /\ sync'[r] # Idle

(* A sync of the orders that no other sync overlapped leaves each order it read with exactly the
   lines the shop gives it, whatever earlier syncs left half done and however often it read it; of
   the lines without a variant only those whose SKU is stored. *)
OrderLines ==
  \A r \in Syncs : sync[r].alone /\ sync[r].at \in {"write", "clear", "lines"} /\ sync'[r] = Ended =>
     \A o \in sync[r].there : lines'[o] = [p \in ShopProducts |->
                                            IF p \in LinesOf[o] /\ ~Skipped(p)' THEN 1 ELSE 0]

(* A sync of the customers that ends has every customer the shop had when it started, though it
   starts at the page its count of stored customers points to, as long as the shop lists the oldest
   first. *)
CustomersCaughtUp ==
  \A r \in Syncs : Ends(r, "customers") => sync[r].there \subseteq stored'.customers

(* An import of the products that ends has every product the shop had when it started. *)
ProductsCaughtUp ==
  \A r \in Syncs : Ends(r, "products") => sync[r].there \subseteq stored'.products
=============================================================================
