----------------------------- MODULE StockOrders -----------------------------
(***************************************************************************)
(* The orders taken in the inbox and the stock they use                    *)
(* (SapoOrderService.createOrder).  An order is one interactive            *)
(* transaction at Postgres's READ COMMITTED: it reads the variants and     *)
(* their stock, checks each line against the stock it read, looks for each *)
(* line a level that holds the quantity, decrements it, and inserts the    *)
(* order.  An UPDATE holds its row until the transaction ends; another one *)
(* waits for it, and then decrements what was committed meanwhile.         *)
(*                                                                         *)
(* A buyer sends one order: a sequence of lines <<variant, quantity>> out  *)
(* of Carts.  Level is what each variant has in each warehouse at first.   *)
(***************************************************************************)
EXTENDS Integers, Sequences, FiniteSets, FiniteSetsExt, SequencesExt
CONSTANTS Variants, Warehouses, Buyers, Carts, Level

VARIABLES
  level,      \* committed inventory_levels.available (onHand moves with it)
  tx,         \* the transaction of each buyer's order
  sold,       \* the committed orders: their lines and what they took from which row
  reading,    \* the stock a request for the catalogue has read and not yet cached
  cached      \* SapoProductService.cache: the stock the catalogue shows
stockVars == <<level, tx, sold, reading, cached>>

NoTx == [at |-> "new", cart |-> <<>>, line |-> 1, row |-> <<>>, took |-> <<>>]
Init ==
  /\ level = Level
  /\ tx = [b \in Buyers |-> NoTx]
  /\ sold = [b \in Buyers |-> [lines |-> <<>>, took |-> <<>>]]
  /\ reading = <<>> /\ cached = <<>>

Rows == Variants \X Warehouses
\* What a transaction took from a row so far: took is its sequence of <<row, quantity>>.
TakenFrom(took, row) == FoldSeq(LAMBDA t, n : IF t[1] = row THEN n + t[2] ELSE n, 0, took)
Taken(b, row) == TakenFrom(tx[b].took, row)
Holds(b, row) == \E i \in 1..Len(tx[b].took) : tx[b].took[i][1] = row
\* READ COMMITTED: what others committed, and its own writes.
Sees(b, row) == level[row] - Taken(b, row)
Stock(b, v) == FoldSet(LAMBDA w, n : n + Sees(b, <<v, w>>), 0, Warehouses)
Line(b) == tx[b].cart[tx[b].line]

\* createOrderInDb: the variants with their levels are read, and every line is checked on its own
\* against the sum over the warehouses.
OrderCheck(b) ==
  /\ tx[b].at = "new"
  /\ \E cart \in Carts :
       tx' = [tx EXCEPT ![b].cart = cart,
                        ![b].at = IF \A i \in 1..Len(cart) : Stock(b, cart[i][1]) >= cart[i][2]
                                  THEN "find" ELSE "refused"]
  /\ UNCHANGED <<level, sold, reading, cached>>
NextLine(t) == IF t.line = Len(t.cart) THEN [t EXCEPT !.at = "insert"]
               ELSE [t EXCEPT !.at = "find", !.line = @ + 1]
\* inventoryLevel.findFirst: any row with enough; without one the line takes nothing.
LevelFind(b) ==
  /\ tx[b].at = "find"
  /\ LET fits == {row \in Rows : row[1] = Line(b)[1] /\ Sees(b, row) >= Line(b)[2]}
     IN \/ \E row \in fits : tx' = [tx EXCEPT ![b].at = "update", ![b].row = row]
        \/ fits = {} /\ tx' = [tx EXCEPT ![b] = NextLine(@)]
  /\ UNCHANGED <<level, sold, reading, cached>>
\* inventoryLevel.update: by key, once no other transaction holds the row.
Waits(b, o) == o # b /\ tx[b].at = "update" /\ Holds(o, tx[b].row)
LevelUpdate(b) ==
  /\ tx[b].at = "update"
  /\ \A o \in Buyers : ~Waits(b, o)
  /\ tx' = [tx EXCEPT ![b] = [NextLine(@) EXCEPT !.took = Append(@, <<tx[b].row, Line(b)[2]>>), !.row = <<>>]]
  /\ UNCHANGED <<level, sold, reading, cached>>
\* The order is inserted and the transaction commits; the cache of the catalogue is dropped.
OrderCommit(b) ==
  /\ tx[b].at = "insert"
  /\ level' = [row \in Rows |-> Sees(b, row)]
  /\ sold' = [sold EXCEPT ![b] = [lines |-> tx[b].cart, took |-> tx[b].took]]
  /\ tx' = [tx EXCEPT ![b] = [NoTx EXCEPT !.at = "done"]]
  /\ cached' = <<>>
  /\ UNCHANGED reading
\* Mutant of OrderFails: without a transaction what the first lines took stays taken.
OrderFailsKeeps(b) ==
  /\ tx[b].at \in {"find", "update", "insert"}
  /\ level' = [row \in Rows |-> Sees(b, row)]
  /\ tx' = [tx EXCEPT ![b] = [NoTx EXCEPT !.at = "failed"]]
  /\ UNCHANGED <<sold, reading, cached>>

\* A deadlock, a transaction that waits too long, a lost connection: everything is rolled back.
OrderFails(b) ==
  /\ tx[b].at \in {"find", "update", "insert"}
  /\ tx' = [tx EXCEPT ![b] = [NoTx EXCEPT !.at = "failed"]]
  /\ UNCHANGED <<level, sold, reading, cached>>
\* SapoProductService.getCatalog: without a cached answer the stock is read, and cached for 15
\* minutes or until an order of this process.
CatalogRead ==
  /\ cached = <<>> /\ reading = <<>>
  /\ reading' = <<level>>
  /\ UNCHANGED <<level, tx, sold, cached>>
CatalogCache ==
  /\ reading # <<>>
  /\ cached' = reading /\ reading' = <<>>
  /\ UNCHANGED <<level, tx, sold>>
CatalogExpires ==
  /\ cached # <<>> /\ cached' = <<>>
  /\ UNCHANGED <<level, tx, sold, reading>>

Next ==
  \/ CatalogRead \/ CatalogCache \/ CatalogExpires
  \/ \E b \in Buyers : OrderCheck(b) \/ LevelFind(b) \/ LevelUpdate(b) \/ OrderCommit(b) \/ OrderFails(b)
Spec == Init /\ [][Next]_stockVars
-----------------------------------------------------------------------------
(* The stock of a row is what it was, less what the committed orders took from it: an order that
   fails gives back what its first lines took, and two orders that decrement a row both count. *)
StockAccounted ==
  \A row \in Rows :
    level[row] = Level[row] - FoldSet(LAMBDA b, n : n + TakenFrom(sold[b].took, row), 0, Buyers)
(* A committed order took every one of its lines from the stock. *)
AllDeducted == \A b \in Buyers : Len(sold[b].took) = Len(sold[b].lines)
(* No row is sold below zero. *)
NeverOversold == \A row \in Rows : level[row] >= 0
(* The catalogue shows the committed stock. *)
CatalogFresh == cached # <<>> => cached = <<level>>
=============================================================================
