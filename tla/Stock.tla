--------------------------------- MODULE Stock ---------------------------------
(***************************************************************************)
(* Stock management (stock_management.py): serialised items that are held  *)
(* for, handed to and taken back from customers and high sites, and        *)
(* miscellaneous lots that are signed out by quantity.  Both hang under    *)
(* products and vendors, whose deletion cascades.                          *)
(*                                                                         *)
(* Every handler is one READ COMMITTED transaction: it reads, checks what  *)
(* it read, and writes by id without testing it again.  tx[w] is the open  *)
(* transaction of thread w.  Handlers overlap; where they take turns, no   *)
(* two that are open at once are about the same item, or sign out.         *)
(*                                                                         *)
(* Quantities are doubles, here counted in grains of 2^-30: below 2^22     *)
(* doubles hold and subtract these exactly, and 1e-9 is one grain and a    *)
(* bit.  What is entered is a number of grains; the bits of a decimal      *)
(* fraction beyond are left out, and with them the rounding of its sums.   *)
(*                                                                         *)
(* Definitions ending in _X are slips, see POApproval.tla.                 *)
(***************************************************************************)
EXTENDS Integers, FiniteSets, FiniteSetsExt, Functions

CONSTANTS
  Vendor, Misc,       \* vendors; those for miscellaneous stock
  Product, VendorOf,  \* products; vendor_id of each
  NameOf,             \* LOWER(name) of each: two vendors may have products of one name
  Item,               \* serialised items (rows are never inserted twice)
  Customer, Site,     \* customers and high sites, who may hold an item
  NoOne,
  Absent, NoLog,      \* no row
  Quantity,           \* quantities that are entered, in grains
  Slack,              \* grains a sign-out may lack: 1e-9
  MaxLots, MaxSignOuts,  \* bounds: lots booked in, sign-outs begun
  Worker,
  TakeTurns           \* whether handlers of the same item, and sign-outs, take turns

ASSUME ConstantsAssumption ==
  /\ Misc \subseteq Vendor
  /\ VendorOf \in [Product -> Vendor]
  /\ NoOne \notin Customer \cup Site \cup Vendor \cup Item
  /\ Quantity \subseteq Nat \ {0}
  /\ Slack \in Nat
  /\ MaxLots \in Nat /\ MaxSignOuts \in Nat
  /\ TakeTurns \in BOOLEAN

VARIABLES
  vendors, products,  \* rows of stock_supplier_vendors, stock_vendor_products
  item,               \* rows of stock_product_items, Absent before and after
  last,               \* latest lifecycle log row of each item
  scrapped,           \* rows of stock_scrapped_log
  lot,                \* rows of stock_misc_product_lots
  booked,             \* lots booked in so far: the id sequence
  signed,             \* quantity of each committed misc assignment, 0 before
  begun,              \* assignment ids taken so far
  usage,              \* quantity of each lot that each assignment used
  tx

vars == <<vendors, products, item, last, scrapped, lot, booked, signed, begun, usage, tx>>
itemvars == <<item, last, scrapped>>
lotvars  == <<lot, booked, signed, usage>>

Idle   == [op |-> "idle"]

LotId  == 1..MaxLots
SignId == 1..MaxSignOuts

Status == {"new", "pre_allocated", "assigned", "returned"}
NewItem(p) == [product |-> p, status |-> "new", who |-> NoOne, out |-> FALSE, hold |-> "none"]

\* out: assigned_at is set.  hold: pre_allocated_expires_at, ahead or past.
ItemRow == [product : Product, status : Status, who : Customer \cup Site \cup {NoOne},
            out : BOOLEAN, hold : {"none", "running", "over"}]
LogRow  == [from : Status, to : Status \cup {"scrapped"}, who : Customer \cup Site \cup {NoOne}]
LotRow  == [product : Product, in : Nat, rem : Nat]

ASSUME RowsAssumption == Absent \notin ItemRow \cup LotRow /\ NoLog \notin LogRow

Init ==
  /\ vendors = Vendor /\ products = Product
  /\ item = [i \in Item |-> Absent]
  /\ last = [i \in Item |-> NoLog]
  /\ scrapped = {}
  /\ lot = [l \in LotId |-> Absent] /\ booked = 0
  /\ signed = [a \in SignId |-> 0] /\ begun = 0
  /\ usage = [a \in SignId |-> [l \in LotId |-> 0]]
  /\ tx = [w \in Worker |-> Idle]

Items(p) == {i \in Item : item[i] # Absent /\ item[i].product = p}
Lots(p)  == {l \in LotId : lot[l] # Absent /\ lot[l].product = p}
Total(f) == MapThenSumSet(LAMBDA x : f[x], DOMAIN f)

Start(w, t) == tx[w].op = "idle" /\ tx' = [tx EXCEPT ![w] = t]
End(w)      == tx' = [tx EXCEPT ![w] = Idle]

-----------------------------------------------------------------------------
(* Vendors and products. *)

\* The name is unique among the vendors of one supplier, or products of one vendor.
AddVendor(v) ==
  /\ v \notin vendors /\ vendors' = vendors \cup {v}
  /\ UNCHANGED <<products, itemvars, lotvars, begun, tx>>

AddProduct(p) ==
  /\ VendorOf[p] \in vendors /\ p \notin products
  /\ products' = products \cup {p}
  /\ UNCHANGED <<vendors, itemvars, lotvars, begun, tx>>

\* Holds are not looked at, only what is with a customer.
Blocked_X(p) ==
  \/ \E i \in Items(p) : item[i].status = "assigned"
  \/ \E l \in Lots(p), a \in SignId : usage[a][l] > 0

Blocked(p) ==
  \/ \E i \in Items(p) : item[i].status \in {"assigned", "pre_allocated"}
  \/ \E l \in Lots(p), a \in SignId : usage[a][l] > 0

\* delete_product and delete_vendor look for blockers first; whole is the
\* vendor, or NoOne when one product goes.
BeginDelete(w, gone, whole) ==
  /\ \A p \in gone : p \in products /\ ~Blocked(p)
  /\ whole = NoOne \/ whole \in vendors
  /\ Start(w, [op |-> "delete", gone |-> gone, whole |-> whole])
  /\ UNCHANGED <<vendors, products, itemvars, lotvars, begun>>

\* The DELETE cascades to items, their log and lots, whatever they are by
\* now; only a lot that was used stops it (ON DELETE RESTRICT).
CommitDelete(w) ==
  LET t    == tx[w]
      gone == {p \in products : p \in t.gone \/ VendorOf[p] = t.whole}
  IN /\ t.op = "delete"
     /\ \A p \in gone, l \in LotId, a \in SignId : l \in Lots(p) => usage[a][l] = 0
     /\ vendors'  = vendors \ {t.whole}
     /\ products' = products \ gone
     /\ item' = [i \in Item |-> IF \E p \in gone : i \in Items(p) THEN Absent ELSE item[i]]
     /\ last' = [i \in Item |-> IF \E p \in gone : i \in Items(p) THEN NoLog ELSE last[i]]
     /\ lot'  = [l \in LotId |-> IF \E p \in gone : l \in Lots(p) THEN Absent ELSE lot[l]]
     /\ End(w)
     /\ UNCHANGED <<scrapped, booked, signed, begun, usage>>

-----------------------------------------------------------------------------
(* Serialised items. *)

\* A batch is inserted as a whole or not at all, under a vendor that is not misc.
AddItems(p, batch) ==
  /\ p \in products /\ VendorOf[p] \notin Misc
  /\ batch # {} /\ \A i \in batch : item[i] = Absent /\ last[i] = NoLog
                                    /\ \A s \in scrapped : s.item # i
  /\ item' = [i \in Item |-> IF i \in batch THEN NewItem(p) ELSE item[i]]
  /\ UNCHANGED <<vendors, products, last, scrapped, lotvars, begun, tx>>

\* Time: PRE_ALLOCATION_HOLD_DAYS have passed.
HoldRunsOut(i) ==
  /\ item[i] # Absent /\ item[i].hold = "running"
  /\ item' = [item EXCEPT ![i].hold = "over"]
  /\ UNCHANGED <<vendors, products, last, scrapped, lotvars, begun, tx>>

\* What the expiry reads: the holds that are over, and for whom they were.
DueHolds == {i \in Item : item[i] # Absent /\ item[i].status = "pre_allocated" /\ item[i].hold = "over"}
Scan == [i \in DueHolds |-> item[i].who]

\* The expiry forgets when the item was handed out, not for whom.
Freed_X(row) == [row EXCEPT !.status = "new", !.out = FALSE, !.hold = "none"]

Freed(row) == [row EXCEPT !.status = "new", !.who = NoOne, !.out = FALSE, !.hold = "none"]

\* The status a handler finds, its own expiry included, and what it accepts.
Found(w, i) == IF i \in DOMAIN tx[w].scan THEN "new" ELSE item[i].status
Admits(op, status) ==
  CASE op = "assign"       -> status # "assigned"
    [] op = "pre_allocate" -> status \notin {"assigned", "pre_allocated"}
    [] op = "release"      -> status = "pre_allocated"
    [] OTHER               -> status = "assigned"

\* Handlers without an expiry read one row; a target is a customer or a site.
BeginItem(w, op, i, c) ==
  /\ item[i] # Absent /\ Admits(op, item[i].status)
  /\ Start(w, [op |-> op, step |-> "read", item |-> i, who |-> c, scan |-> <<>>,
               from |-> item[i].status, held |-> item[i].who])
  /\ UNCHANGED <<vendors, products, itemvars, lotvars, begun>>

\* list_suppliers, pre_allocate_... and release_... read the due holds first.
BeginScan(w, op, i, c) ==
  /\ op # "list" => item[i] # Absent
  /\ Start(w, [op |-> op, step |-> "scan", item |-> i, who |-> c, scan |-> Scan,
               from |-> "new", held |-> NoOne])
  /\ UNCHANGED <<vendors, products, itemvars, lotvars, begun>>

\* Rows another transaction has written and not committed.
LockedBy(w) == IF tx[w].op \in {"pre_allocate", "release"} /\ tx[w].step = "read"
               THEN DOMAIN tx[w].scan ELSE {}
Free(w, S) == \A v \in Worker \ {w} : LockedBy(v) \cap S = {}

\* ... free them, and then read their own row; a row they do not admit raises,
\* and the expiry is rolled back with it (see Rollback).
Look(w) ==
  LET t == tx[w]
  IN /\ t.op \in {"pre_allocate", "release"} /\ t.step = "scan"
     /\ Free(w, DOMAIN t.scan)
     /\ item[t.item] # Absent /\ Admits(t.op, Found(w, t.item))
     /\ tx' = [tx EXCEPT ![w] = [t EXCEPT !.step = "read", !.from = Found(w, t.item),
                                          !.held = item[t.item].who]]
     /\ UNCHANGED <<vendors, products, itemvars, lotvars, begun>>

\* The commit of an item's handler: the scanned holds are freed, the item's
\* row becomes row, and each gets a log row.  A log row needs its item.
Write(w, row, to) ==
  LET t == tx[w]
      S == DOMAIN t.scan
  IN /\ t.step = "read"
     /\ Free(w, S \cup {t.item})
     /\ \A j \in S \cup {t.item} : item[j] # Absent
     /\ item' = [j \in Item |-> IF j = t.item THEN row
                                ELSE IF j \in S THEN Freed(item[j]) ELSE item[j]]
     /\ last' = [j \in Item |->
                   IF row = Absent /\ j = t.item THEN NoLog
                   ELSE IF j = t.item THEN [from |-> t.from, to |-> to,
                                            who |-> IF t.who = NoOne THEN t.held ELSE t.who]
                   ELSE IF j \in S THEN [from |-> "pre_allocated", to |-> "new", who |-> t.scan[j]]
                   ELSE last[j]]
     /\ End(w)
     /\ UNCHANGED <<vendors, products, lotvars, begun>>

Row(w) == item[tx[w].item]
CommitAssign(w) ==
  /\ tx[w].op = "assign" /\ Row(w) # Absent
  /\ Write(w, [Row(w) EXCEPT !.status = "assigned", !.who = tx[w].who, !.out = TRUE, !.hold = "none"],
           "assigned")
  /\ UNCHANGED scrapped

CommitPreAllocate(w) ==
  /\ tx[w].op = "pre_allocate" /\ Row(w) # Absent
  /\ Write(w, [Row(w) EXCEPT !.status = "pre_allocated", !.who = tx[w].who, !.out = TRUE,
                             !.hold = "running"], "pre_allocated")
  /\ UNCHANGED scrapped

CommitRelease(w) ==
  /\ tx[w].op = "release" /\ Row(w) # Absent
  /\ Write(w, Freed(Row(w)), "new")
  /\ UNCHANGED scrapped

\* The customer stays on a returned item.
CommitReturn(w) ==
  /\ tx[w].op = "return" /\ Row(w) # Absent
  /\ Write(w, [Row(w) EXCEPT !.status = "returned"], "returned")
  /\ UNCHANGED scrapped

\* The log of the item goes with its row; the scrap log stays.
CommitScrap(w) ==
  /\ tx[w].op = "scrap" /\ Row(w) # Absent
  /\ scrapped' = scrapped \cup {[item |-> tx[w].item, who |-> tx[w].held]}
  /\ Write(w, Absent, "scrapped")

CommitRma(w) ==
  /\ tx[w].op = "rma" /\ Row(w) # Absent
  /\ Write(w, Row(w), "assigned")
  /\ UNCHANGED scrapped

\* list_suppliers frees the scanned holds and commits before it reads the page.
CommitList(w) ==
  LET t == tx[w]
      S == DOMAIN t.scan
  IN /\ t.op = "list" /\ Free(w, S) /\ \A j \in S : item[j] # Absent
     /\ item' = [j \in Item |-> IF j \in S THEN Freed(item[j]) ELSE item[j]]
     /\ last' = [j \in Item |-> IF j \in S
                   THEN [from |-> "pre_allocated", to |-> "new", who |-> t.scan[j]] ELSE last[j]]
     /\ End(w)
     /\ UNCHANGED <<vendors, products, scrapped, lotvars, begun>>

-----------------------------------------------------------------------------
(* Miscellaneous lots. *)

AddLot(p, q) ==
  /\ p \in products /\ VendorOf[p] \in Misc /\ booked < MaxLots
  /\ booked' = booked + 1
  /\ lot' = [lot EXCEPT ![booked + 1] = [product |-> p, in |-> q, rem |-> q]]
  /\ UNCHANGED <<vendors, products, itemvars, signed, begun, usage, tx>>

\* What is left of each lot of a product of this name, whichever misc vendor's.
Left(n) ==
  LET of == {l \in LotId : lot[l] # Absent /\ VendorOf[lot[l].product] \in Misc
                                          /\ NameOf[lot[l].product] = n}
  IN [l \in {k \in of : lot[k].rem > 0} |-> lot[l].rem]

\* assign_misc_item_to_customer reads the lots of a name, and lets a sign-out
\* pass that they cover but for the tolerance.
BeginSignOut(w, n, q) ==
  /\ Total(Left(n)) + Slack >= q
  /\ Start(w, [op |-> "sign_out", step |-> "read", qty |-> q, left |-> Left(n), id |-> 0])
  /\ UNCHANGED <<vendors, products, itemvars, lotvars, begun>>

\* The INSERT takes the next id, which a rollback does not give back.
InsertAssignment(w) ==
  /\ tx[w].op = "sign_out" /\ tx[w].step = "read" /\ begun < MaxSignOuts
  /\ begun' = begun + 1
  /\ tx' = [tx EXCEPT ![w].step = "inserted", ![w].id = begun + 1]
  /\ UNCHANGED <<vendors, products, itemvars, lotvars>>

\* The first lot gives what is asked, whatever it has.
TakesFirst_X(t) ==
  [l \in DOMAIN t.left |-> IF \A k \in DOMAIN t.left : l <= k THEN t.qty ELSE 0]

\* Every lot gives what is asked in the first place.
Takes_X(t) ==
  [l \in DOMAIN t.left |-> IF t.left[l] <= t.qty THEN t.left[l] ELSE t.qty]

\* First in, first out: lot l gives what the older ones left to ask for.  What
\* the tolerance let pass is asked of nobody.
Takes(t) ==
  [l \in DOMAIN t.left |->
     LET older == {k \in DOMAIN t.left : k < l}
         ask   == t.qty - Total([k \in older |-> t.left[k]])
     IN IF ask <= 0 THEN 0 ELSE IF t.left[l] <= ask THEN t.left[l] ELSE ask]

\* The id is read back as the highest there is, and the quantities left are
\* written as computed from what was read.
CommitSignOut(w) ==
  LET t      == tx[w]
      takes  == Takes(t)
      target == Max({t.id} \cup {a \in SignId : signed[a] > 0})
  IN /\ t.op = "sign_out" /\ t.step = "inserted"
     /\ \A l \in DOMAIN takes : takes[l] > 0 => lot[l] # Absent
     /\ signed' = [signed EXCEPT ![t.id] = t.qty]
     /\ lot' = [l \in LotId |-> IF l \in DOMAIN takes /\ takes[l] > 0
                                THEN [lot[l] EXCEPT !.rem = t.left[l] - takes[l]] ELSE lot[l]]
     /\ usage' = [usage EXCEPT ![target] = [l \in LotId |->
                    IF l \in DOMAIN takes THEN @[l] + takes[l] ELSE @[l]]]
     /\ End(w)
     /\ UNCHANGED <<vendors, products, itemvars, booked, begun>>

-----------------------------------------------------------------------------
\* A check that fails after the start, a foreign key, or a lost connection.
Rollback(w) == tx[w].op # "idle" /\ End(w)
               /\ UNCHANGED <<vendors, products, itemvars, lotvars, begun>>

HandItem(w) ==
  \/ CommitAssign(w) \/ CommitPreAllocate(w) \/ CommitRelease(w) \/ CommitReturn(w)
  \/ CommitScrap(w) \/ CommitRma(w) \/ CommitList(w)

BeginOnItem(w) ==
  \/ \E i \in Item, c \in Customer \cup Site : BeginItem(w, "assign", i, c)
  \/ \E i \in Item, op \in {"return", "scrap", "rma"} : BeginItem(w, op, i, NoOne)
  \/ \E i \in Item, c \in Customer : BeginScan(w, "pre_allocate", i, c)
  \/ \E i \in Item : BeginScan(w, "release", i, NoOne)
  \/ BeginScan(w, "list", NoOne, NoOne)

BeginDeletion(w) ==
  \/ \E p \in Product : BeginDelete(w, {p}, NoOne)
  \/ \E v \in Vendor : BeginDelete(w, {p \in products : VendorOf[p] = v}, v)

BringIn ==
  \/ \E v \in Vendor : AddVendor(v)
  \/ \E p \in Product : AddProduct(p)
  \/ \E p \in Product, batch \in SUBSET Item : AddItems(p, batch)
  \/ \E p \in Product, q \in Quantity : AddLot(p, q)

Next ==
  \/ BringIn
  \/ \E i \in Item : HoldRunsOut(i)
  \/ \E w \in Worker :
       \/ BeginOnItem(w) \/ Look(w) \/ HandItem(w)
       \/ BeginDeletion(w) \/ CommitDelete(w)
       \/ \E p \in Product, q \in Quantity : BeginSignOut(w, NameOf[p], q)
       \/ InsertAssignment(w) \/ CommitSignOut(w)
       \/ Rollback(w)

\* The items a transaction has read to write them, or to delete them.
Touches(t) ==
  CASE t.op \in {"idle", "sign_out"} -> {}
    [] t.op = "delete" -> {i \in Item : item[i] # Absent /\ (\/ item[i].product \in t.gone
                                                          \/ VendorOf[item[i].product] = t.whole)}
    [] OTHER -> ({t.item} \ {NoOne}) \cup DOMAIN t.scan

\* The code does not see to it: requests run in a thread pool.
Apart ==
  \A v, w \in Worker : v # w =>
    /\ Touches(tx[v]) \cap Touches(tx[w]) = {}
    /\ ~ (tx[v].op = "sign_out" /\ tx[w].op = "sign_out")

Spec == Init /\ [][Next /\ (TakeTurns => Apart')]_vars

-----------------------------------------------------------------------------
Holder   == Customer \cup Site \cup {NoOne}
HandOps  == {"assign", "return", "scrap", "rma", "pre_allocate", "release"}
ItemTx(S) == [op : HandOps \cup {"list"}, step : {"read", "scan"}, item : Item \cup {NoOne}, who : Holder,
             scan : [S -> Holder], from : Status, held : Holder]
DeleteTx == [op : {"delete"}, gone : SUBSET Product, whole : Vendor \cup {NoOne}]
SignTx(S) == [op : {"sign_out"}, step : {"read", "inserted"}, qty : Quantity,
             left : [S -> Nat], id : 0..MaxSignOuts]
TxOK(t) == \/ t = Idle \/ t \in DeleteTx
           \/ \E S \in SUBSET Item : t \in ItemTx(S)
           \/ \E S \in SUBSET LotId : t \in SignTx(S)

\* Type invariant.
TypeOK ==
  /\ vendors \subseteq Vendor /\ products \subseteq Product
  /\ item \in [Item -> ItemRow \cup {Absent}]
  /\ last \in [Item -> LogRow \cup {NoLog}]
  /\ scrapped \subseteq [item : Item, who : Customer \cup Site]
  /\ lot \in [LotId -> LotRow \cup {Absent}]
  /\ booked \in 0..MaxLots /\ begun \in 0..MaxSignOuts
  /\ signed \in [SignId -> Nat]
  /\ usage \in [SignId -> [LotId -> Nat]]
  /\ DOMAIN tx = Worker /\ \A w \in Worker : TxOK(tx[w])

\* Row and log agree: the latest log row of an item leads to its status and
\* names its holder, a free item has no holder and no hold, a held one has
\* both, one that is out has a holder and no hold.
LogTellsState ==
  \A i \in Item : item[i] # Absent =>
    LET row == item[i]
    IN /\ row.status = IF last[i] = NoLog THEN "new" ELSE last[i].to
       /\ row.status # "new" => row.who = last[i].who /\ row.who # NoOne
       /\ row.status = "new" => row.who = NoOne
       /\ row.out <=> row.status # "new"
       /\ row.hold # "none" <=> row.status = "pre_allocated"

\* sales_log_series and list_misc_products_for_assignment: what was booked in
\* and out, and what can still be signed out.
BookedIn  == Total([l \in {k \in LotId : lot[k] # Absent} |-> lot[l].in])
BookedOut == Total(signed)
Available == Total([l \in {k \in LotId : lot[k] # Absent} |-> lot[l].rem])
ItemsOut  == {i \in Item : item[i] # Absent /\ item[i].out}

\* The supplier page (list_suppliers) and the page of assigned stock.
StockPage    == {i \in Item : item[i] # Absent /\ item[i].status # "assigned"}
AssignedPage == {i \in Item : item[i] # Absent /\
                   (item[i].status = "assigned" \/ (item[i].status = "returned" /\ item[i].who # NoOne))}

\* list_product_catalog_for_supplier, which counts an item on hold as available, and
\* list_assigned_stock_by_vendor: joins with products and vendors that exist.
Joined(i) == /\ item[i] # Absent
             /\ item[i].product \in products /\ VendorOf[item[i].product] \in vendors
Catalog   == {i \in Item : Joined(i) /\ item[i].status # "assigned"}
ByVendor  == {i \in Item : Joined(i) /\ item[i].status = "assigned"}

\* What the tolerance let pass without a lot to take it from.
Allowance == Total([a \in SignId |-> IF signed[a] = 0 THEN 0 ELSE Slack])

\* The pages agree, and every sign-out is covered by the lots it used but for
\* the tolerance, also after deletions of products and vendors: what came in and
\* is not out can be signed out; an item that is booked out and not with anybody
\* is on hold; one on both pages has come back; no item is missing because its
\* product is gone.
BooksBalance ==
  /\ BookedIn - BookedOut \in (Available - Allowance)..Available
  /\ \A a \in SignId : signed[a] - Total(usage[a]) \in 0..Slack
  /\ \A l \in LotId : lot[l] # Absent =>
       lot[l].rem = lot[l].in - Total([a \in SignId |-> usage[a][l]])
  /\ ItemsOut \ AssignedPage = {i \in StockPage : item[i].status = "pre_allocated"}
  /\ StockPage \cap AssignedPage = {i \in StockPage : item[i].status = "returned"}
  /\ AssignedPage \subseteq ItemsOut /\ ByVendor \subseteq AssignedPage
  /\ Catalog \cup ByVendor = {i \in Item : item[i] # Absent}

\* The inductive invariant.  For any number of workers: a transaction knows whom
\* it hands an item to and from whom it scraps one, and foreign keys hold.
Informed ==
  /\ \A i \in Item : item[i] # Absent /\ item[i].status = "assigned" => item[i].who # NoOne
  /\ \A w \in Worker : LET t == tx[w] IN
       /\ t.op \in HandOps => t.item \in Item
       /\ t.op \in {"assign", "pre_allocate"} => t.who # NoOne
       /\ t.op = "scrap" => t.held # NoOne
       /\ t.op = "sign_out" /\ t.step = "inserted" => t.id # 0

References ==
  /\ \A i \in Item : item[i] # Absent => item[i].product \in products
  /\ \A l \in LotId : lot[l] # Absent => lot[l].product \in products
  /\ \A p \in products : VendorOf[p] \in vendors
  /\ \A s \in scrapped : item[s.item] = Absent

\* Where handlers take turns, what an open transaction read is still so.
ReadItem(t) ==
  /\ t.op \in {"assign", "return", "scrap", "rma"} => t.scan = <<>> /\ t.step = "read"
  /\ t.op = "list" => t.step = "scan"
  /\ t.op \in {"return", "scrap", "rma", "release"} => t.who = NoOne
  /\ \A j \in DOMAIN t.scan : /\ item[j] # Absent /\ item[j].status = "pre_allocated"
                             /\ item[j].hold = "over" /\ item[j].who = t.scan[j]
  /\ t.step = "read" => /\ item[t.item] # Absent /\ t.held = item[t.item].who
                        /\ t.from = IF t.item \in DOMAIN t.scan THEN "new" ELSE item[t.item].status
                        /\ Admits(t.op, t.from)

ReadDelete(t) ==
  \A i \in Item : item[i] # Absent /\ (item[i].product \in t.gone \/ VendorOf[item[i].product] = t.whole)
                  => item[i].status \notin {"assigned", "pre_allocated"}

ReadSign(t) ==
  /\ \A l \in DOMAIN t.left : l <= booked /\ (lot[l] # Absent => lot[l].rem = t.left[l])
  /\ Total(t.left) + Slack >= t.qty
  /\ t.step = "inserted" => t.id = begun /\ signed[t.id] = 0

Current ==
  \A w \in Worker : LET t == tx[w] IN
    /\ t.op \in HandOps \cup {"list"} => ReadItem(t)
    /\ t.op = "delete" => ReadDelete(t)
    /\ t.op = "sign_out" => ReadSign(t)

\* Ids that are not taken have nothing, nor have lots that are gone.
Unused ==
  /\ \A l \in LotId : l > booked => lot[l] = Absent
  /\ \A l \in LotId, a \in SignId : lot[l] = Absent => usage[a][l] = 0
  /\ \A a \in SignId : a > begun => signed[a] = 0

LotsUsed ==
  \A l \in LotId : lot[l] # Absent => lot[l].in = lot[l].rem + Total([a \in SignId |-> usage[a][l]])
SignOutsCovered == \A a \in SignId : signed[a] - Total(usage[a]) \in 0..Slack

IInv    == TypeOK /\ Informed /\ References
TurnInv == IInv /\ Apart /\ LogTellsState /\ Current /\ Unused /\ LotsUsed /\ SignOutsCovered

\* An item that a customer has, or that is held for one, leaves the table
\* only as scrapped: no deletion takes it along.
HeldItemsStay ==
  [][\A i \in Item :
       item[i] # Absent /\ item[i].status \in {"assigned", "pre_allocated"} /\ item'[i] = Absent
         => \E s \in scrapped' \ scrapped : s.item = i /\ s.who = item[i].who]_vars

\* Refuted where handlers overlap.  "Item is already assigned" (assign_item_to_customer): an item
\* goes from one customer to another only after it was returned.
OneHolder ==
  [][\A i \in Item :
       item[i] # Absent /\ item[i].status = "assigned" /\ item'[i] # Absent
         => item'[i].who = item[i].who]_vars
=============================================================================
