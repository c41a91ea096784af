------------------------------- MODULE Catalog -------------------------------
(***************************************************************************)
(* The catalogue behind the inventory endpoints: products and suppliers,   *)
(* which are switched off rather than deleted, and SKUs, which are deleted *)
(* with everything that hangs on them.  A request fetches its object, then *)
(* writes; nothing is locked in between, and an order may move, be edited  *)
(* or be created while a supplier is being deleted.                        *)
(***************************************************************************)
EXTENDS FiniteSets

CONSTANTS
    Client,     \* users of the API
    RoleOf,     \* [Client -> "viewer", "manager" or "admin"]
    Product,    \* ids of the Product table
    Supplier,   \* ids of the Supplier table
    Sku,        \* ids of the SKU table
    PO,         \* ids of the PurchaseOrder table
    Child       \* the tables with one row per SKU, or per SKU and day

ASSUME CatalogAssumption ==
    /\ RoleOf \in [Client -> {"viewer", "manager", "admin"}]
    /\ Product \cap Supplier = {} /\ Sku \cap (Product \cup Supplier) = {}
    /\ PO \cap (Product \cup Supplier \cup Sku) = {}

VARIABLES
    active,     \* products and suppliers whose is_active is set
    created,    \* rows that were ever created: ids are not used twice
    sku,        \* the SKUs there are
    child,      \* <<table, SKU>>: the stock levels and sales records there are
    order,      \* [PO -> status, supplier, SKU]
    past,       \* [PO -> the statuses it has had]: a caller that will write may have read any
    client,     \* [Client -> the request it waits for: its kind, its object, what it fetched]
    deleted,    \* what a delete switched off or removed and nobody switched on again (history)
    late        \* orders created, or saved or reopened from an earlier read, in or after a
                \* deletion of their supplier (history)

catalogVars == <<active, created, sku, child, order, past, client, deleted, late>>

\* "undecided" is draft or pending_approval, "mailed" email_sent or waiting_confirmation, "closed"
\* the statuses no transition leaves.
OpenStatus == {"undecided", "approved", "sent"}
OrderStatus == OpenStatus \cup {"mailed", "closed"}
WriteKind == {"edit", "delete"}

CatalogTypeOK ==
    /\ active \subseteq Product \cup Supplier
    /\ created \subseteq Product \cup Supplier \cup Sku \cup PO
    /\ sku \subseteq Sku \cap created
    /\ child \subseteq Child \X sku
    /\ order \in [PO -> [status: OrderStatus \cup {"absent"}, supplier: Supplier, sku: Sku]]
    /\ past \in [PO -> SUBSET OrderStatus]
    /\ client \in [Client -> [kind: WriteKind \cup {"idle", "checked"},
                              id: Product \cup Supplier \cup Sku \cup PO \cup {"none"},
                              seen: OrderStatus \cup {"none"}]]
    /\ deleted \subseteq Product \cup Supplier \cup Sku /\ late \subseteq PO

NoWrite == [kind |-> "idle", id |-> "none", seen |-> "none"]

CatalogInit ==
    /\ active = {} /\ created = {} /\ sku = {} /\ child = {}
    /\ order \in [PO -> [status: {"absent"}, supplier: Supplier, sku: Sku]]
    /\ past = [o \in PO |-> {}]
    /\ client = [c \in Client |-> NoWrite]
    /\ deleted = {} /\ late = {}

-----------------------------------------------------------------------------
OrderExists(o) == order[o].status # "absent"
Deleting(s) == \E c \in Client : client[c].kind = "checked" /\ client[c].id = s
OrdersOf(k) == {o \in PO : OrderExists(o) /\ order[o].sku = k}
Fetchable(c) ==
    (IF RoleOf[c] = "admin" THEN created \cap Product ELSE active \cap Product)
    \cup (created \cap Supplier) \cup sku \cup {o \in PO : OrderExists(o)}

\* What is written of an order with this supplier is noted if it comes in or after its deletion.
Noted(o, s) == IF s \in deleted \/ Deleting(s) THEN late \cup {o} ELSE late \ {o}

\* get_permissions: managers create and update, administrators also delete; the rows of the
\* child tables and the orders are managers' to delete.
MayWrite(c, kind, id) ==
    RoleOf[c] \in IF kind = "delete" /\ id \notin PO THEN {"admin"} ELSE {"manager", "admin"}

\* create of the product, supplier and SKU endpoints; only SupplierSerializer takes is_active
\* from the request.
CreateRow(c, id) ==
    /\ id \notin created /\ MayWrite(c, "create", id)
    /\ created' = created \cup {id}
    /\ \/ id \in Product \cup Supplier /\ active' = active \cup {id}
       \/ id \in Supplier \cup Sku /\ UNCHANGED active
    /\ sku' = IF id \in Sku THEN sku \cup {id} ELSE sku
    /\ UNCHANGED <<child, order, past, client, deleted, late>>

\* get_object of update and destroy: products that are switched off are found by administrators
\* who ask for them, suppliers that are switched off by everyone.
Fetch(c, kind, id) ==
    /\ client[c] = NoWrite /\ id \in Fetchable(c) /\ MayWrite(c, kind, id)
    /\ client' = [client EXCEPT ![c] = [kind |-> kind, id |-> id,
                    seen |-> IF id \in PO THEN order[id].status ELSE "none"]]
    /\ UNCHANGED <<active, created, sku, child, order, past, deleted, late>>

Done(c) == client' = [client EXCEPT ![c] = NoWrite]
Asks(c, kind, ids) == client[c].kind = kind /\ client[c].id \in ids

\* update_product writes the columns of ProductWriteSerializer, is_active not among them;
\* so does update_sku, and neither brings back a row that has been deleted since the fetch.
UpdateRow(c) ==
    /\ Asks(c, "edit", Product \cup Sku) /\ Done(c)
    /\ UNCHANGED <<active, created, sku, child, order, past, deleted, late>>

\* update_supplier writes every column the request names, is_active among them: a manager
\* can switch a supplier on again, or off without delete_supplier's check.
UpdateSupplier(c) ==
    /\ Asks(c, "edit", Supplier) /\ Done(c)
    /\ \/ UNCHANGED <<active, deleted>>
       \/ active' = active \cup {client[c].id} /\ deleted' = deleted \ {client[c].id}
       \/ active' = active \ {client[c].id} /\ UNCHANGED deleted
    /\ UNCHANGED <<created, sku, child, order, past, late>>

\* delete_product.
DeleteProduct(c) ==
    /\ Asks(c, "delete", Product) /\ Done(c)
    /\ active' = active \ {client[c].id}
    /\ deleted' = deleted \cup {client[c].id}
    /\ UNCHANGED <<created, sku, child, order, past, late>>

\* Faulty: the rows of the SKU stay behind.
DeleteSkuAlone(c) ==
    /\ Asks(c, "delete", Sku) /\ Done(c)
    /\ sku' = sku \ {client[c].id}
    /\ deleted' = deleted \cup {client[c].id}
    /\ UNCHANGED <<active, created, child, order, past, late>>

\* delete_sku: stock level, sales and orders in whatever status go with it.
DeleteSku(c) ==
    /\ Asks(c, "delete", Sku) /\ Done(c)
    /\ sku' = sku \ {client[c].id}
    /\ child' = {r \in child : r[2] # client[c].id}
    /\ order' = [o \in PO |-> IF o \in OrdersOf(client[c].id)
                              THEN [order[o] EXCEPT !.status = "absent"] ELSE order[o]]
    /\ deleted' = deleted \cup {client[c].id}
    /\ late' = late \ OrdersOf(client[c].id)
    /\ UNCHANGED <<active, created, past>>

\* Faulty: an approved order does not keep its supplier.
CheckUntilApproval(c) ==
    /\ Asks(c, "delete", Supplier)
    /\ client' = [client EXCEPT ![c] =
         IF \E o \in PO : order[o].supplier = client[c].id /\ order[o].status \in OpenStatus \ {"approved"}
         THEN NoWrite ELSE [@ EXCEPT !.kind = "checked"]]
    /\ UNCHANGED <<active, created, sku, child, order, past, deleted, late>>

\* delete_supplier: an order that nobody has answered refuses the deletion, unless it has
\* been mailed and not yet been marked as sent ...
CheckOpenOrders(c) ==
    /\ Asks(c, "delete", Supplier)
    /\ client' = [client EXCEPT ![c] =
         IF \E o \in PO : order[o].supplier = client[c].id /\ order[o].status \in OpenStatus
         THEN NoWrite ELSE [@ EXCEPT !.kind = "checked"]]
    /\ UNCHANGED <<active, created, sku, child, order, past, deleted, late>>

\* ... and in a second statement the supplier is switched off.
DeleteSupplier(c) ==
    /\ Asks(c, "checked", Supplier) /\ Done(c)
    /\ active' = active \ {client[c].id}
    /\ deleted' = IF client[c].id \in active THEN deleted \cup {client[c].id} ELSE deleted
    /\ UNCHANGED <<created, sku, child, order, past, late>>

\* A row of a child table is created while its SKU exists, once; edited, or deleted.
CreateChild(c, r) ==
    /\ r[2] \in sku /\ r \notin child /\ MayWrite(c, "create", r[2])
    /\ child' = child \cup {r}
    /\ UNCHANGED <<active, created, sku, order, past, client, deleted, late>>

DeleteChild(c, r) ==
    /\ r \in child /\ MayWrite(c, "edit", r[2])
    /\ child' = child \ {r}
    /\ UNCHANGED <<active, created, sku, order, past, client, deleted, late>>

\* An order is drafted for any supplier there is, switched off or not.
Draft(o, s, k) ==
    /\ o \notin created /\ s \in created /\ k \in sku
    /\ created' = created \cup {o}
    /\ order' = [order EXCEPT ![o] = [status |-> "undecided", supplier |-> s, sku |-> k]]
    /\ past' = [past EXCEPT ![o] = {"undecided"}]
    /\ late' = Noted(o, s)
    /\ UNCHANGED <<active, sku, child, client, deleted>>

\* LEGAL_TRANSITIONS and mark_email_sent; mark_failed and mark_timeout close any order.
LaterStatus(st) == {"closed"} \cup
    CASE st = "undecided" -> {"undecided", "approved"}
      [] st = "approved" -> {"sent", "mailed"}
      [] st \in {"sent", "mailed"} -> {"mailed"}
      [] OTHER -> {}

\* transition_po_status and mark_*: the status is read, and the next one written by primary key
\* some time later, whatever became of the order in between.
Move(o) ==
    /\ OrderExists(o)
    /\ \E read \in past[o] : \E st \in LaterStatus(read) :
        /\ order' = [order EXCEPT ![o].status = st]
        /\ past' = [past EXCEPT ![o] = @ \cup {st}]
        /\ late' = IF read # order[o].status /\ st \in OpenStatus
                   THEN Noted(o, order[o].supplier) ELSE late
    /\ UNCHANGED <<active, created, sku, child, client, deleted>>

\* PurchaseOrderSerializer saves the whole row, with the status of the fetch and maybe
\* another supplier; a row that was deleted meanwhile is inserted again, unless its SKU
\* went with it.
EditOrder(c) ==
    /\ Asks(c, "edit", PO) /\ Done(c)
    /\ LET o == client[c].id IN
        \/ /\ order[o].sku \in sku
           /\ \E s \in created \cap Supplier :
                /\ order' = [order EXCEPT ![o].status = client[c].seen, ![o].supplier = s]
                /\ late' = Noted(o, s)
        \/ order[o].sku \notin sku /\ UNCHANGED <<order, late>>
    /\ UNCHANGED <<active, created, sku, child, past, deleted>>

DeleteOrder(c) ==
    /\ Asks(c, "delete", PO) /\ Done(c)
    /\ order' = [order EXCEPT ![client[c].id].status = "absent"]
    /\ late' = late \ {client[c].id}
    /\ UNCHANGED <<active, created, sku, child, past, deleted>>

CatalogNext ==
    \/ \E c \in Client :
        \/ \E id \in Product \cup Supplier \cup Sku : CreateRow(c, id)
        \/ \E kind \in WriteKind, id \in Fetchable(c) : Fetch(c, kind, id)
        \/ UpdateRow(c) \/ UpdateSupplier(c) \/ DeleteProduct(c) \/ DeleteSku(c)
        \/ CheckOpenOrders(c) \/ DeleteSupplier(c)
        \/ \E r \in Child \X sku : CreateChild(c, r) \/ DeleteChild(c, r)
        \/ EditOrder(c) \/ DeleteOrder(c)
    \/ \E o \in PO : Move(o) \/ \E s \in Supplier, k \in Sku : Draft(o, s, k)

CatalogSpec == CatalogInit /\ [][CatalogNext]_catalogVars

-----------------------------------------------------------------------------
\* A deleted supplier has no open order of the kinds delete_supplier looks for, unless the
\* order came in the meantime or was written, by an edit or a transition, from what had been
\* read before; a deleted product is never on again,
\* whatever an update that was fetched before wrote since.
CatalogInv ==
    /\ \A o \in PO \ late : order[o].status \in OpenStatus => order[o].supplier \notin deleted
    /\ Product \cap deleted \cap active = {}
=============================================================================
