---------------------------- MODULE StockLevels -----------------------------
(***************************************************************************)
(* The stock_level table.  A transaction writes the quantities of some     *)
(* SKUs, holds their rows until it ends, and publishes them when it        *)
(* commits; readers see what is committed and never wait (READ COMMITTED). *)
(***************************************************************************)
EXTENDS Integers, FiniteSets

CONSTANTS
    Sku, NewSku,        \* SKU codes; those that have no row yet
    Request,            \* the requests that open a transaction
    OnHand0, Reserved0, \* what an existing row starts with
    MaxQuantity,        \* quantities are 0..MaxQuantity (bounds the model)
    Delta,              \* adjustments managers make
    NewOnHand,          \* counts they PUT/PATCH
    NewReserved

ASSUME StockAssumption ==
    /\ NewSku \subseteq Sku
    /\ MaxQuantity \in Nat /\ OnHand0 \in 0..MaxQuantity
    /\ Reserved0 \in 0..OnHand0
    /\ Delta \subseteq Int
    /\ NewOnHand \subseteq 0..MaxQuantity
    /\ NewReserved \subseteq 0..MaxQuantity

VARIABLES
    known,      \* SKUs that have a row
    stock,      \* [Sku -> committed row]
    written     \* [Request -> what its open transaction has written, by SKU]

stockVars == <<known, stock, written>>

Quantity == 0..MaxQuantity
Level == [onHand: Quantity, reserved: Quantity]

StockTypeOK ==
    /\ known \subseteq Sku
    /\ stock \in [Sku -> Level]
    /\ DOMAIN written = Request
    /\ \A r \in Request : written[r] \in [DOMAIN written[r] -> Quantity]
                           /\ DOMAIN written[r] \subseteq Sku

NoWrites == [c \in {} |-> 0]
Unlisted == [onHand |-> 0, reserved |-> 0]

StockInit ==
    /\ known = Sku \ NewSku
    /\ stock = [c \in Sku |-> IF c \in NewSku THEN Unlisted
                              ELSE [onHand |-> OnHand0, reserved |-> Reserved0]]
    /\ written = [r \in Request |-> NoWrites]

-----------------------------------------------------------------------------
\* Has request r written, or inserted, the row of c and not yet ended?
Holds(r, c) == c \in DOMAIN written[r]
Locked(c) == \E r \in Request : Holds(r, c)
LockedByOther(r, c) == \E q \in Request \ {r} : Holds(q, c)

\* What request r reads: its own writes, else what is committed.
HasLevel(r, c) == Holds(r, c) \/ c \in known

\* Faulty: the level is read outside the transaction.
OnHandCommitted(r, c) == stock[c].onHand

OnHand(r, c) == IF Holds(r, c) THEN written[r][c] ELSE stock[c].onHand

\* StockLevelRepository.update or create, inside r's transaction.
Write(r, c, n) ==
    written' = [written EXCEPT ![r] =
                    [d \in DOMAIN @ \cup {c} |-> IF d = c THEN n ELSE @[d]]]

Discard(r) == written' = [written EXCEPT ![r] = NoWrites]

Publish(r) ==
    /\ known' = known \cup DOMAIN written[r]
    /\ stock' = [c \in Sku |-> IF Holds(r, c)
                               THEN [stock[c] EXCEPT !.onHand = written[r][c]]
                               ELSE stock[c]]
    /\ Discard(r)

-----------------------------------------------------------------------------
\* Faulty: the stock may be taken down to nothing, or below.
CoversZero(n, c) == n >= 0
CoversAnything(n, c) == TRUE

\* InsufficientStockError otherwise.
Covers(n, c) == n >= stock[c].reserved

\* ProductRepository.adjust_stock: SELECT ... FOR UPDATE, check, save.
AdjustStock(c, delta) ==
    LET n == stock[c].onHand + delta
    IN  /\ c \in known
        /\ ~Locked(c)
        /\ Covers(n, c)
        /\ n <= MaxQuantity
        /\ stock' = [stock EXCEPT ![c].onHand = n]
        /\ UNCHANGED <<known, written>>

\* PUT/PATCH of a stock level: the columns given, by primary key, unchecked.
UpdateStockLevel(c, onHand, reserved) ==
    /\ c \in known
    /\ ~Locked(c)
    /\ stock' = [stock EXCEPT ![c] = [onHand |-> onHand, reserved |-> reserved]]
    /\ UNCHANGED <<known, written>>

\* The columns a request may give, the others being as they are.
Given(c) == (NewOnHand \cup {stock[c].onHand}) \X (NewReserved \cup {stock[c].reserved})
=============================================================================
