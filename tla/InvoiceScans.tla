---------------------------- MODULE InvoiceScans ----------------------------
(***************************************************************************)
(* Invoice scans: an upload is extracted by the vision model, a manager    *)
(* confirms it, which adds its lines to the stock, or rejects it.  The     *)
(* scan is checked, the lines are applied in a transaction of their own,   *)
(* and the scan is marked afterwards: nothing holds the scan's row.        *)
(***************************************************************************)
EXTENDS StockLevels, Sequences

CONSTANTS
    Scan,
    Invoices,       \* the sequences of lines managers confirm
    MayCrash        \* may a request be killed?

\* A line below quantity 1 stands for every line that fails its validation.
Line == [sku: Sku, quantity: Int]

ASSUME InvoiceAssumption ==
    /\ Scan # {} /\ Invoices # {}
    /\ Invoices \subseteq Seq(Line) \ {<<>>}
    /\ MayCrash \in BOOLEAN

VARIABLES
    scan,       \* [Scan -> status and is_confirmed]
    extracting, \* scans whose upload request waits for the vision model
    req,        \* [Request -> program counter, scan, invoice, next line, quantity read]
    applied,    \* [Scan -> times its stock was committed (history)]
    contended,  \* scans confirmed by overlapping or killed requests (history)
    balance,    \* [Sku -> the sum of the changes that were committed (history)]
    raced       \* SKUs changed between a request's read and its write (history)

scanVars == <<scan, extracting>>
history == <<applied, contended, balance, raced>>
vars == <<stockVars, scanVars, req, history>>

ScanStatus == {"absent", "pending", "extracted", "partial", "failed", "confirmed", "rejected"}
Applying == {"lines", "write", "insert", "mark"}

RequestState ==
    [pc: {"idle", "reject", "done", "error"} \cup Applying, scan: Scan,
     invoice: Invoices, next: Nat \ {0}, read: Quantity]

\* A request that has not begun, or has ended, keeps nothing.
NoData(pc) ==
    [pc |-> pc, scan |-> CHOOSE s \in Scan : TRUE,
     invoice |-> CHOOSE i \in Invoices : TRUE, next |-> 1, read |-> 0]
End(r, pc) == req' = [req EXCEPT ![r] = NoData(pc)]

TypeOK ==
    /\ StockTypeOK
    /\ scan \in [Scan -> [status: ScanStatus, isConfirmed: BOOLEAN]]
    /\ extracting \subseteq Scan
    /\ req \in [Request -> RequestState]
    /\ applied \in [Scan -> Nat]
    /\ contended \subseteq Scan
    /\ raced \subseteq Sku

Init ==
    /\ StockInit
    /\ scan = [s \in Scan |-> [status |-> "absent", isConfirmed |-> FALSE]]
    /\ extracting = {}
    /\ req = [r \in Request |-> NoData("idle")]
    /\ applied = [s \in Scan |-> 0]
    /\ contended = {}
    /\ balance = [c \in Sku |-> stock[c].onHand]
    /\ raced = {}

-----------------------------------------------------------------------------
\* scan_invoice: the row is inserted, then the vision model is called ...
Upload(s) ==
    /\ scan[s].status = "absent"
    /\ scan' = [scan EXCEPT ![s].status = "pending"]
    /\ extracting' = extracting \cup {s}
    /\ UNCHANGED <<stockVars, req, history>>

\* ... and its verdict is written over whatever the status is by now.  An error
\* that is not a timeout, bad JSON or a quota leaves the status alone.
Extracted(s) ==
    /\ s \in extracting
    /\ extracting' = extracting \ {s}
    /\ \/ \E o \in {"extracted", "partial", "failed"} : scan' = [scan EXCEPT ![s].status = o]
       \/ UNCHANGED scan
    /\ UNCHANGED <<stockVars, req, history>>

-----------------------------------------------------------------------------
\* Faulty: is_confirmed is not looked at.
ConfirmableByStatus(s) == scan[s].status \notin {"absent", "confirmed", "rejected"}

Confirmable(s) ==
    /\ scan[s].status \notin {"absent", "confirmed", "rejected"}
    /\ ~scan[s].isConfirmed

InProgress(s, r) == \E q \in Request \ {r} : req[q].pc \in Applying /\ req[q].scan = s

\* confirm_scan reads the scan and checks it.
ConfirmRead(r, s, invoice) ==
    /\ req[r].pc = "idle"
    /\ Confirmable(s)
    /\ req' = [req EXCEPT ![r] = [@ EXCEPT !.pc = "lines", !.scan = s, !.invoice = invoice]]
    /\ contended' = IF InProgress(s, r) THEN contended \cup {s} ELSE contended
    /\ UNCHANGED <<stockVars, scanVars, applied, balance, raced>>

LinesLeft(r) == req[r].next <= Len(req[r].invoice)
NextLine(r) == req[r].invoice[req[r].next]
NextSku(r) == NextLine(r).sku

\* apply_confirmed_invoice_lines: a line that fails validation is passed over.
SkipLine(r) ==
    /\ req[r].pc = "lines"
    /\ LinesLeft(r) /\ NextLine(r).quantity < 1
    /\ req' = [req EXCEPT ![r].next = @ + 1]
    /\ UNCHANGED <<stockVars, scanVars, history>>

\* apply_confirmed_invoice, the queries: a level to add to, or none.
ReadLine(r) ==
    /\ req[r].pc = "lines"
    /\ LinesLeft(r) /\ NextLine(r).quantity >= 1
    /\ req' = [req EXCEPT ![r] =
                  IF HasLevel(r, NextSku(r))
                  THEN [@ EXCEPT !.pc = "write", !.read = OnHand(r, NextSku(r))]
                  ELSE [@ EXCEPT !.pc = "insert"]]
    /\ UNCHANGED <<stockVars, scanVars, history>>

\* The UPDATE: the quantity that was read, plus the line's.
WriteLine(r) ==
    LET n == req[r].read + NextLine(r).quantity
    IN  /\ req[r].pc = "write"
        /\ ~LockedByOther(r, NextSku(r))
        /\ n <= MaxQuantity
        /\ Write(r, NextSku(r), n)
        /\ req' = [req EXCEPT ![r].pc = "lines", ![r].next = @ + 1, ![r].read = 0]
        /\ UNCHANGED <<known, stock, scanVars, history>>

\* Faulty: the transaction of a failed request is left open.
AbortLeavesOpen(r) == End(r, "error") /\ UNCHANGED written

\* An error rolls the transaction back and ends the request.
Abort(r) ==
    /\ Discard(r)
    /\ End(r, "error")

\* A SKU nobody knows is inserted with its product and level.  Its code is unique:
\* the INSERT waits for another's that is uncommitted and fails after it.
InsertLine(r) ==
    /\ req[r].pc = "insert"
    /\ ~LockedByOther(r, NextSku(r))
    /\ IF NextSku(r) \in known
       THEN Abort(r)
       ELSE /\ NextLine(r).quantity <= MaxQuantity
            /\ Write(r, NextSku(r), NextLine(r).quantity)
            /\ req' = [req EXCEPT ![r].pc = "lines", ![r].next = @ + 1, ![r].read = 0]
    /\ UNCHANGED <<known, stock, scanVars, history>>

\* The history of a commit that changes the SKUs in C and makes the balance b.  A
\* SKU that some request has read and not yet written is raced, and its balance
\* is not kept.
Book(C, b) ==
    /\ raced' = raced \cup
          {c \in C : \E q \in Request : req[q].pc = "write" /\ NextSku(q) = c}
    /\ balance' = [c \in Sku |-> IF c \in raced' THEN 0 ELSE b[c]]

\* What a line adds to SKU c if it passes validation.
LineAdds(line, c) == IF line.sku = c /\ line.quantity >= 1 THEN line.quantity ELSE 0

\* What the first n lines of an invoice add to SKU c, for every n.
LinesAdd(invoice, c) ==
    LET adds[n \in 0..Len(invoice)] ==
            IF n = 0 THEN 0 ELSE adds[n - 1] + LineAdds(invoice[n], c)
    IN  adds

Added(r, c) == LinesAdd(req[r].invoice, c)[Len(req[r].invoice)]

\* Faulty: an invoice none of whose lines could be applied counts as applied.
CommitLinesAnyway(r) ==
    /\ req[r].pc = "lines"
    /\ ~LinesLeft(r)
    /\ req' = [req EXCEPT ![r].pc = "mark"]
    /\ IF DOMAIN written[r] = {}
       THEN UNCHANGED <<stockVars, history>>
       ELSE /\ Publish(r)
            /\ applied' = [applied EXCEPT ![req[r].scan] = @ + 1]
            /\ Book(DOMAIN written[r], [c \in Sku |-> balance[c] + Added(r, c)])
            /\ UNCHANGED contended
    /\ UNCHANGED scanVars

\* After the last line: nothing applied is an error, anything else is committed.
CommitLines(r) ==
    /\ req[r].pc = "lines"
    /\ ~LinesLeft(r)
    /\ IF DOMAIN written[r] = {}
       THEN Abort(r) /\ UNCHANGED <<known, stock, history>>
       ELSE /\ Publish(r)
            /\ req' = [req EXCEPT ![r].pc = "mark"]
            /\ applied' = [applied EXCEPT ![req[r].scan] = @ + 1]
            /\ Book(DOMAIN written[r], [c \in Sku |-> balance[c] + Added(r, c)])
            /\ UNCHANGED contended
    /\ UNCHANGED scanVars

\* InvoiceScanRepository.mark_confirmed, whatever the scan's status is by now.
MarkConfirmed(r) ==
    /\ req[r].pc = "mark"
    /\ scan' = [scan EXCEPT ![req[r].scan] = [status |-> "confirmed", isConfirmed |-> TRUE]]
    /\ End(r, "done")
    /\ UNCHANGED <<stockVars, extracting, history>>

\* reject_scan: the check, and the write whatever the status is by now.
RejectRead(r, s) ==
    /\ req[r].pc = "idle"
    /\ scan[s].status \notin {"absent", "confirmed"}
    /\ ~scan[s].isConfirmed
    /\ req' = [req EXCEPT ![r].pc = "reject", ![r].scan = s]
    /\ UNCHANGED <<stockVars, scanVars, history>>

MarkRejected(r) ==
    /\ req[r].pc = "reject"
    /\ scan' = [scan EXCEPT ![req[r].scan].status = "rejected"]
    /\ End(r, "done")
    /\ UNCHANGED <<stockVars, extracting, history>>

-----------------------------------------------------------------------------
\* Requests that wait for one another's rows: PostgreSQL ends one of them.
WaitsFor(r, q) == q # r /\ req[r].pc \in {"write", "insert"} /\ Holds(q, NextSku(r))

DeadlockVictim(r) ==
    /\ \E S \in SUBSET Request :
        r \in S /\ \A q \in S : \E h \in S : WaitsFor(q, h)
    /\ Abort(r)
    /\ UNCHANGED <<known, stock, scanVars, history>>

\* The web worker is killed.  An open transaction is rolled back; stock that has
\* been committed stays, and its scan is left unmarked.
Crash(r) ==
    /\ MayCrash
    /\ req[r].pc \in Applying \cup {"reject"}
    /\ Abort(r)
    /\ contended' = IF req[r].pc = "mark" THEN contended \cup {req[r].scan} ELSE contended
    /\ UNCHANGED <<known, stock, scanVars, applied, balance, raced>>

Adjust(c, delta) ==
    /\ AdjustStock(c, delta)
    /\ Book({c}, [balance EXCEPT ![c] = @ + delta])
    /\ UNCHANGED <<scanVars, req, applied, contended>>

Count(c, onHand, reserved) ==
    /\ UpdateStockLevel(c, onHand, reserved)
    /\ Book({c}, [balance EXCEPT ![c] = onHand])
    /\ UNCHANGED <<scanVars, req, applied, contended>>

Advance(r) ==
    \/ SkipLine(r) \/ ReadLine(r) \/ WriteLine(r) \/ InsertLine(r)
    \/ CommitLines(r) \/ MarkConfirmed(r) \/ MarkRejected(r)
    \/ DeadlockVictim(r)

Next ==
    \/ \E s \in Scan : Upload(s) \/ Extracted(s)
    \/ \E r \in Request :
        \/ \E s \in Scan, invoice \in Invoices : ConfirmRead(r, s, invoice)
        \/ \E s \in Scan : RejectRead(r, s)
        \/ Advance(r)
        \/ Crash(r)
    \/ \E c \in Sku :
        \/ \E delta \in Delta : Adjust(c, delta)
        \/ \E given \in Given(c) : Count(c, given[1], given[2])

Spec == Init /\ [][Next]_vars

\* A request that has begun and is not killed executes its next statement.
FairSpec == Spec /\ \A r \in Request : WF_vars(Advance(r))

-----------------------------------------------------------------------------
(***************************************************************************)
(* Properties.                                                             *)
(***************************************************************************)

\* The stock never falls below what is reserved: adjust_stock checks it under the
\* row lock, and an invoice's stale write only adds to a quantity that covered it.
\* (For managers whose counts cover what is reserved.)
StockCoversReserved == \A c \in known : stock[c].onHand >= stock[c].reserved

\* A scan that is marked confirmed has had its lines committed to the stock.
ConfirmedWasApplied == \A s \in Scan : scan[s].isConfirmed => applied[s] > 0

\* The lines of a scan are committed a second time only by requests that overlap,
\* or after one that was killed between its commit and its mark: is_confirmed
\* stops every later request, even when a rejection or the verdict of the vision
\* model has overwritten the status since.
TwiceOnlyIfContended == \A s \in Scan : applied[s] > 1 => s \in contended

\* The stock is what the committed changes add up to, unless a change came between
\* an invoice's read of that SKU and its write: adjustments, repeated lines of one
\* invoice, failed lines and rolled-back requests lose and leave nothing.
StockIsConserved == \A c \in known \ raced : stock[c].onHand = balance[c]

\* A request that has begun ends, unless it is killed: of those that wait for one
\* another's rows, the database ends one.
RequestsEnd ==
    \A r \in Request : (req[r].pc # "idle") ~> (req[r].pc \in {"done", "error"})

\* "Invoice already confirmed": a scan's lines are added to the stock once.
AppliedOnce == \A s \in Scan : applied[s] <= 1
=============================================================================
