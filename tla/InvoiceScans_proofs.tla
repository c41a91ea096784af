------------------------ MODULE InvoiceScans_proofs -------------------------
(***************************************************************************)
(* Theorems about InvoiceScans for every value of its constants.           *)
(***************************************************************************)
EXTENDS InvoiceScans, FiniteSetTheorems, WellFoundedInduction, TLAPS

-----------------------------------------------------------------------------
(***************************************************************************)
(* Type correctness.  A request that is about to write or insert has a     *)
(* line at hand that passed its validation.                                *)
(***************************************************************************)

LineAtHand ==
    \A r \in Request : req[r].pc \in {"write", "insert"}
                         => LinesLeft(r) /\ NextLine(r).quantity >= 1

TypeInv == TypeOK /\ LineAtHand

LEMMA NoDataType ==
    ASSUME NEW pc \in {"idle", "done", "error"} PROVE NoData(pc) \in RequestState
<1>1. 0 \in Quantity  BY StockAssumption DEF Quantity
<1>2. \E s \in Scan : TRUE  BY InvoiceAssumption
<1>3. \E i \in Invoices : TRUE  BY InvoiceAssumption
<1> QED  BY <1>1, <1>2, <1>3 DEF NoData, RequestState

\* The line at hand is a line.
LEMMA NextLineType ==
    ASSUME TypeOK, NEW r \in Request, LinesLeft(r) PROVE NextLine(r) \in Line
<1>1. req[r] \in RequestState  BY DEF TypeOK
<1>2. req[r].invoice \in Seq(Line)  BY <1>1, InvoiceAssumption DEF RequestState
<1>3. req[r].next \in 1..Len(req[r].invoice)  BY <1>1, <1>2 DEF RequestState, LinesLeft
<1> QED  BY <1>2, <1>3 DEF NextLine

LEMMA OnHandType ==
    ASSUME TypeOK, NEW r \in Request, NEW c \in Sku PROVE OnHand(r, c) \in Quantity
BY DEF TypeOK, StockTypeOK, OnHand, Holds, Level

\* What one more write makes of a transaction.
LEMMA WriteType ==
    ASSUME StockTypeOK, NEW r \in Request, NEW c \in Sku, NEW n \in Quantity, Write(r, c, n),
           UNCHANGED <<known, stock>>
    PROVE  StockTypeOK'
BY DEF StockTypeOK, Write

LEMMA DiscardType ==
    ASSUME StockTypeOK, NEW r \in Request, Discard(r)
    PROVE  /\ DOMAIN written' = Request
           /\ \A q \in Request : written'[q] \in [DOMAIN written'[q] -> Quantity]
                                    /\ DOMAIN written'[q] \subseteq Sku
BY DEF StockTypeOK, Discard, NoWrites

LEMMA PublishType ==
    ASSUME StockTypeOK, NEW r \in Request, Publish(r) PROVE StockTypeOK'
<1>1. known' \subseteq Sku  BY DEF StockTypeOK, Publish
<1>2. stock' \in [Sku -> Level]
  <2> SUFFICES ASSUME NEW c \in Sku
               PROVE  (IF Holds(r, c) THEN [stock[c] EXCEPT !.onHand = written[r][c]]
                                      ELSE stock[c]) \in Level
    BY DEF Publish
  <2>1. stock[c] \in Level  BY DEF StockTypeOK
  <2>2. Holds(r, c) => written[r][c] \in Quantity  BY DEF StockTypeOK, Holds
  <2> QED  BY <2>1, <2>2 DEF Level
<1> QED  BY <1>1, <1>2, DiscardType DEF StockTypeOK, Publish

LEMMA InitType == Init => TypeInv
<1> SUFFICES ASSUME Init PROVE TypeInv  OBVIOUS
<1>1. StockTypeOK
  <2>1. [onHand |-> OnHand0, reserved |-> Reserved0] \in Level
    BY StockAssumption DEF Level, Quantity
  <2>2. Unlisted \in Level  BY StockAssumption DEF Unlisted, Level, Quantity
  <2> QED  BY <2>1, <2>2 DEF Init, StockInit, StockTypeOK, NoWrites
<1>2. req \in [Request -> RequestState]  BY NoDataType DEF Init
<1>3. TypeOK  BY <1>1, <1>2 DEF Init, TypeOK, ScanStatus
<1>4. LineAtHand  BY DEF Init, LineAtHand, NoData
<1> QED  BY <1>3, <1>4 DEF TypeInv

\* One request changes, to a state that has a line at hand if it needs one.
LEMMA RequestStep ==
    ASSUME TypeInv, NEW r \in Request, NEW n \in RequestState,
           req' = [req EXCEPT ![r] = n],
           n.pc \in {"write", "insert"}
             => n.next <= Len(n.invoice) /\ n.invoice[n.next].quantity >= 1
    PROVE  req' \in [Request -> RequestState] /\ LineAtHand'
<1>1. req' \in [Request -> RequestState]  BY DEF TypeInv, TypeOK
<1>2. \A q \in Request : req'[q] = IF q = r THEN n ELSE req[q]  BY DEF TypeInv, TypeOK
<1> QED  BY <1>1, <1>2 DEF TypeInv, LineAtHand, LinesLeft, NextLine

LEMMA EndStep ==
    ASSUME TypeInv, NEW r \in Request, NEW pc \in {"idle", "done", "error"}, End(r, pc)
    PROVE  req' \in [Request -> RequestState] /\ LineAtHand'
<1>1. NoData(pc) \in RequestState  BY NoDataType
<1>2. NoData(pc).pc \notin {"write", "insert"}  BY DEF NoData
<1> QED  BY <1>1, <1>2, RequestStep DEF End

LEMMA AbortStep ==
    ASSUME TypeInv, NEW r \in Request, Abort(r), UNCHANGED <<known, stock>>
    PROVE  StockTypeOK' /\ req' \in [Request -> RequestState] /\ LineAtHand'
<1>1. StockTypeOK /\ Discard(r) /\ End(r, "error")  BY DEF Abort, TypeInv, TypeOK
<1>2. StockTypeOK'  BY <1>1, DiscardType DEF StockTypeOK
<1> QED  BY <1>1, <1>2, EndStep

LEMMA BookStep ==
    ASSUME TypeInv, NEW C \in SUBSET Sku, NEW b, Book(C, b) PROVE raced' \subseteq Sku
BY DEF Book, TypeInv, TypeOK

LEMMA StepType == TypeInv /\ [Next]_vars => TypeInv'
<1> SUFFICES ASSUME TypeInv, [Next]_vars PROVE TypeInv'  OBVIOUS
<1> USE DEF TypeInv
<1>t. TypeOK /\ StockTypeOK  BY DEF TypeOK
<1>1. ASSUME NEW s \in Scan, Upload(s) PROVE TypeInv'
  <2>1. StockTypeOK' /\ LineAtHand'
    BY <1>1, <1>t DEF Upload, stockVars, StockTypeOK, LineAtHand, LinesLeft, NextLine
  <2> QED  BY <1>1, <2>1 DEF Upload, TypeOK, stockVars, history, ScanStatus
<1>2. ASSUME NEW s \in Scan, Extracted(s) PROVE TypeInv'
  <2>1. StockTypeOK' /\ LineAtHand'
    BY <1>2, <1>t DEF Extracted, stockVars, StockTypeOK, LineAtHand, LinesLeft, NextLine
  <2>2. scan' \in [Scan -> [status: ScanStatus, isConfirmed: BOOLEAN]]
    <3>1. CASE UNCHANGED scan  BY <3>1 DEF TypeOK
    <3>2. ASSUME NEW o \in {"extracted", "partial", "failed"},
                 scan' = [scan EXCEPT ![s].status = o]
          PROVE  scan' \in [Scan -> [status: ScanStatus, isConfirmed: BOOLEAN]]
      BY <3>2 DEF TypeOK, ScanStatus
    <3> QED  BY <3>1, <3>2, <1>2 DEF Extracted
  <2> QED  BY <1>2, <2>1, <2>2 DEF Extracted, TypeOK, stockVars, history
<1>3. ASSUME NEW r \in Request, NEW s \in Scan, NEW i \in Invoices, ConfirmRead(r, s, i)
      PROVE  TypeInv'
  <2> DEFINE n == [req[r] EXCEPT !.pc = "lines", !.scan = s, !.invoice = i]
  <2>1. n \in RequestState /\ n.pc = "lines"  BY DEF TypeOK, RequestState, Applying
  <2>2. req' = [req EXCEPT ![r] = n]  BY <1>3 DEF ConfirmRead
  <2>3. req' \in [Request -> RequestState] /\ LineAtHand'
    <3> HIDE DEF n
    <3> QED  BY <2>1, <2>2, RequestStep
  <2>4. StockTypeOK'  BY <1>3, <1>t DEF ConfirmRead, stockVars, StockTypeOK
  <2> QED  BY <1>3, <2>3, <2>4 DEF ConfirmRead, TypeOK, scanVars
<1>4. ASSUME NEW r \in Request, NEW s \in Scan, RejectRead(r, s) PROVE TypeInv'
  <2> DEFINE n == [req[r] EXCEPT !.pc = "reject", !.scan = s]
  <2>1. n \in RequestState /\ n.pc = "reject"  BY DEF TypeOK, RequestState
  <2>2. req' = [req EXCEPT ![r] = n]  BY <1>4 DEF RejectRead, TypeOK
  <2>3. req' \in [Request -> RequestState] /\ LineAtHand'
    <3> HIDE DEF n
    <3> QED  BY <2>1, <2>2, RequestStep
  <2>4. StockTypeOK'  BY <1>4, <1>t DEF RejectRead, stockVars, StockTypeOK
  <2> QED  BY <1>4, <2>3, <2>4 DEF RejectRead, TypeOK, scanVars, history
<1>5. ASSUME NEW r \in Request, SkipLine(r) PROVE TypeInv'
  <2> DEFINE n == [req[r] EXCEPT !.next = @ + 1]
  <2>1. n \in RequestState /\ n.pc = "lines"  BY <1>5 DEF SkipLine, TypeOK, RequestState
  <2>2. req' = [req EXCEPT ![r] = n]  BY <1>5 DEF SkipLine
  <2>3. req' \in [Request -> RequestState] /\ LineAtHand'
    <3> HIDE DEF n
    <3> QED  BY <2>1, <2>2, RequestStep
  <2>4. StockTypeOK'  BY <1>5, <1>t DEF SkipLine, stockVars, StockTypeOK
  <2> QED  BY <1>5, <2>3, <2>4 DEF SkipLine, TypeOK, scanVars, history
<1>6. ASSUME NEW r \in Request, ReadLine(r) PROVE TypeInv'
  <2>1. LinesLeft(r) /\ NextLine(r).quantity >= 1  BY <1>6 DEF ReadLine
  <2>2. NextSku(r) \in Sku  BY <2>1, <1>t, NextLineType DEF NextSku, Line
  <2>3. OnHand(r, NextSku(r)) \in Quantity  BY <2>2, <1>t, OnHandType
  <2> DEFINE w == [req[r] EXCEPT !.pc = "write", !.read = OnHand(r, NextSku(r))]
             j == [req[r] EXCEPT !.pc = "insert"]
  <2>4. PICK n \in {w, j} : req' = [req EXCEPT ![r] = n]  BY <1>6 DEF ReadLine
  <2>5. n \in RequestState  BY <2>3, <2>4 DEF TypeOK, RequestState, Applying
  <2>6. n.next <= Len(n.invoice) /\ n.invoice[n.next].quantity >= 1
    <3>1. n.next = req[r].next /\ n.invoice = req[r].invoice  BY <2>4 DEF TypeOK, RequestState
    <3> QED  BY <3>1, <2>1 DEF LinesLeft, NextLine
  <2>7. req' \in [Request -> RequestState] /\ LineAtHand'
    <3> HIDE DEF w, j
    <3> QED  BY <2>4, <2>5, <2>6, RequestStep
  <2>8. StockTypeOK'  BY <1>6, <1>t DEF ReadLine, stockVars, StockTypeOK
  <2> QED  BY <1>6, <2>7, <2>8 DEF ReadLine, TypeOK, scanVars, history
<1>7. ASSUME NEW r \in Request, NEW q \in Quantity, req[r].pc \in {"write", "insert"},
             Write(r, NextSku(r), q),
             req' = [req EXCEPT ![r].pc = "lines", ![r].next = @ + 1, ![r].read = 0],
             UNCHANGED <<known, stock, scanVars, history>>
      PROVE  TypeInv'
  <2> DEFINE n == [req[r] EXCEPT !.pc = "lines", !.next = @ + 1, !.read = 0]
  <2>1. 0 \in Quantity  BY StockAssumption DEF Quantity
  <2>2. n \in RequestState /\ n.pc = "lines"
    <3>1. req[r] \in RequestState  BY DEF TypeOK
    <3>2. req[r].next + 1 \in Nat \ {0}  BY <3>1 DEF RequestState
    <3> QED  BY <2>1, <3>1, <3>2 DEF RequestState, Applying
  <2>3. req' = [req EXCEPT ![r] = n]  BY <1>7 DEF TypeOK
  <2>4. req' \in [Request -> RequestState] /\ LineAtHand'
    <3> HIDE DEF n
    <3> QED  BY <2>2, <2>3, RequestStep
  <2>5. LinesLeft(r)  BY <1>7 DEF LineAtHand
  <2>6. NextSku(r) \in Sku  BY <2>5, <1>t, NextLineType DEF NextSku, Line
  <2>7. StockTypeOK'  BY <1>7, <2>6, <1>t, WriteType
  <2> QED  BY <1>7, <2>4, <2>7 DEF TypeOK, scanVars, history
<1>8. ASSUME NEW r \in Request, WriteLine(r) PROVE TypeInv'
  <2>1. req[r].pc = "write"  BY <1>8 DEF WriteLine
  <2>2. LinesLeft(r) /\ NextLine(r).quantity >= 1  BY <2>1 DEF LineAtHand
  <2>3. NextLine(r).quantity \in Int  BY <2>2, <1>t, NextLineType DEF Line
  <2>4. req[r].read \in Quantity  BY DEF TypeOK, RequestState
  <2>5. req[r].read + NextLine(r).quantity \in Quantity
    BY <1>8, <2>2, <2>3, <2>4, StockAssumption DEF WriteLine, Quantity
  <2> QED  BY <1>7, <1>8, <2>1, <2>5 DEF WriteLine
<1>9. ASSUME NEW r \in Request, InsertLine(r) PROVE TypeInv'
  <2>1. req[r].pc = "insert"  BY <1>9 DEF InsertLine
  <2>2. LinesLeft(r) /\ NextLine(r).quantity >= 1  BY <2>1 DEF LineAtHand
  <2>3. NextLine(r).quantity \in Int  BY <2>2, <1>t, NextLineType DEF Line
  <2>4. CASE NextSku(r) \in known
    <3>1. Abort(r) /\ UNCHANGED <<known, stock, scanVars, history>>
      BY <1>9, <2>4 DEF InsertLine
    <3> QED  BY <3>1, AbortStep DEF TypeOK, scanVars, history
  <2>5. CASE NextSku(r) \notin known
    <3>1. NextLine(r).quantity \in Quantity
      BY <1>9, <2>5, <2>2, <2>3, StockAssumption DEF InsertLine, Quantity
    <3> QED  BY <1>7, <1>9, <2>1, <2>5, <3>1 DEF InsertLine
  <2> QED  BY <2>4, <2>5
<1>10. ASSUME NEW r \in Request, CommitLines(r) PROVE TypeInv'
  <2>1. CASE DOMAIN written[r] = {}
    <3>1. Abort(r) /\ UNCHANGED <<known, stock, scanVars, history>>
      BY <1>10, <2>1 DEF CommitLines
    <3> QED  BY <3>1, AbortStep DEF TypeOK, scanVars, history
  <2>2. CASE DOMAIN written[r] # {}
    <3> DEFINE n == [req[r] EXCEPT !.pc = "mark"]
    <3>1. n \in RequestState /\ n.pc = "mark"  BY DEF TypeOK, RequestState, Applying
    <3>2. req' = [req EXCEPT ![r] = n]
      <4>1. req' = [req EXCEPT ![r].pc = "mark"]  BY <1>10, <2>2 DEF CommitLines
      <4> QED  BY <4>1
    <3>3. req' \in [Request -> RequestState] /\ LineAtHand'
      <4> HIDE DEF n
      <4> QED  BY <3>1, <3>2, RequestStep
    <3>4. StockTypeOK'  BY <1>10, <2>2, <1>t, PublishType DEF CommitLines
    <3>5. raced' \subseteq Sku
      <4>1. DOMAIN written[r] \in SUBSET Sku  BY <1>t DEF StockTypeOK
      <4> QED  BY <1>10, <2>2, <4>1, BookStep DEF CommitLines
    <3>6. applied' \in [Scan -> Nat]
      <4>1. applied' = [applied EXCEPT ![req[r].scan] = @ + 1]  BY <1>10, <2>2 DEF CommitLines
      <4>2. applied \in [Scan -> Nat] /\ req[r].scan \in Scan  BY DEF TypeOK, RequestState
      <4>3. applied[req[r].scan] + 1 \in Nat  BY <4>2
      <4> QED  BY <4>1, <4>2, <4>3
    <3> QED  BY <1>10, <2>2, <3>3, <3>4, <3>5, <3>6 DEF CommitLines, TypeOK, scanVars
  <2> QED  BY <2>1, <2>2
<1>11. ASSUME NEW r \in Request, MarkConfirmed(r) PROVE TypeInv'
  <2>1. req' \in [Request -> RequestState] /\ LineAtHand'  BY <1>11, EndStep DEF MarkConfirmed
  <2>2. StockTypeOK'  BY <1>11, <1>t DEF MarkConfirmed, stockVars, StockTypeOK
  <2>3. scan' \in [Scan -> [status: ScanStatus, isConfirmed: BOOLEAN]]
    BY <1>11 DEF MarkConfirmed, TypeOK, ScanStatus
  <2> QED  BY <1>11, <2>1, <2>2, <2>3 DEF MarkConfirmed, TypeOK, history
<1>12. ASSUME NEW r \in Request, MarkRejected(r) PROVE TypeInv'
  <2>1. req' \in [Request -> RequestState] /\ LineAtHand'  BY <1>12, EndStep DEF MarkRejected
  <2>2. StockTypeOK'  BY <1>12, <1>t DEF MarkRejected, stockVars, StockTypeOK
  <2>3. scan' \in [Scan -> [status: ScanStatus, isConfirmed: BOOLEAN]]
    BY <1>12 DEF MarkRejected, TypeOK, ScanStatus
  <2> QED  BY <1>12, <2>1, <2>2, <2>3 DEF MarkRejected, TypeOK, history
<1>13. ASSUME NEW r \in Request, DeadlockVictim(r) PROVE TypeInv'
  BY <1>13, AbortStep DEF DeadlockVictim, TypeOK, scanVars, history
<1>14. ASSUME NEW r \in Request, Crash(r) PROVE TypeInv'
  <2>1. contended' \subseteq Scan  BY <1>14 DEF Crash, TypeOK, RequestState
  <2> QED  BY <1>14, <2>1, AbortStep DEF Crash, TypeOK, scanVars
<1>15. ASSUME NEW c \in Sku, NEW d \in Delta, Adjust(c, d) PROVE TypeInv'
  <2>1. StockTypeOK'
    <3>1. stock[c] \in Level /\ d \in Int  BY <1>t, StockAssumption DEF StockTypeOK
    <3>2. stock[c].onHand + d \in Quantity
      BY <1>15, <3>1, StockAssumption DEF Adjust, AdjustStock, Covers, Level, Quantity
    <3> QED  BY <1>15, <1>t, <3>1, <3>2 DEF Adjust, AdjustStock, StockTypeOK, Level
  <2>2. raced' \subseteq Sku  BY <1>15, BookStep DEF Adjust
  <2>3. LineAtHand'  BY <1>15 DEF Adjust, LineAtHand, LinesLeft, NextLine
  <2> QED  BY <1>15, <2>1, <2>2, <2>3 DEF Adjust, TypeOK, scanVars
<1>16. ASSUME NEW c \in Sku, NEW g \in Given(c), Count(c, g[1], g[2]) PROVE TypeInv'
  <2>1. StockTypeOK'
    <3>1. stock[c] \in Level  BY <1>t DEF StockTypeOK
    <3>2. g[1] \in Quantity /\ g[2] \in Quantity
      BY <3>1, StockAssumption DEF Given, Level, Quantity
    <3> QED  BY <1>16, <1>t, <3>2 DEF Count, UpdateStockLevel, StockTypeOK, Level
  <2>2. raced' \subseteq Sku  BY <1>16, BookStep DEF Count
  <2>3. LineAtHand'  BY <1>16 DEF Count, LineAtHand, LinesLeft, NextLine
  <2> QED  BY <1>16, <2>1, <2>2, <2>3 DEF Count, TypeOK, scanVars
<1>17. ASSUME UNCHANGED vars PROVE TypeInv'
  BY <1>17, <1>t DEF vars, stockVars, scanVars, history, TypeOK, StockTypeOK, LineAtHand,
     LinesLeft, NextLine
<1> QED
  BY <1>1, <1>2, <1>3, <1>4, <1>5, <1>6, <1>8, <1>9, <1>10, <1>11, <1>12, <1>13, <1>14,
     <1>15, <1>16, <1>17 DEF Next, Advance

\* TypeInv is invariant.
LEMMA TypeInvHolds == Spec => []TypeInv
BY InitType, StepType, PTL DEF Spec

\* The variables keep their types, whatever requests, adjustments and counts
\* interleave and whoever is killed (InvoiceScanService, StockLevelRepository).
THEOREM InvoiceTypeCorrect == Spec => []TypeOK
<1>1. TypeInv => TypeOK  BY DEF TypeInv
<1> QED  BY <1>1, TypeInvHolds, PTL

-----------------------------------------------------------------------------
(***************************************************************************)
(* How often a scan is applied.  A request about to mark a scan has        *)
(* committed its lines; of a scan that is not contended one request at a   *)
(* time is at work, it has committed at most once, and once it has it is   *)
(* at its mark or the scan is confirmed.                                   *)
(***************************************************************************)

At(r, s) == req[r].pc \in Applying /\ req[r].scan = s

Serial(s) ==
    /\ \A q, r \in Request : At(q, s) /\ At(r, s) => q = r
    /\ \A r \in Request : At(r, s) /\ req[r].pc # "mark" => applied[s] = 0
    /\ applied[s] <= 1
    /\ applied[s] = 1 => scan[s].isConfirmed \/ \E r \in Request : At(r, s)
    /\ scan[s].isConfirmed => \A r \in Request : ~At(r, s)

MarkedWasApplied ==
    \A r \in Request : req[r].pc = "mark" => applied[req[r].scan] > 0

ScanInv ==
    /\ ConfirmedWasApplied
    /\ MarkedWasApplied
    /\ \A s \in Scan \ contended : Serial(s)

\* What the step of a request does to a scan unless it begins, commits or marks:
\* it stays at work on it, or leaves before it has committed, or was killed.
Quiet(q) ==
    \/ /\ req'[q].pc \in Applying /\ req[q].pc \in Applying
       /\ req'[q].scan = req[q].scan
       /\ req'[q].pc = "mark" <=> req[q].pc = "mark"
    \/ /\ req'[q].pc \notin Applying
       /\ req[q].pc = "mark" => req[q].scan \in contended'

LEMMA QuietStep ==
    ASSUME TypeOK, ScanInv, UNCHANGED applied, contended \subseteq contended',
           \A s \in Scan : scan'[s].isConfirmed = scan[s].isConfirmed,
           \A q \in Request : Quiet(q)
    PROVE  ScanInv'
<1>1. ConfirmedWasApplied'  BY DEF ScanInv, ConfirmedWasApplied
<1>2. MarkedWasApplied'  BY DEF ScanInv, MarkedWasApplied, Quiet, Applying
<1>3. ASSUME NEW s \in Scan \ contended' PROVE Serial(s)'
  <2>1. Serial(s) /\ applied'[s] = applied[s] /\ applied[s] \in Nat
        /\ scan'[s].isConfirmed = scan[s].isConfirmed
    BY DEF ScanInv, TypeOK
  <2>2. \A q \in Request : At(q, s)' => At(q, s) /\ (req'[q].pc = "mark" <=> req[q].pc = "mark")
    BY DEF At, Quiet
  <2>3. \A q \in Request : At(q, s) => At(q, s)' \/ req[q].pc # "mark"
    BY DEF At, Quiet
  <2>4. \A q, r \in Request : At(q, s)' /\ At(r, s)' => q = r  BY <2>1, <2>2 DEF Serial
  <2>5. \A r \in Request : At(r, s)' /\ req'[r].pc # "mark" => applied'[s] = 0
    BY <2>1, <2>2 DEF Serial
  <2>6. applied'[s] <= 1  BY <2>1 DEF Serial
  <2>7. applied'[s] = 1 => scan'[s].isConfirmed \/ \E r \in Request : At(r, s)'
    BY <2>1, <2>3 DEF Serial
  <2>8. scan'[s].isConfirmed => \A r \in Request : ~At(r, s)'  BY <2>1, <2>2 DEF Serial
  <2> QED  BY <2>4, <2>5, <2>6, <2>7, <2>8 DEF Serial
<1> QED  BY <1>1, <1>2, <1>3 DEF ScanInv

LEMMA InitScan == Init => ScanInv
<1> SUFFICES ASSUME Init PROVE ScanInv  OBVIOUS
<1>1. \A r \in Request : req[r].pc = "idle"  BY DEF Init, NoData
<1>2. \A s \in Scan : applied[s] = 0 /\ ~scan[s].isConfirmed  BY DEF Init
<1> QED
  BY <1>1, <1>2 DEF ScanInv, ConfirmedWasApplied, MarkedWasApplied, Serial, At, Applying

\* A confirmation begins.
LEMMA ScanConfirmRead ==
    ASSUME TypeInv, ScanInv, NEW r \in Request, NEW s \in Scan, NEW i \in Invoices,
           ConfirmRead(r, s, i)
    PROVE  ScanInv'
<1>t. TypeOK  BY DEF TypeInv
<1>1. req' = [req EXCEPT ![r] = [@ EXCEPT !.pc = "lines", !.scan = s, !.invoice = i]]
      /\ req[r].pc = "idle" /\ ~scan[s].isConfirmed /\ UNCHANGED <<scan, applied>>
  BY DEF ConfirmRead, Confirmable, scanVars
<1>2. req'[r].pc = "lines" /\ req'[r].scan = s  BY <1>1, <1>t DEF TypeOK, RequestState
<1>3. \A q \in Request \ {r} : req'[q] = req[q]  BY <1>1, <1>t DEF TypeOK
<1>4. contended \subseteq contended'  BY DEF ConfirmRead
<1>5. ConfirmedWasApplied'  BY <1>1 DEF ScanInv, ConfirmedWasApplied
<1>6. MarkedWasApplied'  BY <1>1, <1>2, <1>3 DEF ScanInv, MarkedWasApplied
<1>7. ASSUME NEW d \in Scan \ contended' PROVE Serial(d)'
  <2>1. Serial(d)  BY <1>4 DEF ScanInv
  <2>2. CASE d # s
    <3>1. \A q \in Request : (At(q, d)' <=> At(q, d)) /\ (At(q, d) => req'[q] = req[q])
      BY <1>1, <1>2, <1>3, <2>2 DEF At, Applying
    <3> QED  BY <1>1, <2>1, <3>1 DEF Serial
  <2>3. CASE d = s
    <3>1. ~InProgress(s, r)  BY <2>3 DEF ConfirmRead
    <3>2. \A q \in Request : ~At(q, s)  BY <3>1, <1>1 DEF InProgress, At, Applying
    <3>3. \A q \in Request : At(q, s)' => q = r  BY <3>2, <1>3 DEF At
    <3>4. applied[s] \in Nat  BY <1>t DEF TypeOK
    <3>5. applied[s] = 0  BY <3>2, <3>4, <2>1, <2>3, <1>1 DEF Serial
    <3> QED  BY <3>3, <3>5, <1>1, <2>3 DEF Serial
  <2> QED  BY <2>2, <2>3
<1> QED  BY <1>5, <1>6, <1>7 DEF ScanInv

\* The lines of a scan are committed.
LEMMA ScanCommit ==
    ASSUME TypeInv, ScanInv, NEW r \in Request, req[r].pc = "lines",
           req' = [req EXCEPT ![r].pc = "mark"],
           applied' = [applied EXCEPT ![req[r].scan] = @ + 1],
           UNCHANGED <<scan, contended>>
    PROVE  ScanInv'
<1> DEFINE s == req[r].scan
<1>t. TypeOK  BY DEF TypeInv
<1>1. s \in Scan /\ applied \in [Scan -> Nat]  BY <1>t DEF TypeOK, RequestState
<1>2. req'[r].pc = "mark" /\ req'[r].scan = s  BY <1>t DEF TypeOK, RequestState
<1>3. \A q \in Request \ {r} : req'[q] = req[q]  BY <1>t DEF TypeOK
<1>4. applied'[s] = applied[s] + 1  BY <1>1
<1>5. \A d \in Scan \ {s} : applied'[d] = applied[d]  BY <1>1
<1>6. At(r, s)  BY DEF At, Applying
<1>7. \A q \in Request, d \in Scan : At(q, d)' <=> At(q, d)
  BY <1>2, <1>3, <1>6 DEF At, Applying
<1> HIDE DEF s
<1>8. ConfirmedWasApplied'
  BY <1>1, <1>4, <1>5 DEF ScanInv, ConfirmedWasApplied
<1>9. MarkedWasApplied'
  <2> SUFFICES ASSUME NEW q \in Request, req'[q].pc = "mark" PROVE applied'[req'[q].scan] > 0
    BY DEF MarkedWasApplied
  <2>1. CASE q = r  BY <2>1, <1>1, <1>2, <1>4
  <2>2. CASE q # r
    <3>1. req[q].scan \in Scan  BY <1>t DEF TypeOK, RequestState
    <3>2. applied[req[q].scan] > 0  BY <2>2, <1>3 DEF ScanInv, MarkedWasApplied
    <3> QED  BY <2>2, <3>1, <3>2, <1>1, <1>3, <1>4, <1>5
  <2> QED  BY <2>1, <2>2
<1>10. ASSUME NEW d \in Scan \ contended' PROVE Serial(d)'
  <2>1. Serial(d)  BY DEF ScanInv
  <2>2. CASE d # s
    <3>1. \A q \in Request : At(q, d) => q # r  BY <2>2 DEF At, s
    <3> QED  BY <1>3, <1>5, <1>7, <2>1, <2>2, <3>1 DEF Serial
  <2>3. CASE d = s
    <3>1. \A q \in Request : At(q, s) => q = r  BY <1>6, <2>1, <2>3 DEF Serial
    <3>2. applied[s] = 0  BY <1>6, <2>1, <2>3 DEF Serial
    <3>3. applied'[s] = 1  BY <3>2, <1>4
    <3>4. ~scan[s].isConfirmed  BY <1>6, <2>1, <2>3 DEF Serial
    <3> QED  BY <1>2, <1>6, <1>7, <2>3, <3>1, <3>3, <3>4 DEF Serial
  <2> QED  BY <2>2, <2>3
<1> QED  BY <1>8, <1>9, <1>10 DEF ScanInv

\* The scan is marked.
LEMMA ScanMark ==
    ASSUME TypeInv, ScanInv, NEW r \in Request, MarkConfirmed(r)
    PROVE  ScanInv'
<1> DEFINE s == req[r].scan
<1>t. TypeOK  BY DEF TypeInv
<1>1. s \in Scan /\ applied[s] > 0  BY <1>t DEF TypeOK, RequestState, MarkConfirmed, ScanInv, MarkedWasApplied
<1>2. At(r, s)  BY DEF At, Applying, MarkConfirmed
<1>3. req'[r].pc = "done"  BY <1>t DEF TypeOK, MarkConfirmed, End, NoData
<1>4. \A q \in Request \ {r} : req'[q] = req[q]  BY <1>t DEF TypeOK, MarkConfirmed, End
<1>5. scan'[s].isConfirmed /\ \A d \in Scan \ {s} : scan'[d] = scan[d]
  BY <1>1, <1>t DEF TypeOK, MarkConfirmed
<1>6. UNCHANGED <<applied, contended>>  BY DEF MarkConfirmed, history
<1> HIDE DEF s
<1>7. \A q \in Request, d \in Scan : At(q, d)' <=> At(q, d) /\ q # r
  BY <1>3, <1>4 DEF At, Applying
<1>8. ConfirmedWasApplied'  BY <1>1, <1>5, <1>6 DEF ScanInv, ConfirmedWasApplied
<1>9. MarkedWasApplied'  BY <1>3, <1>4, <1>6 DEF ScanInv, MarkedWasApplied
<1>10. ASSUME NEW d \in Scan \ contended' PROVE Serial(d)'
  <2>1. Serial(d)  BY <1>6 DEF ScanInv
  <2>2. CASE d # s
    <3>1. \A q \in Request : At(q, d) => q # r  BY <2>2 DEF At, s
    <3> QED  BY <1>4, <1>5, <1>6, <1>7, <2>1, <2>2, <3>1 DEF Serial
  <2>3. CASE d = s
    <3>1. \A q \in Request : At(q, d) => q = r  BY <1>2, <2>1, <2>3 DEF Serial
    <3>2. \A q \in Request : ~At(q, d)'  BY <1>7, <3>1
    <3>3. applied'[d] <= 1  BY <1>6, <2>1 DEF Serial
    <3>4. scan'[d].isConfirmed  BY <1>5, <2>3
    <3> QED  BY <3>2, <3>3, <3>4 DEF Serial
  <2> QED  BY <2>2, <2>3
<1> QED  BY <1>8, <1>9, <1>10 DEF ScanInv

\* A request that ends, having committed nothing or counting as contended.
LEMMA QuietEnd ==
    ASSUME TypeOK, NEW r \in Request, NEW pc \in {"done", "error"}, End(r, pc),
           req[r].pc = "mark" => req[r].scan \in contended'
    PROVE  \A q \in Request : Quiet(q)
<1>1. req'[r].pc = pc  BY DEF End, NoData, TypeOK
<1>2. \A q \in Request \ {r} : req'[q] = req[q]  BY DEF End, TypeOK
<1>3. \A q \in Request : req[q].pc \notin Applying => req[q].pc # "mark"  BY DEF Applying
<1> QED  BY <1>1, <1>2, <1>3 DEF Quiet, Applying

\* A request that goes on with its lines.
LEMMA QuietAdvance ==
    ASSUME TypeOK, NEW r \in Request, req[r].pc \in {"lines", "write", "insert"},
           NEW n \in RequestState, req' = [req EXCEPT ![r] = n],
           n.pc \in {"lines", "write", "insert"}, n.scan = req[r].scan
    PROVE  \A q \in Request : Quiet(q)
<1>1. req'[r] = n  BY DEF TypeOK
<1>2. \A q \in Request \ {r} : req'[q] = req[q]  BY DEF TypeOK
<1>3. \A q \in Request : req[q].pc \notin Applying => req[q].pc # "mark"  BY DEF Applying
<1> QED  BY <1>1, <1>2, <1>3 DEF Quiet, Applying

LEMMA StepScan == TypeInv /\ ScanInv /\ [Next]_vars => ScanInv'
<1> SUFFICES ASSUME TypeInv, ScanInv, [Next]_vars PROVE ScanInv'  OBVIOUS
<1>t. TypeOK  BY DEF TypeInv
<1>m. \A q \in Request : req[q].pc \notin Applying => req[q].pc # "mark"  BY DEF Applying
<1>q. ASSUME UNCHANGED <<req, applied, contended>>,
             \A s \in Scan : scan'[s].isConfirmed = scan[s].isConfirmed
      PROVE  ScanInv'
  <2>1. \A q \in Request : Quiet(q)  BY <1>q, <1>m DEF Quiet
  <2> QED  BY <1>q, <1>t, <2>1, QuietStep
<1>e. ASSUME NEW r \in Request, NEW pc \in {"done", "error"}, End(r, pc),
             req[r].pc = "mark" => req[r].scan \in contended',
             UNCHANGED applied, contended \subseteq contended',
             \A s \in Scan : scan'[s].isConfirmed = scan[s].isConfirmed
      PROVE  ScanInv'
  BY <1>e, <1>t, QuietEnd, QuietStep
<1>1. ASSUME NEW s \in Scan, Upload(s) PROVE ScanInv'
  <2>1. \A d \in Scan : scan'[d].isConfirmed = scan[d].isConfirmed
    BY <1>1, <1>t DEF Upload, TypeOK
  <2> QED  BY <1>1, <2>1, <1>q DEF Upload, history
<1>2. ASSUME NEW s \in Scan, Extracted(s) PROVE ScanInv'
  <2>1. \A d \in Scan : scan'[d].isConfirmed = scan[d].isConfirmed
    BY <1>2, <1>t DEF Extracted, TypeOK
  <2> QED  BY <1>2, <2>1, <1>q DEF Extracted, history
<1>3. ASSUME NEW r \in Request, NEW s \in Scan, NEW i \in Invoices, ConfirmRead(r, s, i)
      PROVE  ScanInv'
  BY <1>3, ScanConfirmRead
<1>4. ASSUME NEW r \in Request, NEW s \in Scan, RejectRead(r, s) PROVE ScanInv'
  <2>1. req[r].pc = "idle" /\ UNCHANGED <<scan, applied, contended>>
        /\ req' = [req EXCEPT ![r].pc = "reject", ![r].scan = s]
    BY <1>4 DEF RejectRead, scanVars, history
  <2>2. req'[r].pc = "reject" /\ \A q \in Request \ {r} : req'[q] = req[q]
    BY <2>1, <1>t DEF TypeOK, RequestState
  <2>3. \A q \in Request : Quiet(q)  BY <2>1, <2>2, <1>m DEF Quiet, Applying
  <2> QED  BY <2>1, <2>3, <1>t, QuietStep
<1>5. ASSUME NEW r \in Request, SkipLine(r) PROVE ScanInv'
  <2> DEFINE n == [req[r] EXCEPT !.next = @ + 1]
  <2>1. req[r].pc = "lines" /\ req' = [req EXCEPT ![r] = n]  BY <1>5 DEF SkipLine
  <2>2. n \in RequestState /\ n.pc = "lines" /\ n.scan = req[r].scan
    BY <2>1, <1>t DEF TypeOK, RequestState
  <2>3. \A q \in Request : Quiet(q)
    <3> HIDE DEF n
    <3> QED  BY <2>1, <2>2, <1>t, QuietAdvance
  <2> QED  BY <1>5, <2>3, <1>t, QuietStep DEF SkipLine, scanVars, history
<1>6. ASSUME NEW r \in Request, ReadLine(r) PROVE ScanInv'
  <2> DEFINE w == [req[r] EXCEPT !.pc = "write", !.read = OnHand(r, NextSku(r))]
             j == [req[r] EXCEPT !.pc = "insert"]
  <2>1. PICK n \in {w, j} : req' = [req EXCEPT ![r] = n]  BY <1>6 DEF ReadLine
  <2>2. req[r].pc = "lines" /\ UNCHANGED <<scan, applied, contended>>
    BY <1>6 DEF ReadLine, scanVars, history
  <2>3. n.pc \in {"write", "insert"} /\ n.scan = req[r].scan
    BY <2>1, <1>t DEF TypeOK, RequestState
  <2>4. req'[r] = n /\ \A q \in Request \ {r} : req'[q] = req[q]  BY <2>1, <1>t DEF TypeOK
  <2>5. \A q \in Request : Quiet(q)
    <3> HIDE DEF w, j
    <3> QED  BY <2>2, <2>3, <2>4, <1>m DEF Quiet, Applying
  <2> QED  BY <2>2, <2>5, <1>t, QuietStep
<1>7. ASSUME NEW r \in Request, req[r].pc \in {"write", "insert"},
             req' = [req EXCEPT ![r].pc = "lines", ![r].next = @ + 1, ![r].read = 0],
             UNCHANGED <<scanVars, history>>
      PROVE  ScanInv'
  <2>1. req'[r].pc = "lines" /\ req'[r].scan = req[r].scan
        /\ \A q \in Request \ {r} : req'[q] = req[q]
    BY <1>7, <1>t DEF TypeOK, RequestState
  <2>2. \A q \in Request : Quiet(q)  BY <1>7, <2>1, <1>m DEF Quiet, Applying
  <2> QED  BY <1>7, <2>2, <1>t, QuietStep DEF scanVars, history
<1>8. ASSUME NEW r \in Request, WriteLine(r) PROVE ScanInv'
  BY <1>7, <1>8 DEF WriteLine
<1>9. ASSUME NEW r \in Request, InsertLine(r) PROVE ScanInv'
  <2>1. CASE NextSku(r) \in known
    BY <1>9, <2>1, <1>e DEF InsertLine, Abort, scanVars, history
  <2>2. CASE NextSku(r) \notin known
    BY <1>7, <1>9, <2>2 DEF InsertLine
  <2> QED  BY <2>1, <2>2
<1>10. ASSUME NEW r \in Request, CommitLines(r) PROVE ScanInv'
  <2>1. CASE DOMAIN written[r] = {}
    <3>1. Abort(r) /\ req[r].pc = "lines" /\ UNCHANGED <<scanVars, history>>
      BY <1>10, <2>1 DEF CommitLines
    <3> QED  BY <3>1, <1>e DEF Abort, scanVars, history
  <2>2. CASE DOMAIN written[r] # {}
    <3>1. /\ req[r].pc = "lines" /\ req' = [req EXCEPT ![r].pc = "mark"]
          /\ applied' = [applied EXCEPT ![req[r].scan] = @ + 1]
          /\ UNCHANGED <<scan, contended>>
      BY <1>10, <2>2 DEF CommitLines, scanVars
    <3> QED  BY <3>1, ScanCommit
  <2> QED  BY <2>1, <2>2
<1>11. ASSUME NEW r \in Request, MarkConfirmed(r) PROVE ScanInv'
  BY <1>11, ScanMark
<1>12. ASSUME NEW r \in Request, MarkRejected(r) PROVE ScanInv'
  <2>1. \A d \in Scan : scan'[d].isConfirmed = scan[d].isConfirmed
    BY <1>12, <1>t DEF MarkRejected, TypeOK
  <2> QED  BY <1>12, <2>1, <1>e DEF MarkRejected, history
<1>13. ASSUME NEW r \in Request, DeadlockVictim(r) PROVE ScanInv'
  <2>1. req[r].pc # "mark"  BY <1>13 DEF DeadlockVictim, WaitsFor
  <2> QED  BY <1>13, <2>1, <1>e DEF DeadlockVictim, Abort, scanVars, history
<1>14. ASSUME NEW r \in Request, Crash(r) PROVE ScanInv'
  BY <1>14, <1>e DEF Crash, Abort, scanVars
<1>15. ASSUME NEW c \in Sku, NEW d \in Delta, Adjust(c, d) PROVE ScanInv'
  BY <1>15, <1>q DEF Adjust, scanVars
<1>16. ASSUME NEW c \in Sku, NEW g \in Given(c), Count(c, g[1], g[2]) PROVE ScanInv'
  BY <1>16, <1>q DEF Count, scanVars
<1>17. ASSUME UNCHANGED vars PROVE ScanInv'
  BY <1>17, <1>q DEF vars, scanVars, history
<1> QED
  BY <1>1, <1>2, <1>3, <1>4, <1>5, <1>6, <1>8, <1>9, <1>10, <1>11, <1>12, <1>13, <1>14,
     <1>15, <1>16, <1>17 DEF Next, Advance

\* ScanInv is invariant.
LEMMA ScanInvHolds == Spec => []ScanInv
BY InitScan, StepScan, TypeInvHolds, PTL DEF Spec

\* A scan that mark_confirmed has marked has had its lines committed, whatever
\* rejections, verdicts of the vision model and killed requests come in between.
THEOREM ConfirmedScansWereApplied == Spec => []ConfirmedWasApplied
<1>1. ScanInv => ConfirmedWasApplied  BY DEF ScanInv
<1> QED  BY <1>1, ScanInvHolds, PTL

\* Only confirmations of a scan that overlap, or one that was killed between its
\* commit and its mark, let confirm_scan add a scan's lines to the stock again.
THEOREM OnlyContendedScansRepeat == Spec => []TwiceOnlyIfContended
<1>1. TypeOK /\ ScanInv => TwiceOnlyIfContended
  BY DEF TypeOK, ScanInv, Serial, TwiceOnlyIfContended
<1> QED  BY <1>1, ScanInvHolds, InvoiceTypeCorrect, PTL

-----------------------------------------------------------------------------
(***************************************************************************)
(* The stock covers what is reserved.  A stale write can undo a withdrawal *)
(* but cannot take the stock too low: what a request has read or written   *)
(* covered the reservation, which no operation but a count changes.        *)
(***************************************************************************)

CountsCover == NewReserved = {} /\ \A n \in NewOnHand : n >= Reserved0

CoverInv ==
    /\ Sku \ NewSku \subseteq known
    /\ \A c \in Sku : stock[c].reserved = IF c \in NewSku THEN 0 ELSE Reserved0
    /\ \A c \in Sku : stock[c].onHand >= stock[c].reserved
    /\ \A r \in Request, c \in Sku : Holds(r, c) => written[r][c] >= stock[c].reserved
    /\ \A r \in Request : req[r].pc = "write" => req[r].read >= stock[NextSku(r)].reserved

LEMMA InitCover == Init => CoverInv
BY StockAssumption DEF Init, StockInit, CoverInv, Holds, NoWrites, NoData, Unlisted

LEMMA NextSkuType ==
    ASSUME TypeInv, NEW r \in Request, req[r].pc \in {"write", "insert"} \/ LinesLeft(r)
    PROVE  NextSku(r) \in Sku
<1>1. TypeOK /\ LinesLeft(r)  BY DEF TypeInv, LineAtHand
<1> QED  BY <1>1, NextLineType DEF NextSku, Line

\* A step that leaves the stock and what requests have written alone.
LEMMA CoverSame ==
    ASSUME TypeInv, CoverInv, UNCHANGED stockVars,
           \A q \in Request : req'[q].pc = "write" => req'[q] = req[q]
    PROVE  CoverInv'
<1>1. \A q \in Request : req'[q].pc = "write" => NextSku(q)' = NextSku(q)
  BY DEF NextSku, NextLine
<1> QED  BY <1>1 DEF CoverInv, stockVars, Holds

\* A step of one request that keeps its writes, drops them or adds one that covers.
LEMMA CoverRequest ==
    ASSUME TypeInv, CoverInv, NEW r \in Request, UNCHANGED <<known, stock>>,
           \A q \in Request \ {r} : req'[q] = req[q] /\ written'[q] = written[q],
           req'[r].pc # "write",
           \A c \in Sku : Holds(r, c)' => written'[r][c] >= stock[c].reserved
    PROVE  CoverInv'
<1>1. \A q \in Request : req'[q].pc = "write" => q # r /\ NextSku(q)' = NextSku(q)
  BY DEF NextSku, NextLine
<1> QED  BY <1>1 DEF CoverInv, Holds

LEMMA CoverAbort ==
    ASSUME TypeInv, CoverInv, NEW r \in Request, Abort(r), UNCHANGED <<known, stock>>
    PROVE  CoverInv'
<1>t. TypeOK /\ StockTypeOK  BY DEF TypeInv, TypeOK
<1>1. req'[r].pc = "error" /\ \A q \in Request \ {r} : req'[q] = req[q]
  BY <1>t DEF Abort, End, NoData, TypeOK
<1>2. written'[r] = NoWrites /\ \A q \in Request \ {r} : written'[q] = written[q]
  BY <1>t DEF Abort, Discard, StockTypeOK
<1>3. \A c \in Sku : ~Holds(r, c)'  BY <1>2 DEF Holds, NoWrites
<1> QED  BY <1>1, <1>2, <1>3, CoverRequest

\* A write that covers.
LEMMA CoverWrite ==
    ASSUME TypeInv, CoverInv, NEW r \in Request, NEW c \in Sku, NEW n \in Quantity,
           n >= stock[c].reserved, Write(r, c, n), UNCHANGED <<known, stock>>,
           req' = [req EXCEPT ![r].pc = "lines", ![r].next = @ + 1, ![r].read = 0]
    PROVE  CoverInv'
<1>t. TypeOK /\ StockTypeOK  BY DEF TypeInv, TypeOK
<1>1. req'[r].pc = "lines" /\ \A q \in Request \ {r} : req'[q] = req[q]
  BY <1>t DEF TypeOK, RequestState
<1>2. \A q \in Request \ {r} : written'[q] = written[q]  BY <1>t DEF Write, StockTypeOK
<1>3. written'[r] = [d \in DOMAIN written[r] \cup {c} |-> IF d = c THEN n ELSE written[r][d]]
  BY <1>t DEF Write, StockTypeOK
<1>4. \A d \in Sku : Holds(r, d)' => written'[r][d] >= stock[d].reserved
  BY <1>3 DEF CoverInv, Holds
<1> QED  BY <1>1, <1>2, <1>4, CoverRequest

\* A step that sets the quantities of committed rows, and no reservation.
LEMMA CoverStock ==
    ASSUME TypeInv, CoverInv, known \subseteq known',
           \A c \in Sku : stock'[c].reserved = stock[c].reserved
                            /\ stock'[c].onHand >= stock[c].reserved,
           \A q \in Request : written'[q] = written[q] \/ written'[q] = NoWrites,
           \A q \in Request : req'[q].pc = "write" => req'[q] = req[q]
    PROVE  CoverInv'
<1>1. \A q \in Request : req'[q].pc = "write"
        => NextSku(q)' = NextSku(q) /\ NextSku(q) \in Sku /\ req[q].pc = "write"
  BY NextSkuType DEF NextSku, NextLine
<1>2. \A q \in Request, c \in Sku : Holds(q, c)' => Holds(q, c) /\ written'[q][c] = written[q][c]
  BY DEF Holds, NoWrites
<1> QED  BY <1>1, <1>2 DEF CoverInv

LEMMA StepCover ==
    ASSUME CountsCover PROVE TypeInv /\ CoverInv /\ [Next]_vars => CoverInv'
<1> SUFFICES ASSUME TypeInv, CoverInv, [Next]_vars PROVE CoverInv'  OBVIOUS
<1>t. TypeOK /\ StockTypeOK  BY DEF TypeInv, TypeOK
<1>1. ASSUME NEW s \in Scan, Upload(s) \/ Extracted(s) PROVE CoverInv'
  BY <1>1, CoverSame DEF Upload, Extracted
<1>2. ASSUME NEW r \in Request, UNCHANGED stockVars, req'[r].pc # "write",
             \A q \in Request \ {r} : req'[q] = req[q]
      PROVE  CoverInv'
  BY <1>2, CoverSame
<1>3. ASSUME NEW r \in Request, NEW s \in Scan, NEW i \in Invoices, ConfirmRead(r, s, i)
      PROVE  CoverInv'
  <2>1. req' = [req EXCEPT ![r] = [@ EXCEPT !.pc = "lines", !.scan = s, !.invoice = i]]
    BY <1>3 DEF ConfirmRead
  <2>2. req'[r].pc = "lines" /\ \A q \in Request \ {r} : req'[q] = req[q]
    BY <2>1, <1>t DEF TypeOK, RequestState
  <2> QED  BY <1>2, <1>3, <2>2 DEF ConfirmRead
<1>4. ASSUME NEW r \in Request, NEW s \in Scan, RejectRead(r, s) PROVE CoverInv'
  <2>1. req' = [req EXCEPT ![r].pc = "reject", ![r].scan = s]  BY <1>4 DEF RejectRead
  <2>2. req'[r].pc = "reject" /\ \A q \in Request \ {r} : req'[q] = req[q]
    BY <2>1, <1>t DEF TypeOK, RequestState
  <2> QED  BY <1>2, <1>4, <2>2 DEF RejectRead
<1>5. ASSUME NEW r \in Request, SkipLine(r) PROVE CoverInv'
  <2>1. req' = [req EXCEPT ![r].next = @ + 1] /\ req[r].pc = "lines"  BY <1>5 DEF SkipLine
  <2>2. req'[r].pc = "lines" /\ \A q \in Request \ {r} : req'[q] = req[q]
    BY <2>1, <1>t DEF TypeOK, RequestState
  <2> QED  BY <1>2, <1>5, <2>2 DEF SkipLine
<1>6. ASSUME NEW r \in Request, ReadLine(r) PROVE CoverInv'
  <2> DEFINE c == NextSku(r)
             w == [req[r] EXCEPT !.pc = "write", !.read = OnHand(r, c)]
             j == [req[r] EXCEPT !.pc = "insert"]
  <2>1. PICK n \in {w, j} : req' = [req EXCEPT ![r] = n]  BY <1>6 DEF ReadLine
  <2>2. UNCHANGED stockVars  BY <1>6 DEF ReadLine
  <2>3. req'[r] = n /\ \A q \in Request \ {r} : req'[q] = req[q]  BY <2>1, <1>t DEF TypeOK
  <2>4. CASE n = j
    <3>1. req'[r].pc = "insert"  BY <2>3, <2>4, <1>t DEF TypeOK, RequestState
    <3> QED  BY <1>2, <2>2, <2>3, <3>1
  <2>5. CASE n = w
    <3>1. req'[r].read = OnHand(r, c) /\ req'[r].invoice = req[r].invoice
          /\ req'[r].next = req[r].next
      BY <2>3, <2>5, <1>t DEF TypeOK, RequestState
    <3>2. c \in Sku  BY <1>6, NextSkuType DEF ReadLine
    <3>3. OnHand(r, c) >= stock[c].reserved  BY <3>2 DEF CoverInv, OnHand
    <3>4. NextSku(r)' = c  BY <3>1 DEF NextSku, NextLine
    <3>5. \A q \in Request \ {r} : NextSku(q)' = NextSku(q)  BY <2>3 DEF NextSku, NextLine
    <3>6. \A q \in Request : req'[q].pc = "write" => req'[q].read >= stock[NextSku(q)'].reserved
      BY <2>3, <3>1, <3>3, <3>4, <3>5 DEF CoverInv
    <3> QED  BY <2>2, <3>6 DEF CoverInv, stockVars, Holds
  <2> QED  BY <2>1, <2>4, <2>5
<1>7. ASSUME NEW r \in Request, WriteLine(r) PROVE CoverInv'
  <2> DEFINE c == NextSku(r)
             n == req[r].read + NextLine(r).quantity
  <2>1. req[r].pc = "write"  BY <1>7 DEF WriteLine
  <2>2. LinesLeft(r) /\ NextLine(r).quantity >= 1  BY <2>1 DEF TypeInv, LineAtHand
  <2>3. NextLine(r).quantity \in Int  BY <2>2, <1>t, NextLineType DEF Line
  <2>4. c \in Sku  BY <2>1, NextSkuType
  <2>5. req[r].read \in Quantity /\ stock[c].reserved \in Quantity
    BY <2>4, <1>t DEF TypeOK, StockTypeOK, RequestState, Level
  <2>6. req[r].read >= stock[c].reserved  BY <2>1 DEF CoverInv
  <2>7. n \in Quantity /\ n >= stock[c].reserved
    BY <1>7, <2>2, <2>3, <2>5, <2>6, StockAssumption DEF WriteLine, Quantity
  <2>8. /\ Write(r, c, n) /\ UNCHANGED <<known, stock>>
        /\ req' = [req EXCEPT ![r].pc = "lines", ![r].next = @ + 1, ![r].read = 0]
    BY <1>7 DEF WriteLine
  <2> HIDE DEF c, n
  <2> QED  BY <2>4, <2>7, <2>8, CoverWrite
<1>8. ASSUME NEW r \in Request, InsertLine(r) PROVE CoverInv'
  <2> DEFINE c == NextSku(r)
             n == NextLine(r).quantity
  <2>1. CASE c \in known
    BY <1>8, <2>1, CoverAbort DEF InsertLine
  <2>2. CASE c \notin known
    <3>1. req[r].pc = "insert"  BY <1>8 DEF InsertLine
    <3>2. LinesLeft(r) /\ n >= 1  BY <3>1 DEF TypeInv, LineAtHand
    <3>3. n \in Int  BY <3>2, <1>t, NextLineType DEF Line
    <3>4. c \in Sku  BY <3>1, NextSkuType
    <3>5. stock[c].reserved = 0  BY <2>2, <3>4 DEF CoverInv
    <3>6. n \in Quantity /\ n >= stock[c].reserved
      BY <1>8, <2>2, <3>2, <3>3, <3>5, StockAssumption DEF InsertLine, Quantity
    <3>7. /\ Write(r, c, n) /\ UNCHANGED <<known, stock>>
          /\ req' = [req EXCEPT ![r].pc = "lines", ![r].next = @ + 1, ![r].read = 0]
      BY <1>8, <2>2 DEF InsertLine
    <3> HIDE DEF c, n
    <3> QED  BY <3>4, <3>6, <3>7, CoverWrite
  <2> QED  BY <2>1, <2>2
<1>9. ASSUME NEW r \in Request, CommitLines(r) PROVE CoverInv'
  <2>1. CASE DOMAIN written[r] = {}
    BY <1>9, <2>1, CoverAbort DEF CommitLines
  <2>2. CASE DOMAIN written[r] # {}
    <3>1. Publish(r) /\ req' = [req EXCEPT ![r].pc = "mark"]  BY <1>9, <2>2 DEF CommitLines
    <3>2. \A q \in Request : req'[q].pc = "write" => req'[q] = req[q]
      BY <3>1, <1>t DEF TypeOK, RequestState
    <3>3. \A q \in Request : written'[q] = written[q] \/ written'[q] = NoWrites
      BY <3>1, <1>t DEF Publish, Discard, StockTypeOK
    <3>4. ASSUME NEW d \in Sku
          PROVE  stock'[d].reserved = stock[d].reserved /\ stock'[d].onHand >= stock[d].reserved
      <4>1. stock'[d] = IF Holds(r, d) THEN [stock[d] EXCEPT !.onHand = written[r][d]]
                        ELSE stock[d]
        BY <3>1 DEF Publish
      <4>2. stock[d] \in Level  BY <1>t DEF StockTypeOK
      <4> QED  BY <4>1, <4>2 DEF CoverInv, Level
    <3>5. known \subseteq known'  BY <3>1 DEF Publish
    <3> QED  BY <3>2, <3>3, <3>4, <3>5, CoverStock
  <2> QED  BY <2>1, <2>2
<1>10. ASSUME NEW r \in Request, MarkConfirmed(r) \/ MarkRejected(r) PROVE CoverInv'
  <2>1. req'[r].pc = "done" /\ \A q \in Request \ {r} : req'[q] = req[q]
    BY <1>10, <1>t DEF MarkConfirmed, MarkRejected, End, NoData, TypeOK
  <2> QED  BY <1>2, <1>10, <2>1 DEF MarkConfirmed, MarkRejected
<1>11. ASSUME NEW r \in Request, DeadlockVictim(r) \/ Crash(r) PROVE CoverInv'
  BY <1>11, CoverAbort DEF DeadlockVictim, Crash
<1>12. ASSUME NEW c \in Sku, NEW d \in Delta, Adjust(c, d) PROVE CoverInv'
  <2>1. stock' = [stock EXCEPT ![c].onHand = stock[c].onHand + d]
        /\ stock[c].onHand + d >= stock[c].reserved /\ UNCHANGED <<known, written, req>>
    BY <1>12 DEF Adjust, AdjustStock, Covers
  <2>2. \A e \in Sku : stock[e] \in Level  BY <1>t DEF StockTypeOK
  <2>3. \A e \in Sku : stock'[e].reserved = stock[e].reserved /\ stock'[e].onHand >= stock[e].reserved
    BY <2>1, <2>2, <1>t DEF CoverInv, StockTypeOK, Level
  <2> QED  BY <2>1, <2>3, CoverStock
<1>13. ASSUME NEW c \in Sku, NEW g \in Given(c), Count(c, g[1], g[2]) PROVE CoverInv'
  <2>1. stock' = [stock EXCEPT ![c] = [onHand |-> g[1], reserved |-> g[2]]]
        /\ UNCHANGED <<known, written, req>>
    BY <1>13 DEF Count, UpdateStockLevel
  <2>2. g[1] \in NewOnHand \cup {stock[c].onHand} /\ g[2] = stock[c].reserved
    BY DEF Given, CountsCover
  <2>3. g[1] >= stock[c].reserved
    <3>1. \A n \in NewOnHand : n >= Reserved0 /\ n >= 0  BY StockAssumption DEF CountsCover
    <3> QED  BY <2>2, <3>1 DEF CoverInv
  <2>4. \A e \in Sku : stock'[e].reserved = stock[e].reserved /\ stock'[e].onHand >= stock[e].reserved
    BY <2>1, <2>2, <2>3, <1>t DEF CoverInv, StockTypeOK
  <2> QED  BY <2>1, <2>4, CoverStock
<1>14. ASSUME UNCHANGED vars PROVE CoverInv'
  BY <1>14, CoverSame DEF vars
<1> QED
  BY <1>1, <1>3, <1>4, <1>5, <1>6, <1>7, <1>8, <1>9, <1>10, <1>11, <1>12, <1>13, <1>14
     DEF Next, Advance

\* When managers' counts cover what is reserved, so does the stock at all times:
\* adjust_stock checks it under the row lock, and apply_confirmed_invoice, which
\* writes without one, only adds to quantities that covered it.
THEOREM StockCovers ==
    ASSUME CountsCover PROVE Spec => []StockCoversReserved
<1>1. TypeInv /\ CoverInv => StockCoversReserved
  BY DEF TypeInv, TypeOK, StockTypeOK, CoverInv, StockCoversReserved
<1>2. TypeInv /\ CoverInv /\ [Next]_vars => CoverInv'  BY StepCover
<1> QED  BY <1>1, <1>2, InitCover, TypeInvHolds, PTL DEF Spec

-----------------------------------------------------------------------------
(***************************************************************************)
(* The stock is conserved.  What a request has written of a SKU is the     *)
(* SKU's balance and what the lines it has passed add, unless the SKU was  *)
(* raced: so its commit moves the stock and the balance alike.             *)
(***************************************************************************)

\* A set of naturals that is not empty has a least member.
LEMMA LeastExists ==
    ASSUME NEW S \in SUBSET Nat, S # {}
    PROVE  \E m \in S : \A x \in S : m <= x
<1> DEFINE Below(n) == {x \in S : x < n}
           T == {Below(n) : n \in S}
<1>1. T \subseteq FiniteSubsetsOf(S) /\ T # {}
  <2>1. ASSUME NEW n \in S PROVE Below(n) \subseteq S /\ IsFiniteSet(Below(n))
    <3>1. \A x \in Below(n) : x <= n  OBVIOUS
    <3>2. Below(n) \in SUBSET Nat /\ n \in Nat  OBVIOUS
    <3> QED  BY <3>1, <3>2, FS_BoundedSetOfNaturals
  <2> QED  BY <2>1 DEF FiniteSubsetsOf
<1>2. PICK t \in T : \A u \in T : ~(<<u, t>> \in StrictSubsetOrdering(S))
  BY <1>1, FS_StrictSubsetOrderingWellFounded, WFMin
<1>3. PICK m \in S : t = Below(m)  OBVIOUS
<1>4. ASSUME NEW x \in S, x < m PROVE FALSE
  <2> x \in Nat /\ m \in Nat  OBVIOUS
  <2>a. \A y \in S : y < x => y < m  BY <1>4
  <2>b. x \notin Below(x) /\ x \in Below(m)  BY <1>4
  <2>1. Below(x) \in T /\ Below(x) \subseteq t /\ x \in t /\ x \notin Below(x)
    BY <1>3, <2>a, <2>b
  <2>2. <<Below(x), t>> \in StrictSubsetOrdering(S)
    BY <2>1 DEF StrictSubsetOrdering
  <2> QED  BY <1>2, <2>1, <2>2
<1> QED  BY <1>4

\* LinesAdd counts up from 0, a line at a time: such a function exists for every
\* length, and there is one only.
LEMMA LinesAddDef ==
    ASSUME NEW invoice \in Seq(Line), NEW c
    PROVE  /\ LinesAdd(invoice, c) \in [0..Len(invoice) -> Int]
           /\ LinesAdd(invoice, c)[0] = 0
           /\ \A n \in 1..Len(invoice) :
                 LinesAdd(invoice, c)[n] = LinesAdd(invoice, c)[n - 1] + LineAdds(invoice[n], c)
<1> DEFINE L == Len(invoice)
           g(n) == LineAdds(invoice[n], c)
           Counts(f, n) == f \in [0..n -> Int] /\ f[0] = 0 /\ \A k \in 1..n : f[k] = f[k - 1] + g(k)
           Body(f) == [n \in 0..L |-> IF n = 0 THEN 0 ELSE f[n - 1] + g(n)]
<1>1. L \in Nat  OBVIOUS
<1>2. \A n \in 1..L : g(n) \in Int
  <2> SUFFICES ASSUME NEW n \in 1..L PROVE g(n) \in Int  OBVIOUS
  <2>1. invoice[n] \in Line  OBVIOUS
  <2> QED  BY <2>1 DEF LineAdds, Line
<1>3. LinesAdd(invoice, c) = CHOOSE f : f = Body(f)
  BY DEF LinesAdd
<1> HIDE DEF L, g
<1>4. \E f : Counts(f, L)
  <2> DEFINE Bad == {n \in 0..L : ~\E f : Counts(f, n)}
  <2> SUFFICES ASSUME Bad # {} PROVE FALSE  BY <1>1
  <2>1. PICK m \in Bad : \A x \in Bad : m <= x
    <3>1. Bad \in SUBSET Nat  BY <1>1
    <3> HIDE DEF Bad
    <3> QED  BY <3>1, LeastExists
  <2>2. CASE m = 0
    <3>1. Counts([n \in 0..0 |-> 0], 0)  OBVIOUS
    <3> QED  BY <2>2, <3>1
  <2>3. CASE m # 0
    <3>1. m \in 1..L /\ m - 1 \in 0..L /\ m - 1 \notin Bad
      <4>1. m \in 0..L  BY <2>1
      <4>2. m \in 1..L /\ m - 1 \in 0..L /\ ~(m <= m - 1)  BY <1>1, <2>3, <4>1
      <4> HIDE DEF Bad
      <4> QED  BY <2>1, <4>2
    <3>2. PICK f : Counts(f, m - 1)  BY <3>1
    <3> DEFINE e == [n \in 0..m |-> IF n = m THEN f[m - 1] + g(m) ELSE f[n]]
    <3>3. f[m - 1] \in Int /\ g(m) \in Int  BY <3>1, <3>2, <1>2
    <3>4. e \in [0..m -> Int]  BY <3>1, <3>2, <3>3
    <3>5. e[0] = 0  BY <3>1, <3>2
    <3>6. ASSUME NEW k \in 1..m PROVE e[k] = e[k - 1] + g(k)
      <4>1. CASE k = m  BY <3>1, <4>1
      <4>2. CASE k # m  BY <3>1, <3>2, <4>2
      <4> QED  BY <4>1, <4>2
    <3>7. Counts(e, m)  BY <3>4, <3>5, <3>6
    <3> QED  BY <3>7
  <2> QED  BY <2>2, <2>3
<1>5. PICK f : Counts(f, L)  BY <1>4
<1>6. f = Body(f)
  <2>1. f = [n \in 0..L |-> f[n]]  BY <1>5
  <2>2. \A n \in 0..L : f[n] = IF n = 0 THEN 0 ELSE f[n - 1] + g(n)  BY <1>1, <1>5
  <2> QED  BY <2>1, <2>2
<1> DEFINE h == CHOOSE x : x = Body(x)
<1>7. h = Body(h)  BY <1>6
<1> HIDE DEF h
<1>8. h = f
  <2> DEFINE Bad == {n \in 0..L : h[n] # f[n]}
  <2>1. Bad = {}
    <3> SUFFICES ASSUME Bad # {} PROVE FALSE  OBVIOUS
    <3>1. PICK m \in Bad : \A x \in Bad : m <= x
      <4>1. Bad \in SUBSET Nat  BY <1>1
      <4> HIDE DEF Bad
      <4> QED  BY <4>1, LeastExists
    <3>2. h[m] = IF m = 0 THEN 0 ELSE h[m - 1] + g(m)  BY <1>7
    <3>3. f[m] = IF m = 0 THEN 0 ELSE f[m - 1] + g(m)  BY <1>6
    <3>4. CASE m = 0  BY <3>2, <3>3, <3>4
    <3>5. CASE m # 0
      <4>1. m - 1 \in 0..L /\ m - 1 \notin Bad  BY <1>1, <3>1, <3>5
      <4> QED  BY <3>2, <3>3, <3>5, <4>1
    <3> QED  BY <3>4, <3>5
  <2>2. h = [n \in 0..L |-> h[n]]  BY <1>7
  <2>3. f = [n \in 0..L |-> f[n]]  BY <1>5
  <2> QED  BY <2>1, <2>2, <2>3
<1>9. LinesAdd(invoice, c) = f  BY <1>3, <1>8 DEF h
<1> QED  BY <1>5, <1>9 DEF L, g

Working == {"lines", "write", "insert"}

\* What the lines that r has passed add to SKU c.
SoFar(r, c) == LinesAdd(req[r].invoice, c)[req[r].next - 1]

\* What r has written, and the quantity it has read, is the balance and its lines.
AddsUp(r) ==
    /\ req[r].pc = "idle" => req[r].next = 1
    /\ req[r].pc \notin Working => DOMAIN written[r] = {}
    /\ req[r].pc = "insert" => ~Holds(r, NextSku(r))
    /\ req[r].pc \in Working => req[r].next <= Len(req[r].invoice) + 1
    /\ req[r].pc \in Working => \A c \in Sku \ raced :
          /\ Holds(r, c) => written[r][c] = balance[c] + SoFar(r, c)
          /\ ~Holds(r, c) => SoFar(r, c) = 0
          /\ req[r].pc = "write" /\ NextSku(r) = c => req[r].read = balance[c] + SoFar(r, c)

\* A row is written by one open transaction at a time.
OneWriter == \A r, q \in Request, c \in Sku : Holds(r, c) /\ Holds(q, c) => r = q

RowsAddUp ==
    /\ balance \in [Sku -> Int]
    /\ \A c \in Sku \ known : stock[c].onHand = 0
    /\ \A c \in Sku \ raced : stock[c].onHand = balance[c]

ConserveInv == OneWriter /\ RowsAddUp /\ \A r \in Request : AddsUp(r)

LEMMA InvoiceType ==
    ASSUME TypeOK, NEW r \in Request
    PROVE  req[r].invoice \in Seq(Line) /\ req[r].next \in Nat \ {0} /\ Len(req[r].invoice) \in Nat
<1>1. req[r] \in RequestState  BY DEF TypeOK
<1>2. req[r].invoice \in Seq(Line)  BY <1>1, InvoiceAssumption DEF RequestState
<1> QED  BY <1>1, <1>2 DEF RequestState

\* What is left alone still adds up.
LEMMA AddsUpStill ==
    ASSUME NEW r \in Request, AddsUp(r), req'[r] = req[r], written'[r] = written[r],
           \A c \in Sku \ raced' :
             /\ c \notin raced
             /\ Holds(r, c) \/ (req[r].pc = "write" /\ NextSku(r) = c) => balance'[c] = balance[c]
    PROVE  AddsUp(r)'
<1>1. NextSku(r)' = NextSku(r)  BY DEF NextSku, NextLine
<1>2. \A c : SoFar(r, c)' = SoFar(r, c)  BY DEF SoFar
<1>3. \A c : Holds(r, c)' = Holds(r, c)  BY DEF Holds
<1> QED  BY <1>1, <1>2, <1>3 DEF AddsUp

\* A request that is not at work adds nothing.
LEMMA AddsUpIdle ==
    ASSUME NEW r \in Request, req'[r].pc \notin Working \cup {"idle"}, DOMAIN written'[r] = {}
    PROVE  AddsUp(r)'
BY DEF AddsUp, Working

\* One request moves, in its own transaction.
LEMMA OneMoves ==
    ASSUME ConserveInv, NEW r \in Request, UNCHANGED <<known, stock, balance, raced>>,
           \A q \in Request \ {r} : req'[q] = req[q] /\ written'[q] = written[q],
           \A c \in Sku : Holds(r, c)' => Holds(r, c) \/ ~LockedByOther(r, c),
           AddsUp(r)'
    PROVE  ConserveInv'
<1>1. ASSUME NEW q \in Request PROVE AddsUp(q)'
  BY AddsUpStill DEF ConserveInv
<1>2. OneWriter'
  <2>1. \A q \in Request \ {r}, c \in Sku : Holds(q, c)' = Holds(q, c)  BY DEF Holds
  <2>2. \A q \in Request \ {r}, c \in Sku : Holds(r, c)' => ~Holds(q, c)
    BY DEF ConserveInv, OneWriter, LockedByOther
  <2>3. ASSUME NEW p \in Request, NEW q \in Request, NEW c \in Sku, Holds(p, c)', Holds(q, c)'
        PROVE  p = q
    BY <2>1, <2>2, <2>3 DEF ConserveInv, OneWriter
  <2> QED  BY <2>3 DEF OneWriter
<1>3. RowsAddUp'  BY DEF ConserveInv, RowsAddUp
<1> QED  BY <1>1, <1>2, <1>3 DEF ConserveInv

LEMMA InitConserve == Init => ConserveInv
<1> SUFFICES ASSUME Init PROVE ConserveInv  OBVIOUS
<1>1. \A c \in Sku : stock[c].onHand \in Int
  BY StockAssumption DEF Init, StockInit, Unlisted
<1>2. RowsAddUp  BY <1>1, StockAssumption DEF Init, StockInit, Unlisted, RowsAddUp
<1>3. \A r \in Request : DOMAIN written[r] = {} /\ req[r].pc = "idle" /\ req[r].next = 1
  BY DEF Init, StockInit, NoWrites, NoData
<1>4. OneWriter  BY <1>3 DEF OneWriter, Holds
<1>5. \A r \in Request : AddsUp(r)  BY <1>3 DEF AddsUp, Working
<1> QED  BY <1>2, <1>4, <1>5 DEF ConserveInv

\* A line that is passed is added to its SKU, and to no other.
LEMMA SoFarNext ==
    ASSUME TypeInv, NEW r \in Request, LinesLeft(r), NEW c,
           req'[r].invoice = req[r].invoice, req'[r].next = req[r].next + 1
    PROVE  /\ SoFar(r, c)' = SoFar(r, c) + LineAdds(NextLine(r), c)
           /\ SoFar(r, c) \in Int
<1> DEFINE i == req[r].invoice
           n == req[r].next
<1>1. i \in Seq(Line) /\ n \in Nat \ {0} /\ Len(i) \in Nat  BY InvoiceType DEF TypeInv
<1>2. n <= Len(i)  BY DEF LinesLeft
<1>3. SoFar(r, c)' = LinesAdd(i, c)[n]
  <2>1. SoFar(r, c)' = LinesAdd(req'[r].invoice, c)[req'[r].next - 1]  BY DEF SoFar
  <2>2. req'[r].invoice = i /\ req'[r].next - 1 = n  BY <1>1
  <2> QED  BY <2>1, <2>2
<1>4. SoFar(r, c) = LinesAdd(i, c)[n - 1] /\ NextLine(r) = i[n]  BY DEF SoFar, NextLine
<1> HIDE DEF i, n
<1>5. n \in 1..Len(i) /\ n - 1 \in 0..Len(i)  BY <1>1, <1>2
<1>6. LinesAdd(i, c) \in [0..Len(i) -> Int]
      /\ LinesAdd(i, c)[n] = LinesAdd(i, c)[n - 1] + LineAdds(i[n], c)
  BY <1>1, <1>5, LinesAddDef
<1> QED  BY <1>3, <1>4, <1>5, <1>6

\* An error rolls back what the request has written.
LEMMA AbortConserve ==
    ASSUME TypeInv, ConserveInv, NEW r \in Request, Abort(r),
           UNCHANGED <<known, stock, balance, raced>>
    PROVE  ConserveInv'
<1>t. TypeOK /\ StockTypeOK  BY DEF TypeInv, TypeOK
<1>1. req'[r].pc = "error" /\ \A q \in Request \ {r} : req'[q] = req[q]
  BY <1>t DEF Abort, End, NoData, TypeOK
<1>2. DOMAIN written'[r] = {} /\ \A q \in Request \ {r} : written'[q] = written[q]
  BY <1>t DEF Abort, Discard, StockTypeOK, NoWrites
<1>3. AddsUp(r)'  BY <1>1, <1>2, AddsUpIdle DEF Working
<1> QED  BY <1>1, <1>2, <1>3, OneMoves DEF Holds

\* The line at hand is written: the quantity is the balance and the lines so far,
\* that line included.
LEMMA WriteConserve ==
    ASSUME TypeInv, ConserveInv, NEW r \in Request, LinesLeft(r), NEW n \in Int,
           req[r].pc \in Working, ~LockedByOther(r, NextSku(r)), Write(r, NextSku(r), n),
           NextSku(r) \notin raced
             => n = balance[NextSku(r)] + SoFar(r, NextSku(r)) + NextLine(r).quantity,
           NextLine(r).quantity >= 1,
           req' = [req EXCEPT ![r].pc = "lines", ![r].next = @ + 1, ![r].read = 0],
           UNCHANGED <<known, stock, balance, raced>>
    PROVE  ConserveInv'
<1> DEFINE c == NextSku(r)
<1>t. TypeOK /\ StockTypeOK  BY DEF TypeInv, TypeOK
<1>1. /\ req'[r].pc = "lines" /\ req'[r].next = req[r].next + 1
      /\ req'[r].invoice = req[r].invoice
      /\ \A q \in Request \ {r} : req'[q] = req[q]
  BY <1>t DEF TypeOK, RequestState
<1>2. \A q \in Request \ {r} : written'[q] = written[q]  BY <1>t DEF Write, StockTypeOK
<1>3. written'[r] = [d \in DOMAIN written[r] \cup {c} |-> IF d = c THEN n ELSE written[r][d]]
  BY <1>t DEF Write, StockTypeOK
<1>4. c \in Sku /\ NextLine(r).sku = c /\ NextLine(r).quantity \in Int
  BY <1>t, NextSkuType, NextLineType DEF NextSku, Line
<1>5. AddsUp(r)'
  <2>1. req[r].next <= Len(req[r].invoice) /\ req[r].next \in Nat /\ Len(req[r].invoice) \in Nat
    BY <1>t, InvoiceType DEF LinesLeft
  <2>2. req'[r].next <= Len(req'[r].invoice) + 1  BY <1>1, <2>1
  <2>3. ASSUME NEW d \in Sku \ raced'
        PROVE  /\ Holds(r, d)' => written'[r][d] = balance'[d] + SoFar(r, d)'
               /\ ~Holds(r, d)' => SoFar(r, d)' = 0
    <3>1. SoFar(r, d)' = SoFar(r, d) + LineAdds(NextLine(r), d) /\ SoFar(r, d) \in Int
      BY <1>1, SoFarNext
    <3>2. d \in Sku \ raced /\ balance'[d] = balance[d] /\ balance[d] \in Int
      BY DEF ConserveInv, RowsAddUp
    <3>3. (Holds(r, d) => written[r][d] = balance[d] + SoFar(r, d))
          /\ (~Holds(r, d) => SoFar(r, d) = 0)
      BY <3>2 DEF ConserveInv, AddsUp
    <3>4. CASE d = c
      <4>1. LineAdds(NextLine(r), d) = NextLine(r).quantity  BY <1>4, <3>4 DEF LineAdds
      <4>2. Holds(r, d)' /\ written'[r][d] = n  BY <1>3, <3>4 DEF Holds
      <4>3. n = balance[d] + SoFar(r, d) + NextLine(r).quantity  BY <3>2, <3>4
      <4> QED  BY <1>4, <3>1, <3>2, <4>1, <4>2, <4>3
    <3>5. CASE d # c
      <4>1. LineAdds(NextLine(r), d) = 0  BY <1>4, <3>5 DEF LineAdds
      <4>2. (Holds(r, d)' <=> Holds(r, d)) /\ (Holds(r, d) => written'[r][d] = written[r][d])
        BY <1>3, <3>5 DEF Holds
      <4> QED  BY <3>1, <3>2, <3>3, <4>1, <4>2
    <3> QED  BY <3>4, <3>5
  <2> QED  BY <1>1, <2>2, <2>3 DEF AddsUp, Working
<1>6. \A d \in Sku : Holds(r, d)' => Holds(r, d) \/ ~LockedByOther(r, d)
  BY <1>3 DEF Holds
<1> QED  BY <1>1, <1>2, <1>5, <1>6, OneMoves

\* The commit of an invoice: its lines are published, and its SKUs' balances are
\* what it wrote.
LEMMA CommitConserve ==
    ASSUME TypeInv, ConserveInv, NEW r \in Request, req[r].pc = "lines", ~LinesLeft(r),
           Publish(r), req' = [req EXCEPT ![r].pc = "mark"],
           Book(DOMAIN written[r], [c \in Sku |-> balance[c] + Added(r, c)])
    PROVE  ConserveInv'
<1>t. TypeOK /\ StockTypeOK  BY DEF TypeInv, TypeOK
<1>1. req'[r].pc = "mark" /\ \A q \in Request \ {r} : req'[q] = req[q]
  BY <1>t DEF TypeOK, RequestState
<1>2. DOMAIN written'[r] = {} /\ \A q \in Request \ {r} : written'[q] = written[q]
  BY <1>t DEF Publish, Discard, StockTypeOK, NoWrites
<1>3. \A c : Added(r, c) = SoFar(r, c) /\ SoFar(r, c) \in Int
  <2> TAKE c
  <2>1. /\ req[r].invoice \in Seq(Line) /\ Len(req[r].invoice) \in Nat
        /\ req[r].next \in Nat \ {0}
    BY <1>t, InvoiceType
  <2>2. req[r].next <= Len(req[r].invoice) + 1  BY DEF ConserveInv, AddsUp, Working
  <2>3. req[r].next - 1 = Len(req[r].invoice)  BY <2>1, <2>2 DEF LinesLeft
  <2>4. LinesAdd(req[r].invoice, c) \in [0..Len(req[r].invoice) -> Int]
    BY <2>1, LinesAddDef
  <2>5. LinesAdd(req[r].invoice, c)[Len(req[r].invoice)] \in Int  BY <2>1, <2>4
  <2> QED  BY <2>3, <2>5 DEF Added, SoFar
<1>4. ASSUME NEW c \in Sku \ raced'
      PROVE  /\ c \notin raced
             /\ balance'[c] = balance[c] + SoFar(r, c)
             /\ Holds(r, c) => written[r][c] = balance[c] + SoFar(r, c)
             /\ ~Holds(r, c) => SoFar(r, c) = 0
             /\ \A q \in Request : req[q].pc = "write" /\ NextSku(q) = c => ~Holds(r, c)
  <2>1. c \notin raced /\ \A q \in Request : req[q].pc = "write" /\ NextSku(q) = c => ~Holds(r, c)
    BY DEF Book, Holds
  <2>2. balance'[c] = balance[c] + Added(r, c)  BY DEF Book
  <2> QED  BY <1>3, <2>1, <2>2 DEF ConserveInv, AddsUp, Working
<1>5. AddsUp(r)'  BY <1>1, <1>2, AddsUpIdle DEF Working
<1>6. ASSUME NEW q \in Request \ {r} PROVE AddsUp(q)'
  <2>1. ASSUME NEW c \in Sku \ raced',
               Holds(q, c) \/ (req[q].pc = "write" /\ NextSku(q) = c)
        PROVE  balance'[c] = balance[c]
    <3>1. ~Holds(r, c)  BY <1>4, <2>1 DEF ConserveInv, OneWriter
    <3>2. balance[c] \in Int  BY DEF ConserveInv, RowsAddUp
    <3> QED  BY <1>4, <3>1, <3>2
  <2>2. AddsUp(q)  BY DEF ConserveInv
  <2> QED  BY <1>1, <1>2, <1>4, <2>1, <2>2, AddsUpStill
<1>7. OneWriter'
  <2>1. \A q \in Request, c \in Sku : Holds(q, c)' => Holds(q, c)  BY <1>2 DEF Holds
  <2> QED  BY <2>1 DEF ConserveInv, OneWriter
<1>8. RowsAddUp'
  <2>1. balance' \in [Sku -> Int]
    <3>1. ASSUME NEW c \in Sku PROVE (IF c \in raced' THEN 0 ELSE balance[c] + Added(r, c)) \in Int
      BY <1>3 DEF ConserveInv, RowsAddUp
    <3>2. balance' = [c \in Sku |-> IF c \in raced' THEN 0 ELSE balance[c] + Added(r, c)]
      BY DEF Book
    <3> QED  BY <3>1, <3>2
  <2>2. ASSUME NEW c \in Sku PROVE stock'[c].onHand = IF Holds(r, c) THEN written[r][c] ELSE stock[c].onHand
    <3>1. stock[c] \in Level  BY <1>t DEF StockTypeOK
    <3> QED  BY <3>1 DEF Publish, Level
  <2>3. \A c \in Sku \ known' : stock'[c].onHand = 0
    BY <2>2 DEF Publish, Holds, ConserveInv, RowsAddUp
  <2>4. ASSUME NEW c \in Sku \ raced' PROVE stock'[c].onHand = balance'[c]
    <3>1. stock[c].onHand = balance[c] /\ balance[c] \in Int
      BY <1>4 DEF ConserveInv, RowsAddUp
    <3> QED  BY <1>4, <2>2, <3>1
  <2> QED  BY <2>1, <2>3, <2>4 DEF RowsAddUp
<1> QED  BY <1>5, <1>6, <1>7, <1>8 DEF ConserveInv

\* A manager sets the quantity of a row that nobody holds.
LEMMA SetConserve ==
    ASSUME TypeInv, ConserveInv, NEW c \in known, ~Locked(c), NEW n \in Int, NEW b \in Int,
           c \notin raced => n = b,
           UNCHANGED <<known, written, req>>,
           \A d \in Sku : stock'[d].onHand = IF d = c THEN n ELSE stock[d].onHand,
           Book({c}, [balance EXCEPT ![c] = b])
    PROVE  ConserveInv'
<1>t. TypeOK /\ StockTypeOK  BY DEF TypeInv, TypeOK
<1>1. \A d \in Sku \ raced' : d \notin raced /\ balance'[d] = IF d = c THEN b ELSE balance[d]
  BY DEF Book, ConserveInv, RowsAddUp
<1>2. ASSUME NEW q \in Request PROVE AddsUp(q)'
  <2>1. ASSUME NEW d \in Sku \ raced',
               Holds(q, d) \/ (req[q].pc = "write" /\ NextSku(q) = d)
        PROVE  balance'[d] = balance[d]
    <3>1. d # c  BY <2>1 DEF Book, Locked
    <3> QED  BY <1>1, <3>1
  <2>2. AddsUp(q)  BY DEF ConserveInv
  <2> QED  BY <1>1, <2>1, <2>2, AddsUpStill
<1>3. OneWriter'  BY DEF ConserveInv, OneWriter, Holds
<1>4. RowsAddUp'
  <2>1. balance' \in [Sku -> Int]
    <3>1. balance \in [Sku -> Int]  BY DEF ConserveInv, RowsAddUp
    <3>2. [balance EXCEPT ![c] = b] \in [Sku -> Int]  BY <3>1
    <3> QED  BY <3>2 DEF Book
  <2>2. \A d \in Sku \ known' : stock'[d].onHand = 0  BY DEF ConserveInv, RowsAddUp
  <2>3. \A d \in Sku \ raced' : stock'[d].onHand = balance'[d]
    BY <1>1 DEF ConserveInv, RowsAddUp
  <2> QED  BY <2>1, <2>2, <2>3 DEF RowsAddUp
<1> QED  BY <1>2, <1>3, <1>4 DEF ConserveInv

LEMMA StepConserve == TypeInv /\ ConserveInv /\ [Next]_vars => ConserveInv'
<1> SUFFICES ASSUME TypeInv, ConserveInv, [Next]_vars PROVE ConserveInv'  OBVIOUS
<1>t. TypeOK /\ StockTypeOK  BY DEF TypeInv, TypeOK
<1>q. UNCHANGED <<stockVars, req, balance, raced>> => ConserveInv'
  BY AddsUpStill DEF stockVars, ConserveInv, OneWriter, RowsAddUp, Holds
<1>1. ASSUME NEW s \in Scan, Upload(s) \/ Extracted(s) PROVE ConserveInv'
  BY <1>1, <1>q DEF Upload, Extracted, history
<1>2. ASSUME NEW r \in Request, UNCHANGED <<stockVars, balance, raced>>, AddsUp(r)',
             \A q \in Request \ {r} : req'[q] = req[q]
      PROVE  ConserveInv'
  BY <1>2, OneMoves DEF stockVars, Holds
<1>3. ASSUME NEW r \in Request, NEW s \in Scan, NEW i \in Invoices, ConfirmRead(r, s, i)
      PROVE  ConserveInv'
  <2>1. req' = [req EXCEPT ![r] = [@ EXCEPT !.pc = "lines", !.scan = s, !.invoice = i]]
        /\ req[r].pc = "idle" /\ UNCHANGED <<stockVars, balance, raced>>
    BY <1>3 DEF ConfirmRead
  <2>2. req'[r].pc = "lines" /\ req'[r].invoice = i /\ req'[r].next = req[r].next
        /\ \A q \in Request \ {r} : req'[q] = req[q]
    BY <2>1, <1>t DEF TypeOK, RequestState
  <2>3. req[r].next = 1 /\ DOMAIN written'[r] = {}
    BY <2>1 DEF ConserveInv, AddsUp, Working, stockVars
  <2>4. i \in Seq(Line) /\ Len(i) \in Nat  BY InvoiceAssumption
  <2>5. \A c : SoFar(r, c)' = 0
    <3> TAKE c
    <3>1. SoFar(r, c)' = LinesAdd(i, c)[1 - 1]  BY <2>2, <2>3 DEF SoFar
    <3> QED  BY <2>4, <3>1, LinesAddDef
  <2>6. AddsUp(r)'  BY <2>2, <2>3, <2>4, <2>5 DEF AddsUp, Working, Holds
  <2> QED  BY <1>2, <2>1, <2>2, <2>6
<1>4. ASSUME NEW r \in Request, NEW s \in Scan, RejectRead(r, s) PROVE ConserveInv'
  <2>1. req' = [req EXCEPT ![r].pc = "reject", ![r].scan = s] /\ req[r].pc = "idle"
        /\ UNCHANGED <<stockVars, balance, raced>>
    BY <1>4 DEF RejectRead, history
  <2>2. req'[r].pc = "reject" /\ \A q \in Request \ {r} : req'[q] = req[q]
    BY <2>1, <1>t DEF TypeOK, RequestState
  <2>3. DOMAIN written'[r] = {}  BY <2>1 DEF ConserveInv, AddsUp, Working, stockVars
  <2>4. AddsUp(r)'  BY <2>2, <2>3, AddsUpIdle DEF Working
  <2> QED  BY <1>2, <2>1, <2>2, <2>4
<1>5. ASSUME NEW r \in Request, SkipLine(r) PROVE ConserveInv'
  <2>1. /\ req' = [req EXCEPT ![r].next = @ + 1] /\ req[r].pc = "lines"
        /\ LinesLeft(r) /\ NextLine(r).quantity < 1
        /\ UNCHANGED <<stockVars, balance, raced>>
    BY <1>5 DEF SkipLine, history
  <2>2. req'[r].pc = "lines" /\ req'[r].invoice = req[r].invoice
        /\ req'[r].next = req[r].next + 1
        /\ \A q \in Request \ {r} : req'[q] = req[q]
    BY <2>1, <1>t DEF TypeOK, RequestState
  <2>3. \A c : LineAdds(NextLine(r), c) = 0
    <3>1. NextLine(r).quantity \in Int  BY <2>1, <1>t, NextLineType DEF Line
    <3> QED  BY <2>1, <3>1 DEF LineAdds
  <2>4. \A c : SoFar(r, c)' = SoFar(r, c)
    <3> TAKE c
    <3>1. SoFar(r, c)' = SoFar(r, c) + LineAdds(NextLine(r), c) /\ SoFar(r, c) \in Int
      BY <2>1, <2>2, SoFarNext
    <3> QED  BY <2>3, <3>1
  <2>5. req'[r].next <= Len(req'[r].invoice) + 1
    BY <2>1, <2>2, <1>t, InvoiceType DEF LinesLeft
  <2>6. AddsUp(r)'
    BY <2>1, <2>2, <2>4, <2>5 DEF ConserveInv, AddsUp, Working, Holds, stockVars
  <2> QED  BY <1>2, <2>1, <2>2, <2>6
<1>6. ASSUME NEW r \in Request, ReadLine(r) PROVE ConserveInv'
  <2> DEFINE c == NextSku(r)
             w == [req[r] EXCEPT !.pc = "write", !.read = OnHand(r, c)]
             j == [req[r] EXCEPT !.pc = "insert"]
  <2>1. /\ req[r].pc = "lines" /\ LinesLeft(r) /\ UNCHANGED <<stockVars, balance, raced>>
        /\ req' = [req EXCEPT ![r] = IF HasLevel(r, c) THEN w ELSE j]
    BY <1>6 DEF ReadLine, history
  <2>2. c \in Sku  BY <2>1, NextSkuType
  <2>3. req'[r] = (IF HasLevel(r, c) THEN w ELSE j) /\ \A q \in Request \ {r} : req'[q] = req[q]
    BY <2>1, <1>t DEF TypeOK
  <2>4. /\ req'[r].invoice = req[r].invoice /\ req'[r].next = req[r].next
        /\ req'[r].pc = (IF HasLevel(r, c) THEN "write" ELSE "insert")
        /\ HasLevel(r, c) => req'[r].read = OnHand(r, c)
    BY <2>3, <1>t DEF TypeOK, RequestState
  <2>5. NextSku(r)' = c /\ (\A d : SoFar(r, d)' = SoFar(r, d)) /\ (\A d : Holds(r, d)' = Holds(r, d))
    BY <2>1, <2>4 DEF NextSku, NextLine, SoFar, Holds, stockVars
  <2>6. ASSUME HasLevel(r, c), c \notin raced PROVE OnHand(r, c) = balance[c] + SoFar(r, c)
    <3>1. balance[c] \in Int /\ stock[c].onHand = balance[c]
      BY <2>2, <2>6 DEF ConserveInv, RowsAddUp
    <3> QED  BY <2>1, <2>2, <2>6, <3>1 DEF ConserveInv, AddsUp, Working, OnHand
  <2>7. ~HasLevel(r, c) => ~Holds(r, c)  BY DEF HasLevel
  <2>8. AddsUp(r)'
    <3> HIDE DEF c, w, j
    <3>1. AddsUp(r) /\ balance' = balance /\ raced' = raced /\ written' = written
      BY <2>1 DEF ConserveInv, stockVars
    <3>2. req'[r].pc \in {"write", "insert"}  BY <2>4
    <3>3. req'[r].pc = "insert" => ~Holds(r, NextSku(r))'  BY <2>4, <2>5, <2>7
    <3>4. ASSUME NEW d \in Sku \ raced'
          PROVE  /\ Holds(r, d)' => written'[r][d] = balance'[d] + SoFar(r, d)'
                 /\ ~Holds(r, d)' => SoFar(r, d)' = 0
                 /\ req'[r].pc = "write" /\ NextSku(r)' = d
                      => req'[r].read = balance'[d] + SoFar(r, d)'
      BY <2>1, <2>4, <2>5, <2>6, <3>1 DEF AddsUp, Working
    <3>5. req'[r].next <= Len(req'[r].invoice) + 1  BY <2>1, <2>4, <3>1 DEF AddsUp, Working
    <3> QED  BY <3>2, <3>3, <3>4, <3>5 DEF AddsUp, Working
  <2> QED  BY <1>2, <2>1, <2>3, <2>8
<1>7. ASSUME NEW r \in Request, WriteLine(r) PROVE ConserveInv'
  <2>1. req[r].pc = "write"  BY <1>7 DEF WriteLine
  <2>2. LinesLeft(r) /\ NextLine(r).quantity >= 1  BY <2>1 DEF TypeInv, LineAtHand
  <2>3. NextSku(r) \in Sku  BY <2>1, NextSkuType
  <2>4. NextSku(r) \notin raced => req[r].read = balance[NextSku(r)] + SoFar(r, NextSku(r))
    BY <2>1, <2>3 DEF ConserveInv, AddsUp, Working
  <2> DEFINE n == req[r].read + NextLine(r).quantity
  <2>5. /\ ~LockedByOther(r, NextSku(r)) /\ Write(r, NextSku(r), n)
        /\ req' = [req EXCEPT ![r].pc = "lines", ![r].next = @ + 1, ![r].read = 0]
        /\ UNCHANGED <<known, stock, balance, raced>>
    BY <1>7 DEF WriteLine, history
  <2>6. NextSku(r) \notin raced
          => n = balance[NextSku(r)] + SoFar(r, NextSku(r)) + NextLine(r).quantity
    BY <2>4
  <2>7. n \in Int
    <3>1. req[r].read \in Quantity /\ NextLine(r).quantity \in Int
      BY <2>2, <1>t, NextLineType DEF TypeOK, RequestState, Line
    <3> QED  BY <3>1 DEF Quantity
  <2>8. req[r].pc \in Working  BY <2>1 DEF Working
  <2> HIDE DEF n
  <2> QED  BY <2>2, <2>5, <2>6, <2>7, <2>8, WriteConserve
<1>8. ASSUME NEW r \in Request, InsertLine(r) PROVE ConserveInv'
  <2> DEFINE c == NextSku(r)
  <2>1. CASE c \in known
    BY <1>8, <2>1, AbortConserve DEF InsertLine, history
  <2>2. CASE c \notin known
    <3>1. req[r].pc = "insert"  BY <1>8 DEF InsertLine
    <3>2. LinesLeft(r) /\ NextLine(r).quantity >= 1  BY <3>1 DEF TypeInv, LineAtHand
    <3>3. c \in Sku  BY <3>1, NextSkuType
    <3>4. NextLine(r).quantity \in Int  BY <3>2, <1>t, NextLineType DEF Line
    <3>5. c \notin raced => balance[c] = 0 /\ SoFar(r, c) = 0
      BY <2>2, <3>1, <3>3 DEF ConserveInv, RowsAddUp, AddsUp, Working
    <3>6. c \notin raced
            => NextLine(r).quantity = balance[c] + SoFar(r, c) + NextLine(r).quantity
      BY <3>4, <3>5
    <3>7. /\ ~LockedByOther(r, c) /\ Write(r, c, NextLine(r).quantity)
          /\ req' = [req EXCEPT ![r].pc = "lines", ![r].next = @ + 1, ![r].read = 0]
          /\ UNCHANGED <<known, stock, balance, raced>>
      BY <1>8, <2>2 DEF InsertLine, history
    <3>8. req[r].pc \in Working  BY <3>1 DEF Working
    <3> QED  BY <3>2, <3>4, <3>6, <3>7, <3>8, WriteConserve
  <2> QED  BY <2>1, <2>2
<1>9. ASSUME NEW r \in Request, CommitLines(r) PROVE ConserveInv'
  <2>1. CASE DOMAIN written[r] = {}
    BY <1>9, <2>1, AbortConserve DEF CommitLines, history
  <2>2. CASE DOMAIN written[r] # {}
    BY <1>9, <2>2, CommitConserve DEF CommitLines
  <2> QED  BY <2>1, <2>2
<1>10. ASSUME NEW r \in Request, MarkConfirmed(r) \/ MarkRejected(r) PROVE ConserveInv'
  <2>1. /\ req[r].pc \in {"mark", "reject"} /\ UNCHANGED <<stockVars, balance, raced>>
        /\ End(r, "done")
    BY <1>10 DEF MarkConfirmed, MarkRejected, history
  <2>2. req'[r].pc = "done" /\ \A q \in Request \ {r} : req'[q] = req[q]
    BY <2>1, <1>t DEF End, NoData, TypeOK
  <2>3. DOMAIN written'[r] = {}  BY <2>1 DEF ConserveInv, AddsUp, Working, stockVars
  <2>4. AddsUp(r)'  BY <2>2, <2>3, AddsUpIdle DEF Working
  <2> QED  BY <1>2, <2>1, <2>2, <2>4
<1>11. ASSUME NEW r \in Request, DeadlockVictim(r) \/ Crash(r) PROVE ConserveInv'
  BY <1>11, AbortConserve DEF DeadlockVictim, Crash, history
<1>12. ASSUME NEW c \in Sku, NEW d \in Delta, Adjust(c, d) PROVE ConserveInv'
  <2>1. stock[c] \in Level /\ d \in Int /\ balance[c] \in Int
    BY <1>t, StockAssumption DEF StockTypeOK, ConserveInv, RowsAddUp
  <2>2. /\ stock' = [stock EXCEPT ![c].onHand = stock[c].onHand + d]
        /\ c \in known /\ ~Locked(c) /\ UNCHANGED <<known, written, req>>
        /\ Book({c}, [balance EXCEPT ![c] = balance[c] + d])
    BY <1>12 DEF Adjust, AdjustStock
  <2>3. \A e \in Sku : stock'[e].onHand = IF e = c THEN stock[c].onHand + d ELSE stock[e].onHand
    BY <2>1, <2>2, <1>t DEF StockTypeOK, Level
  <2>4. stock[c].onHand + d \in Int /\ balance[c] + d \in Int
    BY <2>1 DEF Level, Quantity
  <2>5. c \notin raced => stock[c].onHand + d = balance[c] + d
    BY DEF ConserveInv, RowsAddUp
  <2> QED  BY <2>2, <2>3, <2>4, <2>5, SetConserve
<1>13. ASSUME NEW c \in Sku, NEW g \in Given(c), Count(c, g[1], g[2]) PROVE ConserveInv'
  <2>1. stock[c] \in Level  BY <1>t DEF StockTypeOK
  <2>2. g[1] \in Int
    <3>1. g[1] \in Quantity  BY <2>1, StockAssumption DEF Given, Level, Quantity
    <3> QED  BY <3>1, StockAssumption DEF Quantity
  <2>3. /\ stock' = [stock EXCEPT ![c] = [onHand |-> g[1], reserved |-> g[2]]]
        /\ c \in known /\ ~Locked(c) /\ UNCHANGED <<known, written, req>>
        /\ Book({c}, [balance EXCEPT ![c] = g[1]])
    BY <1>13 DEF Count, UpdateStockLevel
  <2>4. \A e \in Sku : stock'[e].onHand = IF e = c THEN g[1] ELSE stock[e].onHand
    BY <2>3, <1>t DEF StockTypeOK
  <2> QED  BY <2>2, <2>3, <2>4, SetConserve
<1>14. ASSUME UNCHANGED vars PROVE ConserveInv'
  BY <1>14, <1>q DEF vars, history
<1> QED
  BY <1>1, <1>3, <1>4, <1>5, <1>6, <1>7, <1>8, <1>9, <1>10, <1>11, <1>12, <1>13, <1>14
     DEF Next, Advance

\* The stock of a SKU is what the changes that were committed add up to: the lines
\* of every confirmed invoice, wherever they fail or roll back, and every adjustment
\* and count.  Only a change that lands between apply_confirmed_invoice's read of
\* that SKU and its write, which takes no lock, is lost.
THEOREM StockAddsUp == Spec => []StockIsConserved
<1>1. TypeInv /\ ConserveInv => StockIsConserved
  BY DEF TypeInv, TypeOK, StockTypeOK, ConserveInv, RowsAddUp, StockIsConserved
<1> QED  BY <1>1, InitConserve, StepConserve, TypeInvHolds, PTL DEF Spec
=============================================================================
