--------------------------- MODULE Records_proofs ----------------------------
(***************************************************************************)
(* The records of accounts, of the catalogue and of documents: what was    *)
(* answered stands and what is deleted stays deleted, for any number of    *)
(* requests, clients, rows and searches.                                   *)
(***************************************************************************)
EXTENDS Accounts, Catalog, Documents, TLAPS

-----------------------------------------------------------------------------
(* Accounts.                                                               *)

RequestPc == {"idle", "create", "mail", "verify", "spend", "edit", "deactivate"}
ServedState == [pc: RequestPc, id: 0..NumTokens, row: UserRow]

\* What was read of a user who was verified is still true; a link is spent once its user is
\* marked.
MarksStand ==
    ~clobbered =>
        /\ confirmed => user.email_verified
        /\ deactivated => ~user.is_active
        /\ \A r \in AccountRequest :
              /\ served[r].pc = "spend" => user.email_verified
              /\ served[r].row.email_verified => user.email_verified

\* A link that works has been mailed, is about to be, or is about to be created.
LinkIsComing ==
    \/ user.email_verified \/ unsent \/ lapsed \/ clobbered
    \/ \E r \in AccountRequest : served[r].pc = "create"
    \/ \E r \in AccountRequest : served[r].pc = "mail" /\ served[r].id \in LiveTokens
    \/ LiveTokens \cap mailed # {}

AccInv ==
    /\ user \in UserRow /\ served \in [AccountRequest -> ServedState]
    /\ DOMAIN token = Token
    /\ MarksStand /\ LinkIsComing

LEMMA AccInvSuffices == AccInv => AccountInv
<1> SUFFICES ASSUME AccInv PROVE AccountInv  OBVIOUS
<1>1. AnswersStand  BY DEF AccInv, MarksStand, AnswersStand
<1>2. SomeLinkWorks  BY DEF AccInv, LinkIsComing, SomeLinkWorks, Idle
<1> QED  BY <1>1, <1>2 DEF AccountInv

LEMMA AccountInitInv == AccountInit => AccInv
<1> SUFFICES ASSUME AccountInit PROVE AccInv  OBVIOUS
<1>1. PICK r \in AccountRequest : served = [q \in AccountRequest |->
         IF q = r THEN [NoAccountRequest EXCEPT !.pc = "create"] ELSE NoAccountRequest]
  BY DEF AccountInit
<1>2. Fresh \in UserRow /\ ~Fresh.email_verified  BY DEF Fresh, UserRow
<1>3. 0 \in 0..NumTokens  BY AccountAssumption
<1>4. NoAccountRequest \in ServedState
      /\ [NoAccountRequest EXCEPT !.pc = "create"] \in ServedState
  BY <1>2, <1>3 DEF NoAccountRequest, ServedState, RequestPc
<1>5. user \in UserRow /\ served \in [AccountRequest -> ServedState] /\ DOMAIN token = Token
  BY <1>1, <1>2, <1>4 DEF AccountInit
<1>6. \A q \in AccountRequest : served[q].row = Fresh /\ served[q].pc \in {"idle", "create"}
  BY <1>1 DEF NoAccountRequest
<1>7. MarksStand  BY <1>2, <1>6 DEF AccountInit, MarksStand
<1>8. LinkIsComing  BY <1>1 DEF LinkIsComing, NoAccountRequest
<1> QED  BY <1>5, <1>7, <1>8 DEF AccInv

-----------------------------------------------------------------------------
LEMMA ResendInv ==
    ASSUME AccInv, NEW r \in AccountRequest, Resend(r) PROVE AccInv'
<1> DEFINE n == [served[r] EXCEPT !.pc = "create"]
<1>1. served[r] \in ServedState  BY DEF AccInv
<1>2. n \in ServedState /\ n.pc = "create" /\ n.row = served[r].row
  BY <1>1 DEF ServedState, RequestPc
<1>3. served' = [served EXCEPT ![r] = n]  BY <1>1 DEF Resend, ServedState
<1> HIDE DEF n
<1>4. user' = user /\ clobbered' = clobbered /\ confirmed' = confirmed
      /\ deactivated' = deactivated /\ DOMAIN token' = Token
  BY DEF Resend
<1>5. MarksStand'  BY <1>2, <1>3, <1>4 DEF AccInv, MarksStand
<1>6. LinkIsComing'
  <2>1. served'[r].pc = "create"  BY <1>2, <1>3 DEF AccInv
  <2> QED  BY <2>1 DEF LinkIsComing
<1> QED  BY <1>2, <1>3, <1>4, <1>5, <1>6 DEF AccInv

LEMMA CreateTokenInv ==
    ASSUME AccInv, NEW r \in AccountRequest, CreateToken(r) PROVE AccInv'
<1>1. PICK t \in Unborn : /\ token' = [token EXCEPT ![t] = "live"]
                          /\ served' = [served EXCEPT ![r].pc = "mail", ![r].id = t]
  BY DEF CreateToken
<1> DEFINE n == [served[r] EXCEPT !.pc = "mail", !.id = t]
<1>2. served[r] \in ServedState  BY DEF AccInv
<1>3. t \in 0..NumTokens /\ t \in Token  BY AccountAssumption DEF Unborn, Token
<1>4. n \in ServedState /\ n.pc = "mail" /\ n.id = t /\ n.row = served[r].row
  BY <1>2, <1>3 DEF ServedState, RequestPc
<1>5. served' = [served EXCEPT ![r] = n]  BY <1>1, <1>2 DEF ServedState
<1> HIDE DEF n
<1>6. user' = user /\ clobbered' = clobbered /\ confirmed' = confirmed
      /\ deactivated' = deactivated /\ DOMAIN token' = Token
  BY <1>1 DEF CreateToken, AccInv
<1>7. MarksStand'  BY <1>4, <1>5, <1>6 DEF AccInv, MarksStand
<1>8. LinkIsComing'
  <2>1. served'[r].pc = "mail" /\ served'[r].id = t  BY <1>4, <1>5 DEF AccInv
  <2>2. t \in LiveTokens'  BY <1>1, <1>3 DEF AccInv, LiveTokens
  <2> QED  BY <2>1, <2>2 DEF LinkIsComing
<1> QED  BY <1>4, <1>5, <1>6, <1>7, <1>8 DEF AccInv

\* What a request that ends leaves behind.
LEMMA RequestEnds ==
    ASSUME AccInv, NEW r \in AccountRequest, served' = [served EXCEPT ![r] = NoAccountRequest]
    PROVE  /\ served' \in [AccountRequest -> ServedState]
           /\ \A q \in AccountRequest :
                 /\ q # r => served'[q] = served[q]
                 /\ served'[q].pc = "spend" => served[q].pc = "spend"
                 /\ served'[q].row.email_verified => served[q].row.email_verified
<1>1. 0 \in 0..NumTokens  BY AccountAssumption
<1>2. NoAccountRequest \in ServedState /\ NoAccountRequest.pc = "idle"
      /\ ~NoAccountRequest.row.email_verified
  BY <1>1 DEF NoAccountRequest, ServedState, RequestPc, Fresh, UserRow
<1> QED  BY <1>2 DEF AccInv

LEMMA MailLinkInv ==
    ASSUME AccInv, NEW r \in AccountRequest, MailLink(r) PROVE AccInv'
<1>1. /\ served[r].pc = "mail" /\ served' = [served EXCEPT ![r] = NoAccountRequest]
      /\ UNCHANGED <<user, token, deactivated, confirmed, clobbered, lapsed>>
      /\ unsent' \/ (unsent' = unsent /\ mailed' = mailed \cup {served[r].id})
  BY DEF MailLink
<1>2. MarksStand'  BY <1>1, RequestEnds DEF AccInv, MarksStand
<1>3. LiveTokens' = LiveTokens  BY <1>1 DEF LiveTokens
<1>4. LinkIsComing'
  <2>1. CASE unsent'  BY <2>1 DEF LinkIsComing
  <2>2. CASE served[r].id \in LiveTokens /\ ~unsent'
    BY <1>1, <1>3, <2>2 DEF LinkIsComing
  <2>3. CASE served[r].id \notin LiveTokens /\ ~unsent'
    BY <1>1, <1>3, <2>3, RequestEnds DEF AccInv, LinkIsComing
  <2> QED  BY <2>1, <2>2, <2>3
<1> QED  BY <1>1, <1>2, <1>4, RequestEnds DEF AccInv

LEMMA ExpireLinkInv ==
    ASSUME AccInv, NEW t \in Token, ExpireLink(t) PROVE AccInv'
<1>1. MarksStand'  BY DEF AccInv, MarksStand, ExpireLink
<1>2. LinkIsComing'  BY DEF LinkIsComing, ExpireLink
<1> QED  BY <1>1, <1>2 DEF AccInv, ExpireLink

\* A request that begins with a row it has just read, and touches no link that works.
LEMMA RequestBegins ==
    ASSUME AccInv, NEW r \in AccountRequest, NEW n \in ServedState, n.row = user,
           n.pc \notin {"spend"}, Idle(r), served' = [served EXCEPT ![r] = n],
           UNCHANGED <<user, token, mailed, unsent, deactivated, confirmed, clobbered, lapsed>>
    PROVE  AccInv'
<1>1. MarksStand'  BY DEF AccInv, MarksStand
<1>2. \A q \in AccountRequest : served[q].pc \in {"create", "mail"} => served'[q] = served[q]
  BY DEF AccInv, Idle
<1>3. LinkIsComing'  BY <1>2 DEF AccInv, LinkIsComing, LiveTokens
<1> QED  BY <1>1, <1>3 DEF AccInv

LEMMA OpenLinkInv ==
    ASSUME AccInv, NEW r \in AccountRequest, NEW t \in Token, OpenLink(r, t) PROVE AccInv'
<1>1. ASSUME token[t] = "expired", token' = [token EXCEPT ![t] = "gone"], UNCHANGED served
      PROVE  AccInv'
  <2>1. LiveTokens' = LiveTokens  BY <1>1 DEF LiveTokens, AccInv
  <2>2. UNCHANGED <<user, mailed, unsent, deactivated, confirmed, clobbered, lapsed>>
    BY DEF OpenLink
  <2>3. MarksStand' /\ LinkIsComing'
    BY <1>1, <2>1, <2>2 DEF AccInv, MarksStand, LinkIsComing
  <2> QED  BY <1>1, <2>2, <2>3 DEF AccInv
<1>2. ASSUME served' = [served EXCEPT ![r] = [pc |-> "verify", id |-> t, row |-> user]],
             UNCHANGED token
      PROVE  AccInv'
  <2> DEFINE n == [pc |-> "verify", id |-> t, row |-> user]
  <2>1. t \in 0..NumTokens  BY AccountAssumption DEF Token
  <2>2. n \in ServedState /\ n.row = user /\ n.pc = "verify"
    BY <2>1 DEF ServedState, RequestPc, AccInv
  <2>3. served' = [served EXCEPT ![r] = n]  BY <1>2
  <2> HIDE DEF n
  <2> QED  BY <1>2, <2>2, <2>3, RequestBegins DEF OpenLink
<1> QED  BY <1>1, <1>2 DEF OpenLink

LEMMA EditUserInv ==
    ASSUME AccInv, NEW r \in AccountRequest, EditUser(r) PROVE AccInv'
<1> DEFINE n == [pc |-> "edit", id |-> 0, row |-> user]
<1>1. 0 \in 0..NumTokens  BY AccountAssumption
<1>2. n \in ServedState /\ n.row = user /\ n.pc = "edit"
  BY <1>1 DEF ServedState, RequestPc, AccInv
<1>3. served' = [served EXCEPT ![r] = n]  BY DEF EditUser
<1> HIDE DEF n
<1> QED  BY <1>2, <1>3, RequestBegins DEF EditUser

\* One column: a mark is not taken back, and does not switch the user on.
LEMMA VerifyInv ==
    ASSUME AccInv, NEW r \in AccountRequest, Verify(r) PROVE AccInv'
<1> DEFINE n == [served[r] EXCEPT !.pc = "spend"]
<1>1. served[r] \in ServedState /\ served[r].pc = "verify"  BY DEF AccInv, Verify
<1>2. n \in ServedState /\ n.row = served[r].row  BY <1>1 DEF ServedState, RequestPc
<1>3. served' = [served EXCEPT ![r] = n]  BY <1>1 DEF Verify, ServedState
<1>4. user \in UserRow  BY DEF AccInv
<1>5. user' \in UserRow /\ user'.is_active = user.is_active
      /\ (user.email_verified => user'.email_verified)
      /\ (served[r].row.email_verified \/ user'.email_verified)
  BY <1>4 DEF Verify, UserRow
<1>6. UNCHANGED <<token, mailed, unsent, deactivated, confirmed, clobbered, lapsed>>
  BY DEF Verify
<1> HIDE DEF n
<1>7. MarksStand'  BY <1>2, <1>3, <1>5, <1>6 DEF AccInv, MarksStand
<1>8. \A q \in AccountRequest : served[q].pc \in {"create", "mail"} => served'[q] = served[q]
  BY <1>1, <1>3 DEF AccInv
<1>9. LinkIsComing'  BY <1>5, <1>6, <1>8 DEF AccInv, LinkIsComing, LiveTokens
<1> QED  BY <1>2, <1>3, <1>5, <1>6, <1>7, <1>9 DEF AccInv

LEMMA SpendLinkInv ==
    ASSUME AccInv, NEW r \in AccountRequest, SpendLink(r) PROVE AccInv'
<1>1. /\ served[r].pc = "spend" /\ served' = [served EXCEPT ![r] = NoAccountRequest]
      /\ UNCHANGED <<user, mailed, unsent, deactivated, clobbered, lapsed>>
      /\ DOMAIN token' = Token
  BY DEF SpendLink, AccInv
<1>2. clobbered \/ user.email_verified  BY <1>1 DEF AccInv, MarksStand
<1>3. MarksStand'  BY <1>1, <1>2, RequestEnds DEF AccInv, MarksStand
<1>4. LinkIsComing'  BY <1>1, <1>2 DEF LinkIsComing
<1> QED  BY <1>1, <1>3, <1>4, RequestEnds DEF AccInv

\* A row that is written back is the one there is, or the edit is noted.
LEMMA SaveUserInv ==
    ASSUME AccInv, NEW r \in AccountRequest, SaveUser(r) PROVE AccInv'
<1>1. /\ served[r].pc = "edit" /\ served' = [served EXCEPT ![r] = NoAccountRequest]
      /\ UNCHANGED <<token, mailed, unsent, deactivated, confirmed, lapsed>>
      /\ user' = served[r].row /\ (clobbered' \/ (user' = user /\ ~clobbered))
  BY DEF SaveUser
<1>2. user' \in UserRow  BY <1>1 DEF AccInv, ServedState
<1>3. CASE clobbered'
  <2>1. MarksStand' /\ LinkIsComing'  BY <1>3 DEF MarksStand, LinkIsComing
  <2> QED  BY <1>1, <1>2, <2>1, RequestEnds DEF AccInv
<1>4. CASE ~clobbered' /\ user' = user /\ ~clobbered
  <2>1. MarksStand'  BY <1>1, <1>4, RequestEnds DEF AccInv, MarksStand
  <2>2. LinkIsComing'  BY <1>1, <1>4, RequestEnds DEF AccInv, LinkIsComing, LiveTokens
  <2> QED  BY <1>1, <1>2, <2>1, <2>2, RequestEnds DEF AccInv
<1> QED  BY <1>1, <1>3, <1>4

LEMMA DeactivateInv ==
    ASSUME AccInv, NEW r \in AccountRequest, Deactivate(r) PROVE AccInv'
<1> DEFINE n == [served[r] EXCEPT !.pc = "deactivate"]
<1>1. served[r] \in ServedState /\ served[r].pc = "idle"  BY DEF AccInv, Deactivate, Idle
<1>2. n \in ServedState /\ n.row = served[r].row /\ n.pc = "deactivate"
  BY <1>1 DEF ServedState, RequestPc
<1>3. served' = [served EXCEPT ![r] = n]  BY <1>1 DEF Deactivate, ServedState
<1>4. UNCHANGED <<user, token, mailed, unsent, deactivated, confirmed, clobbered, lapsed>>
  BY DEF Deactivate
<1> HIDE DEF n
<1>5. MarksStand'  BY <1>2, <1>3, <1>4 DEF AccInv, MarksStand
<1>6. \A q \in AccountRequest : served[q].pc \in {"create", "mail"} => served'[q] = served[q]
  BY <1>1, <1>3 DEF AccInv
<1>7. LinkIsComing'  BY <1>4, <1>6 DEF AccInv, LinkIsComing, LiveTokens
<1> QED  BY <1>2, <1>3, <1>4, <1>5, <1>7 DEF AccInv

LEMMA PerformDestroyInv ==
    ASSUME AccInv, NEW r \in AccountRequest, PerformDestroy(r) PROVE AccInv'
<1>1. /\ served[r].pc = "deactivate" /\ served' = [served EXCEPT ![r] = NoAccountRequest]
      /\ UNCHANGED <<token, mailed, unsent, confirmed, clobbered, lapsed>>
  BY DEF PerformDestroy
<1>2. user' \in UserRow /\ ~user'.is_active /\ user'.email_verified = user.email_verified
  BY DEF PerformDestroy, AccInv, UserRow
<1>3. MarksStand'  BY <1>1, <1>2, RequestEnds DEF AccInv, MarksStand
<1>4. LinkIsComing'  BY <1>1, <1>2, RequestEnds DEF AccInv, LinkIsComing, LiveTokens
<1> QED  BY <1>1, <1>2, <1>3, <1>4, RequestEnds DEF AccInv

-----------------------------------------------------------------------------
LEMMA AccountStep == AccInv /\ [AccountNext]_accountVars => AccInv'
<1> SUFFICES ASSUME AccInv, [AccountNext]_accountVars PROVE AccInv'
  OBVIOUS
<1>1. ASSUME NEW r \in AccountRequest, Resend(r) PROVE AccInv'  BY <1>1, ResendInv
<1>2. ASSUME NEW r \in AccountRequest, CreateToken(r) PROVE AccInv'  BY <1>2, CreateTokenInv
<1>3. ASSUME NEW r \in AccountRequest, MailLink(r) PROVE AccInv'  BY <1>3, MailLinkInv
<1>4. ASSUME NEW r \in AccountRequest, Verify(r) PROVE AccInv'  BY <1>4, VerifyInv
<1>5. ASSUME NEW r \in AccountRequest, SpendLink(r) PROVE AccInv'  BY <1>5, SpendLinkInv
<1>6. ASSUME NEW r \in AccountRequest, EditUser(r) PROVE AccInv'  BY <1>6, EditUserInv
<1>7. ASSUME NEW r \in AccountRequest, SaveUser(r) PROVE AccInv'  BY <1>7, SaveUserInv
<1>8. ASSUME NEW r \in AccountRequest, Deactivate(r) PROVE AccInv'  BY <1>8, DeactivateInv
<1>9. ASSUME NEW r \in AccountRequest, PerformDestroy(r) PROVE AccInv'  BY <1>9, PerformDestroyInv
<1>10. ASSUME NEW r \in AccountRequest, NEW t \in Token, OpenLink(r, t) PROVE AccInv'
  BY <1>10, OpenLinkInv
<1>11. ASSUME NEW t \in Token, ExpireLink(t) PROVE AccInv'  BY <1>11, ExpireLinkInv
<1>12. CASE UNCHANGED accountVars
  BY <1>12 DEF accountVars, AccInv, MarksStand, LinkIsComing, LiveTokens
<1> QED
  BY <1>1, <1>2, <1>3, <1>4, <1>5, <1>6, <1>7, <1>8, <1>9, <1>10, <1>11, <1>12 DEF AccountNext

\* A user told "verified" can sign in and a deactivated one is out, unless an edit wrote back
\* a row from before; and whoever is not verified holds a link that works, however requests
\* for links overlap.
THEOREM AccountsKeepTheirWord == AccountSpec => []AccountInv
BY AccInvSuffices, AccountInitInv, AccountStep, PTL DEF AccountSpec

-----------------------------------------------------------------------------
(* The catalogue.                                                          *)

\* The rows a request can be about exist, or have existed.
RowsWereCreated ==
    /\ active \subseteq created \cap (Product \cup Supplier) /\ sku \subseteq created \cap Sku
    /\ deleted \subseteq created \cap (Product \cup Supplier \cup Sku)
    /\ \A c \in Client : client[c].kind # "idle" /\ client[c].id \notin PO
                            => client[c].id \in created

\* A row is not deleted and active at once.
DeletedIsOff == deleted \cap active = {}

\* While a deletion is between its two statements, and after it, the supplier has no order of
\* the kinds it looked for, except those that came or were written from an earlier read since.
Unowed(s) == \A o \in PO \ late : order[o].status \in OpenStatus => order[o].supplier # s
NobodyIsOwed == \A s \in Supplier : s \in deleted \/ Deleting(s) => Unowed(s)

ClientState == [kind: WriteKind \cup {"idle", "checked"},
            id: Product \cup Supplier \cup Sku \cup PO \cup {"none"},
            seen: OrderStatus \cup {"none"}]
CatalogShape ==
    /\ client \in [Client -> ClientState]
    /\ \A c \in Client : client[c].kind = "edit" /\ client[c].id \in PO
                            => client[c].seen \in OrderStatus
    /\ past \in [PO -> SUBSET OrderStatus]
    /\ order \in [PO -> [status: OrderStatus \cup {"absent"}, supplier: Supplier, sku: Sku]]

CatInv == CatalogShape /\ RowsWereCreated /\ DeletedIsOff /\ NobodyIsOwed

\* The invariant that is checked follows: a supplier that is deleted is owed nothing.
LEMMA CatInvSuffices == CatInv => CatalogInv
<1> SUFFICES ASSUME CatInv PROVE CatalogInv  OBVIOUS
<1>1. ASSUME NEW o \in PO \ late, order[o].status \in OpenStatus PROVE order[o].supplier \notin deleted
  BY <1>1 DEF CatInv, CatalogShape, NobodyIsOwed, Unowed
<1> QED  BY <1>1 DEF CatalogInv, CatInv, DeletedIsOff

LEMMA CatalogInitInv == CatalogInit => CatInv
<1> SUFFICES ASSUME CatalogInit PROVE CatInv  OBVIOUS
<1>1. CatalogShape /\ RowsWereCreated /\ DeletedIsOff
  BY DEF CatalogInit, CatalogShape, ClientState, RowsWereCreated, DeletedIsOff, NoWrite
<1>2. \A o \in PO : order[o].status \notin OpenStatus  BY DEF CatalogInit, OpenStatus
<1>3. NobodyIsOwed  BY <1>2 DEF NobodyIsOwed, Unowed
<1> QED  BY <1>1, <1>3 DEF CatInv

-----------------------------------------------------------------------------
(***************************************************************************)
(* Steps that leave the orders alone and delete no supplier.               *)
(***************************************************************************)
\* One request changes its state and no deletion of a supplier begins.
LEMMA NothingMoreIsOwed ==
    ASSUME CatInv, UNCHANGED <<order, late>>,
           \A s \in Supplier : (s \in deleted \/ Deleting(s))' => (s \in deleted \/ Deleting(s))
    PROVE  NobodyIsOwed'
BY DEF CatInv, NobodyIsOwed, Unowed

LEMMA DoneType ==
    ASSUME CatInv, NEW c \in Client, Done(c)
    PROVE  /\ client' \in [Client -> ClientState]
           /\ \A b \in Client : client'[b] = client[b] \/ client'[b].kind = "idle"
           /\ \A s \in Supplier : Deleting(s)' => Deleting(s)
<1>1. NoWrite \in ClientState /\ NoWrite.kind = "idle"  BY DEF NoWrite, ClientState
<1>2. client' = [client EXCEPT ![c] = NoWrite]  BY DEF Done
<1> QED  BY <1>1, <1>2 DEF CatInv, CatalogShape, Deleting

LEMMA CreateRowInv ==
    ASSUME CatInv, NEW c \in Client, NEW id \in Product \cup Supplier \cup Sku, CreateRow(c, id)
    PROVE  CatInv'
<1>1. CatalogShape'  BY DEF CatInv, CatalogShape, CreateRow
<1>2. RowsWereCreated'  BY DEF CatInv, RowsWereCreated, CreateRow
<1>3. DeletedIsOff'  BY DEF CatInv, RowsWereCreated, DeletedIsOff, CreateRow
<1>4. NobodyIsOwed'  BY NothingMoreIsOwed DEF CreateRow, Deleting
<1> QED  BY <1>1, <1>2, <1>3, <1>4 DEF CatInv

LEMMA FetchInv ==
    ASSUME CatInv, NEW c \in Client, NEW kind \in WriteKind, NEW id \in Fetchable(c),
           Fetch(c, kind, id)
    PROVE  CatInv'
<1> DEFINE n == [kind |-> kind, id |-> id, seen |-> IF id \in PO THEN order[id].status ELSE "none"]
<1>1. client' = [client EXCEPT ![c] = n]  BY DEF Fetch
<1>2. UNCHANGED <<active, created, sku, child, order, past, deleted, late>>  BY DEF Fetch
<1>3. id \in Product \cup Supplier \cup Sku \cup PO /\ (id \notin PO => id \in created)
  BY DEF Fetchable, CatInv, RowsWereCreated
<1>4. id \in PO => order[id].status \in OrderStatus
  BY CatalogAssumption DEF Fetchable, OrderExists, CatInv, CatalogShape, RowsWereCreated
<1>5. n \in ClientState /\ n.kind = kind /\ n.id = id /\ (id \in PO => n.seen \in OrderStatus)
  BY <1>3, <1>4 DEF ClientState
<1> HIDE DEF n
<1>6. CatalogShape'  BY <1>1, <1>2, <1>5 DEF CatInv, CatalogShape
<1>7. RowsWereCreated'  BY <1>1, <1>2, <1>3, <1>5 DEF CatInv, CatalogShape, RowsWereCreated
<1>8. DeletedIsOff'  BY <1>2 DEF CatInv, DeletedIsOff
<1>9. ASSUME NEW s \in Supplier, Deleting(s)' PROVE Deleting(s)
  BY <1>1, <1>5, <1>9 DEF Deleting, CatInv, CatalogShape, WriteKind
<1>10. NobodyIsOwed'  BY <1>2, <1>9, NothingMoreIsOwed
<1> QED  BY <1>6, <1>7, <1>8, <1>10 DEF CatInv

\* The object of a request that is being carried out exists, or did.
LEMMA AskedWasCreated ==
    ASSUME CatInv, NEW c \in Client, NEW kind \in {"edit", "delete", "checked"},
           NEW ids \in {Product, Supplier, Sku, Product \cup Sku}, Asks(c, kind, ids)
    PROVE  client[c].id \in created
BY CatalogAssumption DEF CatInv, RowsWereCreated, Asks

\* A request that ends without writing anything these invariants speak of.
LEMMA UpdateRowInv ==
    ASSUME CatInv, NEW c \in Client, UpdateRow(c) PROVE CatInv'
<1>1. /\ Done(c)
      /\ UNCHANGED <<active, created, sku, child, order, past, deleted, late>>
  BY DEF UpdateRow
<1>2. CatalogShape' /\ RowsWereCreated'
  BY <1>1, DoneType DEF CatInv, CatalogShape, RowsWereCreated
<1>3. DeletedIsOff' /\ NobodyIsOwed'
  BY <1>1, DoneType, NothingMoreIsOwed DEF CatInv, DeletedIsOff
<1> QED  BY <1>2, <1>3 DEF CatInv

LEMMA UpdateSupplierInv ==
    ASSUME CatInv, NEW c \in Client, UpdateSupplier(c) PROVE CatInv'
<1>1. /\ Done(c) /\ UNCHANGED <<created, sku, child, order, past, late>>
      /\ client[c].id \in created \cap Supplier
  BY AskedWasCreated DEF UpdateSupplier, Asks
<1>2. CatalogShape'  BY <1>1, DoneType DEF CatInv, CatalogShape
<1>3. RowsWereCreated'  BY <1>1, DoneType DEF CatInv, RowsWereCreated, UpdateSupplier
<1>4. DeletedIsOff'  BY DEF CatInv, DeletedIsOff, UpdateSupplier
<1>5. deleted' \subseteq deleted  BY DEF UpdateSupplier
<1>6. NobodyIsOwed'  BY <1>1, <1>5, DoneType, NothingMoreIsOwed
<1> QED  BY <1>2, <1>3, <1>4, <1>6 DEF CatInv

LEMMA DeleteProductInv ==
    ASSUME CatInv, NEW c \in Client, DeleteProduct(c) PROVE CatInv'
<1>1. /\ Done(c) /\ UNCHANGED <<created, sku, child, order, past, late>>
      /\ client[c].id \in created \cap Product
  BY AskedWasCreated DEF DeleteProduct, Asks
<1>2. CatalogShape'  BY <1>1, DoneType DEF CatInv, CatalogShape
<1>3. RowsWereCreated'  BY <1>1, DoneType DEF CatInv, RowsWereCreated, DeleteProduct
<1>4. DeletedIsOff'  BY DEF CatInv, DeletedIsOff, DeleteProduct
<1>5. \A s \in Supplier : s \in deleted' => s \in deleted
  BY <1>1, CatalogAssumption DEF DeleteProduct
<1>6. NobodyIsOwed'  BY <1>1, <1>5, DoneType, NothingMoreIsOwed
<1> QED  BY <1>2, <1>3, <1>4, <1>6 DEF CatInv

-----------------------------------------------------------------------------
(***************************************************************************)
(* Steps that move or remove orders.                                       *)
(***************************************************************************)
\* The orders of a deleted SKU are gone, the others as they were.
LEMMA DeleteSkuInv ==
    ASSUME CatInv, NEW c \in Client, DeleteSku(c) PROVE CatInv'
<1> DEFINE k == client[c].id
<1>1. Done(c) /\ UNCHANGED <<active, created, past>> /\ k \in created \cap Sku
  BY AskedWasCreated DEF DeleteSku, Asks
<1>2. /\ order' = [o \in PO |-> IF o \in OrdersOf(k) THEN [order[o] EXCEPT !.status = "absent"]
                                ELSE order[o]]
      /\ deleted' = deleted \cup {k} /\ late' = late \ OrdersOf(k) /\ sku' = sku \ {k}
  BY DEF DeleteSku
<1> HIDE DEF k
<1>3. \A o \in PO : order[o] \in [status: OrderStatus \cup {"absent"}, supplier: Supplier, sku: Sku]
  BY DEF CatInv, CatalogShape
<1>4. CatalogShape'  BY <1>1, <1>2, <1>3, DoneType DEF CatalogShape, CatInv
<1>5. RowsWereCreated'  BY <1>1, <1>2, DoneType DEF CatInv, RowsWereCreated
<1>6. DeletedIsOff'
  BY <1>1, <1>2, CatalogAssumption DEF CatInv, RowsWereCreated, DeletedIsOff
<1>7. ASSUME NEW s \in Supplier, s \in deleted' \/ Deleting(s)' PROVE Unowed(s)'
  <2>1. s \in deleted \/ Deleting(s)  BY <1>1, <1>2, <1>7, CatalogAssumption, DoneType
  <2>2. Unowed(s)  BY <2>1 DEF CatInv, NobodyIsOwed
  <2>3. ASSUME NEW o \in PO \ late', order'[o].status \in OpenStatus PROVE order'[o].supplier # s
    <3>1. o \notin OrdersOf(k)  BY <1>2, <1>3, <2>3 DEF OpenStatus
    <3> QED  BY <1>2, <2>2, <2>3, <3>1 DEF Unowed
  <2> QED  BY <2>3 DEF Unowed
<1>8. NobodyIsOwed'  BY <1>7 DEF NobodyIsOwed
<1> QED  BY <1>4, <1>5, <1>6, <1>8 DEF CatInv

\* The check finds that the supplier is owed nothing, or the deletion is refused.
LEMMA CheckOpenOrdersInv ==
    ASSUME CatInv, NEW c \in Client, CheckOpenOrders(c) PROVE CatInv'
<1> DEFINE i == client[c].id
           found == \E o \in PO : order[o].supplier = i /\ order[o].status \in OpenStatus
           n == [client[c] EXCEPT !.kind = "checked"]
<1>1. client' = [client EXCEPT ![c] = IF found THEN NoWrite ELSE n]  BY DEF CheckOpenOrders
<1>2. UNCHANGED <<active, created, sku, child, order, past, deleted, late>> /\ i \in Supplier
  BY DEF CheckOpenOrders, Asks
<1>3. client[c] \in ClientState /\ client[c].kind = "delete"
  BY DEF CatInv, CatalogShape, CheckOpenOrders, Asks
<1>4. n \in ClientState /\ n.kind = "checked" /\ n.id = i  BY <1>3 DEF ClientState
<1>5. i \in created  BY AskedWasCreated DEF CheckOpenOrders
<1>6. DeletedIsOff'  BY <1>2 DEF CatInv, DeletedIsOff
<1>7. CASE found
  <2>1. Done(c)  BY <1>1, <1>7 DEF Done
  <2>2. CatalogShape' /\ RowsWereCreated'
    BY <1>2, <2>1, DoneType DEF CatInv, CatalogShape, RowsWereCreated
  <2>3. NobodyIsOwed'  BY <1>2, <2>1, DoneType, NothingMoreIsOwed
  <2> QED  BY <1>6, <2>2, <2>3 DEF CatInv
<1>8. CASE ~found
  <2>1. client' = [client EXCEPT ![c] = n]  BY <1>1, <1>8
  <2>2. Unowed(i)  BY <1>8 DEF Unowed
  <2> HIDE DEF n, found, i
  <2>3. CatalogShape'  BY <1>2, <1>4, <2>1 DEF CatInv, CatalogShape
  <2>4. RowsWereCreated'
    BY <1>2, <1>4, <1>5, <2>1 DEF CatInv, CatalogShape, RowsWereCreated
  <2>5. ASSUME NEW s \in Supplier, s \in deleted' \/ Deleting(s)' PROVE Unowed(s)
    <3>1. s \in deleted \/ Deleting(s) \/ s = i
      BY <1>2, <1>4, <2>1, <2>5 DEF Deleting, CatInv, CatalogShape
    <3> QED  BY <2>2, <3>1 DEF CatInv, NobodyIsOwed
  <2>6. NobodyIsOwed'  BY <1>2, <2>5 DEF NobodyIsOwed, Unowed
  <2> QED  BY <1>6, <2>3, <2>4, <2>6 DEF CatInv
<1> QED  BY <1>7, <1>8

\* The second statement: nothing that was not noted came in between.
LEMMA DeleteSupplierInv ==
    ASSUME CatInv, NEW c \in Client, DeleteSupplier(c) PROVE CatInv'
<1>1. /\ Done(c) /\ UNCHANGED <<created, sku, child, order, past, late>>
      /\ client[c].id \in created \cap Supplier /\ client[c].kind = "checked"
  BY AskedWasCreated DEF DeleteSupplier, Asks
<1>2. active' = active \ {client[c].id}  BY DEF DeleteSupplier
<1>3. deleted' \subseteq deleted \cup {client[c].id}  BY DEF DeleteSupplier
<1>4. CatalogShape'  BY <1>1, DoneType DEF CatInv, CatalogShape
<1>5. RowsWereCreated'  BY <1>1, <1>2, <1>3, DoneType DEF CatInv, RowsWereCreated
<1>6. DeletedIsOff'  BY <1>2, <1>3 DEF CatInv, DeletedIsOff
<1>7. \A s \in Supplier : s \in deleted' \/ Deleting(s)' => s \in deleted \/ Deleting(s)
  BY <1>1, <1>3, DoneType DEF Deleting
<1>8. NobodyIsOwed'  BY <1>1, <1>7, NothingMoreIsOwed
<1> QED  BY <1>4, <1>5, <1>6, <1>8 DEF CatInv

\* An order that is written is noted, or its supplier is neither deleted nor being deleted.
LEMMA OrderIsWritten ==
    ASSUME CatInv, NEW o \in PO, NEW s \in Supplier,
           NEW row \in [status: OrderStatus \cup {"absent"}, supplier: Supplier, sku: Sku],
           order' = [order EXCEPT ![o] = row], row.supplier = s,
           late' = Noted(o, s), UNCHANGED deleted, \A t \in Supplier : Deleting(t)' => Deleting(t)
    PROVE  NobodyIsOwed'
<1> SUFFICES ASSUME NEW t \in Supplier, t \in deleted \/ Deleting(t),
                    NEW p \in PO \ late', order'[p].status \in OpenStatus
             PROVE  order'[p].supplier # t
  BY DEF NobodyIsOwed, Unowed
<1>1. Unowed(t)  BY DEF CatInv, NobodyIsOwed
<1>2. CASE p # o
  <2>1. p \notin late  BY <1>2 DEF Noted
  <2> QED  BY <1>1, <1>2, <2>1 DEF Unowed, CatInv, CatalogShape
<1>3. CASE p = o
  <2>1. s \notin deleted /\ ~Deleting(s)  BY <1>3 DEF Noted
  <2>2. order'[p] = row  BY <1>3 DEF CatInv, CatalogShape
  <2> QED  BY <2>1, <2>2
<1> QED  BY <1>2, <1>3

LEMMA DraftInv ==
    ASSUME CatInv, NEW o \in PO, NEW s \in Supplier, NEW k \in Sku, Draft(o, s, k)
    PROVE  CatInv'
<1> DEFINE row == [status |-> "undecided", supplier |-> s, sku |-> k]
<1>1. order' = [order EXCEPT ![o] = row] /\ past' = [past EXCEPT ![o] = {"undecided"}]
  BY DEF Draft
<1>2. /\ UNCHANGED <<active, sku, child, client, deleted>> /\ created' = created \cup {o}
      /\ late' = Noted(o, s)
  BY DEF Draft
<1>3. row \in [status: OrderStatus \cup {"absent"}, supplier: Supplier, sku: Sku] /\ row.supplier = s
  BY DEF OrderStatus, OpenStatus
<1>4. {"undecided"} \in SUBSET OrderStatus  BY DEF OrderStatus, OpenStatus
<1> HIDE DEF row
<1>5. CatalogShape'  BY <1>1, <1>2, <1>3, <1>4 DEF CatInv, CatalogShape
<1>6. RowsWereCreated' /\ DeletedIsOff'  BY <1>2 DEF CatInv, RowsWereCreated, DeletedIsOff
<1>7. NobodyIsOwed'  BY <1>1, <1>2, <1>3, OrderIsWritten DEF Deleting
<1> QED  BY <1>5, <1>6, <1>7 DEF CatInv

\* No transition leads back to the statuses delete_supplier looks for.
LEMMA MovesStayAnswered ==
    ASSUME NEW st \in OrderStatus
    PROVE  /\ LaterStatus(st) \subseteq OrderStatus
           /\ st \notin OpenStatus => LaterStatus(st) \cap OpenStatus = {}
BY DEF LaterStatus, OrderStatus, OpenStatus

\* So only a caller whose read was overtaken opens an order again, and what it writes is noted.
LEMMA MoveInv ==
    ASSUME CatInv, NEW o \in PO, Move(o) PROVE CatInv'
<1>1. PICK read \in past[o] : \E st \in LaterStatus(read) :
        /\ order' = [order EXCEPT ![o].status = st]
        /\ past' = [past EXCEPT ![o] = @ \cup {st}]
        /\ late' = IF read # order[o].status /\ st \in OpenStatus
                   THEN Noted(o, order[o].supplier) ELSE late
  BY DEF Move
<1>2. PICK st \in LaterStatus(read) :
        /\ order' = [order EXCEPT ![o].status = st]
        /\ past' = [past EXCEPT ![o] = @ \cup {st}]
        /\ late' = IF read # order[o].status /\ st \in OpenStatus
                   THEN Noted(o, order[o].supplier) ELSE late
  BY <1>1
<1>3. UNCHANGED <<active, created, sku, child, client, deleted>>  BY DEF Move
<1>4. /\ order[o] \in [status: OrderStatus \cup {"absent"}, supplier: Supplier, sku: Sku]
      /\ past[o] \in SUBSET OrderStatus
  BY DEF CatInv, CatalogShape
<1>5. st \in OrderStatus /\ (read \notin OpenStatus => st \notin OpenStatus)
  BY <1>4, MovesStayAnswered
<1> DEFINE row == [order[o] EXCEPT !.status = st]
           s == order[o].supplier
<1>6. /\ row \in [status: OrderStatus \cup {"absent"}, supplier: Supplier, sku: Sku]
      /\ row.supplier = s /\ row.status = st /\ s \in Supplier
  BY <1>4, <1>5
<1>7. order' = [order EXCEPT ![o] = row]  BY <1>2, <1>4
<1> HIDE DEF row, s
<1>8. ASSUME read # order[o].status, st \in OpenStatus PROVE NobodyIsOwed'
  <2>1. late' = Noted(o, s)  BY <1>2, <1>8 DEF s
  <2> QED  BY <1>3, <1>6, <1>7, <2>1, OrderIsWritten DEF Deleting
<1>9. ASSUME ~(read # order[o].status /\ st \in OpenStatus) PROVE NobodyIsOwed'
  <2>1. late' = late  BY <1>2, <1>9
  <2>2. st \in OpenStatus => order[o].status \in OpenStatus  BY <1>5, <1>9
  <2> SUFFICES ASSUME NEW t \in Supplier, t \in deleted \/ Deleting(t) PROVE Unowed(t)'
    BY <1>3 DEF NobodyIsOwed, Deleting
  <2>3. Unowed(t)  BY DEF CatInv, NobodyIsOwed
  <2> QED  BY <1>6, <1>7, <2>1, <2>2, <2>3 DEF Unowed, CatInv, CatalogShape, s
<1>10. NobodyIsOwed'  BY <1>8, <1>9
<1>11. CatalogShape'  BY <1>2, <1>3, <1>4, <1>5, <1>6, <1>7 DEF CatInv, CatalogShape
<1>12. RowsWereCreated' /\ DeletedIsOff'  BY <1>3 DEF CatInv, RowsWereCreated, DeletedIsOff
<1> QED  BY <1>10, <1>11, <1>12 DEF CatInv

LEMMA EditOrderInv ==
    ASSUME CatInv, NEW c \in Client, EditOrder(c) PROVE CatInv'
<1> DEFINE o == client[c].id
<1>1. /\ Done(c) /\ UNCHANGED <<active, created, sku, child, past, deleted>>
      /\ o \in PO /\ client[c].kind = "edit"
  BY DEF EditOrder, Asks
<1>2. client[c].seen \in OrderStatus  BY <1>1 DEF CatInv, CatalogShape
<1>3. RowsWereCreated' /\ DeletedIsOff'
  BY <1>1, DoneType DEF CatInv, RowsWereCreated, DeletedIsOff
<1>4. ASSUME UNCHANGED <<order, late>> PROVE CatInv'
  <2>1. CatalogShape'  BY <1>1, <1>4, DoneType DEF CatInv, CatalogShape
  <2>2. NobodyIsOwed'  BY <1>1, <1>4, DoneType, NothingMoreIsOwed
  <2> QED  BY <1>3, <2>1, <2>2 DEF CatInv
<1>5. ASSUME NEW s \in created \cap Supplier,
             order' = [order EXCEPT ![o].status = client[c].seen, ![o].supplier = s],
             late' = Noted(o, s)
      PROVE  CatInv'
  <2> DEFINE row == [order[o] EXCEPT !.status = client[c].seen, !.supplier = s]
  <2>1. order[o] \in [status: OrderStatus \cup {"absent"}, supplier: Supplier, sku: Sku]
    BY <1>1 DEF CatInv, CatalogShape
  <2>2. row \in [status: OrderStatus \cup {"absent"}, supplier: Supplier, sku: Sku]
        /\ row.supplier = s
    BY <1>2, <2>1
  <2>3. order' = [order EXCEPT ![o] = row]  BY <1>5, <2>1
  <2> HIDE DEF row, o
  <2>4. CatalogShape'  BY <1>1, <2>2, <2>3, DoneType DEF CatInv, CatalogShape
  <2>5. NobodyIsOwed'  BY <1>1, <1>5, <2>2, <2>3, DoneType, OrderIsWritten
  <2> QED  BY <1>3, <2>4, <2>5 DEF CatInv
<1> QED  BY <1>4, <1>5 DEF EditOrder

LEMMA DeleteOrderInv ==
    ASSUME CatInv, NEW c \in Client, DeleteOrder(c) PROVE CatInv'
<1> DEFINE o == client[c].id
           row == [order[o] EXCEPT !.status = "absent"]
<1>1. /\ Done(c) /\ UNCHANGED <<active, created, sku, child, past, deleted>> /\ o \in PO
      /\ late' = late \ {o} /\ order' = [order EXCEPT ![o].status = "absent"]
  BY DEF DeleteOrder, Asks
<1>2. order[o] \in [status: OrderStatus \cup {"absent"}, supplier: Supplier, sku: Sku]
  BY <1>1 DEF CatInv, CatalogShape
<1>3. row \in [status: OrderStatus \cup {"absent"}, supplier: Supplier, sku: Sku]
      /\ row.status = "absent"
  BY <1>2
<1>4. order' = [order EXCEPT ![o] = row]  BY <1>1, <1>2
<1> HIDE DEF row, o
<1>5. CatalogShape'  BY <1>1, <1>3, <1>4, DoneType DEF CatInv, CatalogShape
<1>6. RowsWereCreated' /\ DeletedIsOff'
  BY <1>1, DoneType DEF CatInv, RowsWereCreated, DeletedIsOff
<1>7. NobodyIsOwed'
  <2> SUFFICES ASSUME NEW s \in Supplier, s \in deleted \/ Deleting(s) PROVE Unowed(s)'
    BY <1>1, DoneType DEF NobodyIsOwed
  <2>1. Unowed(s)  BY DEF CatInv, NobodyIsOwed
  <2> QED  BY <1>1, <1>3, <1>4, <2>1 DEF Unowed, CatInv, CatalogShape, OpenStatus
<1> QED  BY <1>5, <1>6, <1>7 DEF CatInv

-----------------------------------------------------------------------------
LEMMA CatalogStep == CatInv /\ [CatalogNext]_catalogVars => CatInv'
<1> SUFFICES ASSUME CatInv, [CatalogNext]_catalogVars PROVE CatInv'
  OBVIOUS
<1>1. ASSUME NEW c \in Client, NEW id \in Product \cup Supplier \cup Sku, CreateRow(c, id)
      PROVE  CatInv'
  BY <1>1, CreateRowInv
<1>2. ASSUME NEW c \in Client, NEW kind \in WriteKind, NEW id \in Fetchable(c), Fetch(c, kind, id)
      PROVE  CatInv'
  BY <1>2, FetchInv
<1>3. ASSUME NEW c \in Client, UpdateRow(c) PROVE CatInv'  BY <1>3, UpdateRowInv
<1>4. ASSUME NEW c \in Client, UpdateSupplier(c) PROVE CatInv'  BY <1>4, UpdateSupplierInv
<1>5. ASSUME NEW c \in Client, DeleteProduct(c) PROVE CatInv'  BY <1>5, DeleteProductInv
<1>6. ASSUME NEW c \in Client, DeleteSku(c) PROVE CatInv'  BY <1>6, DeleteSkuInv
<1>7. ASSUME NEW c \in Client, CheckOpenOrders(c) PROVE CatInv'  BY <1>7, CheckOpenOrdersInv
<1>8. ASSUME NEW c \in Client, DeleteSupplier(c) PROVE CatInv'  BY <1>8, DeleteSupplierInv
<1>9. ASSUME NEW c \in Client, NEW r \in Child \X sku, CreateChild(c, r) \/ DeleteChild(c, r)
      PROVE  CatInv'
  BY <1>9 DEF CreateChild, DeleteChild, CatInv, CatalogShape, RowsWereCreated, DeletedIsOff,
              NobodyIsOwed, Unowed, Deleting
<1>10. ASSUME NEW c \in Client, EditOrder(c) PROVE CatInv'  BY <1>10, EditOrderInv
<1>11. ASSUME NEW c \in Client, DeleteOrder(c) PROVE CatInv'  BY <1>11, DeleteOrderInv
<1>12. ASSUME NEW o \in PO, Move(o) PROVE CatInv'  BY <1>12, MoveInv
<1>13. ASSUME NEW o \in PO, NEW s \in Supplier, NEW k \in Sku, Draft(o, s, k) PROVE CatInv'
  BY <1>13, DraftInv
<1>14. CASE UNCHANGED catalogVars
  BY <1>14 DEF catalogVars, CatInv, CatalogShape, RowsWereCreated, DeletedIsOff,
               NobodyIsOwed, Unowed, Deleting
<1> QED
  BY <1>1, <1>2, <1>3, <1>4, <1>5, <1>6, <1>7, <1>8, <1>9, <1>10, <1>11, <1>12, <1>13, <1>14
     DEF CatalogNext

\* A deleted supplier has no order of the kinds delete_supplier looks for, unless it came in the
\* meantime or was written from what had been read before, and a deleted product never comes back.
THEOREM DeletionsStand == CatalogSpec => []CatalogInv
BY CatInvSuffices, CatalogInitInv, CatalogStep, PTL DEF CatalogSpec

-----------------------------------------------------------------------------
(* Documents.                                                              *)

RowState == [status: {"absent", "active", "off", "removed"}, total: {0, 1}]

\* An upload never starts a try it does not have.
UploadState == [by: {"none", "web", "command"}, tries: 0..(MaxEmbedTries - 1),
                pc: {"file", "extract", "embed", "write", "count", "failed", "done"}]
TriesAreLeft == upload \in [Doc -> UploadState]

\* The row is created once, by an upload that then leaves its first step for good.
RowsAreCreatedOnce ==
    \A d \in Doc : doc[d].status # "absent" => upload[d].by # "none" /\ upload[d].pc # "file"

\* Only a row that is there is fetched, and no update has fetched what is gone, unless it
\* was overtaken: an update finds none but active rows.
FetchedExist == \A e \in Editor : \A d \in edited[e] : doc[d].status # "absent"
GoneIsLetGo == \A d \in Doc \ overtaken : Gone(d) => ~Fetched(d)

\* So what was deleted when a search began is not switched on again.
DeletedStays == \A s \in Searcher : \A d \in deletedBefore[s] \ overtaken : Gone(d)

SearchesStartEmpty == \A s \in Searcher : search[s].pc = "idle" => search[s].found = {}

DocumentInv ==
    /\ DocumentTypeOK
    /\ TriesAreLeft
    /\ RowsAreCreatedOnce
    /\ FetchedExist
    /\ GoneIsLetGo
    /\ DeletedStays
    /\ SearchesStartEmpty
    /\ DeletedIsNotFound

\* Nothing is created, deleted or found at the start.
LEMMA DocumentInitInv == DocumentInit => DocumentInv
BY DocumentAssumption
   DEF DocumentInit, TriesAreLeft, UploadState, DocumentInv, DocumentTypeOK, RowsAreCreatedOnce,
       FetchedExist, GoneIsLetGo, Gone, Fetched, DeletedStays, SearchesStartEmpty,
       DeletedIsNotFound, NoUpload, NoSearch

\* A row that is written, by an upload that moves on or by a deletion: it stays gone, and
\* once gone it is overtaken if an update has fetched it.
LEMMA RowStep ==
    ASSUME DocumentInv, NEW d \in Doc,
           NEW row \in RowState,
           NEW u \in UploadState,
           doc' = [doc EXCEPT ![d] = row], upload' = [upload EXCEPT ![d] = u],
           row.status # "absent" => u.by # "none" /\ u.pc # "file",
           row.status = "absent" => doc[d].status = "absent",
           Gone(d) => row.status \in {"off", "removed"},
           overtaken \subseteq overtaken', overtaken' \subseteq Doc,
           row.status \in {"off", "removed"} => Gone(d) \/ d \in overtaken' \/ ~Fetched(d),
           chunks' \subseteq Doc, UNCHANGED Others
    PROVE  DocumentInv'
<1> USE DEF Others
<1>1. DocumentTypeOK' /\ TriesAreLeft'
  BY DocumentAssumption DEF DocumentInv, DocumentTypeOK, TriesAreLeft, RowState, UploadState
<1>2. RowsAreCreatedOnce'  BY DEF DocumentInv, DocumentTypeOK, TriesAreLeft, RowsAreCreatedOnce
<1>3. \A c \in Doc : doc'[c] = IF c = d THEN row ELSE doc[c]  BY DEF DocumentInv, DocumentTypeOK
<1>4. \A e \in Editor : edited[e] \subseteq Doc  BY DEF DocumentInv, DocumentTypeOK
<1>5. FetchedExist'  BY <1>3, <1>4 DEF DocumentInv, FetchedExist
<1>6. GoneIsLetGo'  BY <1>3 DEF DocumentInv, GoneIsLetGo, Gone, Fetched
<1>7. \A s \in Searcher : deletedBefore[s] \subseteq Doc  BY DEF DocumentInv, DocumentTypeOK
<1>8. DeletedStays'  BY <1>3, <1>7 DEF DocumentInv, DeletedStays, Gone
<1>9. SearchesStartEmpty' /\ DeletedIsNotFound'
  BY DEF DocumentInv, SearchesStartEmpty, DeletedIsNotFound
<1> QED  BY <1>1, <1>2, <1>5, <1>6, <1>8, <1>9 DEF DocumentInv

\* The same for an upload that leaves its row alone.
LEMMA UploadMoves ==
    ASSUME DocumentInv, NEW d \in Doc,
           NEW pc \in {"extract", "embed", "write", "count", "failed", "done"},
           upload[d].by # "none", GotoUpload(d, pc),
           chunks' \subseteq Doc, UNCHANGED <<doc, overtaken, Others>>
    PROVE  DocumentInv'
<1> DEFINE u == [upload[d] EXCEPT !.pc = pc, !.tries = 0]
<1>1. upload[d] \in UploadState  BY DEF DocumentInv, TriesAreLeft
<1>2. u \in UploadState
  <2>1. 0 \in 0..(MaxEmbedTries - 1)  BY DocumentAssumption
  <2> QED  BY <1>1, <2>1 DEF UploadState
<1>3. upload' = [upload EXCEPT ![d] = u]  BY <1>1 DEF GotoUpload, UploadState
<1>4. u.by # "none" /\ u.pc # "file"  BY <1>1 DEF UploadState
<1>5. doc[d] \in RowState
      /\ doc' = [doc EXCEPT ![d] = doc[d]]
  BY DEF DocumentInv, DocumentTypeOK, RowState
<1>6. overtaken' = overtaken /\ overtaken \subseteq Doc  BY DEF DocumentInv, DocumentTypeOK
<1> HIDE DEF u
<1> QED  BY <1>2, <1>3, <1>4, <1>5, <1>6, RowStep DEF Gone

\* And for one whose row changes as it moves on.
LEMMA UploadWrites ==
    ASSUME DocumentInv, NEW d \in Doc, NEW pc \in {"extract", "done"},
           NEW row \in RowState,
           upload[d].by # "none", GotoUpload(d, pc),
           doc' = [doc EXCEPT ![d] = row], row.status # "absent",
           Gone(d) => row.status \in {"off", "removed"},
           \/ UNCHANGED overtaken /\ (row.status \in {"off", "removed"} => Gone(d))
           \/ Overtaking(d),
           chunks' \subseteq Doc, UNCHANGED Others
    PROVE  DocumentInv'
<1> DEFINE u == [upload[d] EXCEPT !.pc = pc, !.tries = 0]
<1>1. upload[d] \in UploadState  BY DEF DocumentInv, TriesAreLeft
<1>2. u \in UploadState
  <2>1. 0 \in 0..(MaxEmbedTries - 1)  BY DocumentAssumption
  <2> QED  BY <1>1, <2>1 DEF UploadState
<1>3. upload' = [upload EXCEPT ![d] = u]  BY <1>1 DEF GotoUpload, UploadState
<1>4. u.by # "none" /\ u.pc # "file"  BY <1>1 DEF UploadState
<1>5. overtaken \subseteq Doc  BY DEF DocumentInv, DocumentTypeOK
<1>6. overtaken \subseteq overtaken' /\ overtaken' \subseteq Doc  BY <1>5 DEF Overtaking
<1>7. row.status \in {"off", "removed"} => Gone(d) \/ d \in overtaken' \/ ~Fetched(d)
  BY DEF Overtaking
<1> HIDE DEF u
<1> QED  BY <1>2, <1>3, <1>4, <1>6, <1>7, RowStep

LEMMA DocRow ==
    ASSUME DocumentInv, NEW d \in Doc
    PROVE  doc[d] \in RowState
BY DEF DocumentInv, DocumentTypeOK, RowState

LEMMA BeginUploadInv ==
    ASSUME DocumentInv, NEW d \in Doc, NEW by \in {"web", "command"}, BeginUpload(d, by)
    PROVE  DocumentInv'
<1> DEFINE u == [NoUpload EXCEPT !.by = by]
<1>1. u \in UploadState
  BY DocumentAssumption DEF NoUpload, UploadState
<1>2. upload' = [upload EXCEPT ![d] = u]  BY DEF BeginUpload
<1>3. doc[d].status = "absent"
  BY DEF DocumentInv, RowsAreCreatedOnce, BeginUpload, NoUpload
<1>4. doc' = [doc EXCEPT ![d] = doc[d]] /\ chunks' \subseteq Doc /\ overtaken \subseteq Doc
  BY DEF DocumentInv, DocumentTypeOK, BeginUpload
<1>5. UNCHANGED <<overtaken, Others>>  BY DEF BeginUpload
<1> HIDE DEF u
<1> QED  BY <1>1, <1>2, <1>3, <1>4, <1>5, DocRow, RowStep DEF Gone

LEMMA CreateDocumentInv ==
    ASSUME DocumentInv, NEW d \in Doc, CreateDocument(d) PROVE DocumentInv'
<1> DEFINE row == [doc[d] EXCEPT !.status = "active"]
<1>1. doc[d].status = "absent" /\ upload[d].by # "none"
  BY DEF DocumentInv, RowsAreCreatedOnce, CreateDocument, AtUpload
<1>2. row \in RowState /\ row.status = "active"  BY DocRow DEF RowState
<1>3. doc' = [doc EXCEPT ![d] = row]  BY DocRow DEF CreateDocument, RowState
<1>4. GotoUpload(d, "extract") /\ UNCHANGED <<chunks, overtaken, Others>>  BY DEF CreateDocument
<1>5. ~Gone(d) /\ chunks' \subseteq Doc  BY <1>1, <1>4 DEF Gone, DocumentInv, DocumentTypeOK
<1> HIDE DEF row
<1> QED  BY <1>1, <1>2, <1>3, <1>4, <1>5, UploadWrites

\* A document whose upload has left its first step for the last ones has a row.
LEMMA SaveCountInv ==
    ASSUME DocumentInv, NEW d \in Doc, SaveCount(d) PROVE DocumentInv'
<1> DEFINE row == [doc[d] EXCEPT !.total = 1]
           u == [upload[d] EXCEPT !.pc = "done", !.tries = 0]
<1>1. row \in RowState
      /\ row.status = doc[d].status
  BY DocRow DEF RowState
<1>2. doc' = [doc EXCEPT ![d] = row]  BY DocRow DEF SaveCount, RowState
<1>3. GotoUpload(d, "done") /\ upload[d].by # "none" /\ UNCHANGED <<chunks, overtaken, Others>>
  BY DEF SaveCount, AtUpload
<1>4. upload[d] \in UploadState  BY DEF DocumentInv, TriesAreLeft
<1>5. u \in UploadState
  <2>1. 0 \in 0..(MaxEmbedTries - 1)  BY DocumentAssumption
  <2> QED  BY <1>4, <2>1 DEF UploadState
<1>6. upload' = [upload EXCEPT ![d] = u] /\ u.by # "none" /\ u.pc # "file"
  BY <1>3, <1>4 DEF GotoUpload, UploadState
<1>7. overtaken \subseteq Doc /\ chunks' \subseteq Doc  BY <1>3 DEF DocumentInv, DocumentTypeOK
<1> HIDE DEF row, u
<1> QED  BY <1>1, <1>2, <1>3, <1>5, <1>6, <1>7, RowStep DEF Gone

LEMMA FailInv ==
    ASSUME DocumentInv, NEW d \in Doc, Fail(d) PROVE DocumentInv'
<1>1. upload[d].by # "none" /\ GotoUpload(d, "done") /\ UNCHANGED Others  BY DEF Fail, AtUpload
<1>2. chunks' \subseteq Doc  BY DEF Fail, DocumentInv, DocumentTypeOK
<1>3. CASE upload[d].by = "command"
  <2> DEFINE row == [doc[d] EXCEPT !.status = "removed"]
  <2>1. row \in RowState /\ row.status = "removed"  BY DocRow DEF RowState
  <2>2. doc' = [doc EXCEPT ![d] = row]  BY <1>3, DocRow DEF Fail, RowState
  <2>3. Overtaking(d)  BY <1>3 DEF Fail
  <2> HIDE DEF row
  <2> QED  BY <1>1, <1>2, <2>1, <2>2, <2>3, UploadWrites
<1>4. CASE upload[d].by # "command"  BY <1>1, <1>2, <1>4, UploadMoves DEF Fail
<1> QED  BY <1>3, <1>4

LEMMA EmbedFailsInv ==
    ASSUME DocumentInv, NEW d \in Doc, EmbedFails(d) PROVE DocumentInv'
<1>1. upload[d].by # "none" /\ upload[d].pc = "embed"  BY DEF EmbedFails, AtUpload
<1>2. UNCHANGED <<doc, overtaken, Others>> /\ chunks' \subseteq Doc /\ overtaken \subseteq Doc
  BY DEF EmbedFails, DocumentInv, DocumentTypeOK
<1>3. ASSUME upload[d].tries + 1 = MaxEmbedTries PROVE DocumentInv'
  <2>1. GotoUpload(d, "failed")  BY <1>3 DEF EmbedFails
  <2> QED  BY <1>1, <1>2, <2>1, UploadMoves
<1>4. ASSUME upload[d].tries + 1 # MaxEmbedTries PROVE DocumentInv'
  <2> DEFINE u == [upload[d] EXCEPT !.tries = @ + 1]
  <2>1. upload[d] \in UploadState  BY DEF DocumentInv, TriesAreLeft
  <2>2. u \in UploadState  BY <1>4, <2>1, DocumentAssumption DEF UploadState
  <2>3. upload' = [upload EXCEPT ![d] = u]  BY <1>4, <2>1 DEF EmbedFails, UploadState
  <2>4. u.by # "none" /\ u.pc # "file"  BY <1>1, <2>1 DEF UploadState
  <2>5. doc' = [doc EXCEPT ![d] = doc[d]]  BY <1>2 DEF DocumentInv, DocumentTypeOK
  <2> HIDE DEF u
  <2> QED  BY <1>2, <2>2, <2>3, <2>4, <2>5, DocRow, RowStep DEF Gone
<1> QED  BY <1>3, <1>4

LEMMA DestroyDocumentInv ==
    ASSUME DocumentInv, NEW d \in Doc, DestroyDocument(d) PROVE DocumentInv'
<1> DEFINE row == [doc[d] EXCEPT !.status = "off"]
<1>1. row \in RowState /\ row.status = "off"  BY DocRow DEF RowState
<1>2. doc' = [doc EXCEPT ![d] = row]  BY DocRow DEF DestroyDocument, RowState
<1>3. upload[d] \in UploadState  BY DEF DocumentInv, TriesAreLeft
<1>4. upload' = [upload EXCEPT ![d] = upload[d]]  BY DEF DestroyDocument, DocumentInv, TriesAreLeft
<1>5. upload[d].by # "none" /\ upload[d].pc # "file"
  BY DEF DocumentInv, RowsAreCreatedOnce, DestroyDocument
<1>6. chunks' \subseteq Doc /\ overtaken \subseteq Doc /\ UNCHANGED Others
  BY DEF DestroyDocument, DocumentInv, DocumentTypeOK
<1>7. overtaken \subseteq overtaken' /\ overtaken' \subseteq Doc /\ (d \in overtaken' \/ ~Fetched(d))
  BY <1>6 DEF DestroyDocument, Overtaking
<1> HIDE DEF row
<1> QED  BY <1>1, <1>2, <1>3, <1>4, <1>5, <1>6, <1>7, RowStep

-----------------------------------------------------------------------------
\* An update fetches what is active, and so nothing that is gone.
LEMMA FetchDocumentInv ==
    ASSUME DocumentInv, NEW e \in Editor, NEW d \in Doc, FetchDocument(e, d) PROVE DocumentInv'
<1>1. UNCHANGED <<doc, chunks, upload, search, deletedBefore, overtaken>>  BY DEF FetchDocument
<1>2. \A f \in Editor : edited'[f] = IF f = e THEN {d} ELSE edited[f]
  BY DEF FetchDocument, DocumentInv, DocumentTypeOK
<1>3. doc[d].status = "active"  BY DEF FetchDocument
<1>4. DocumentTypeOK'
  <2>1. edited' \in [Editor -> SUBSET Doc]  BY DEF FetchDocument, DocumentInv, DocumentTypeOK
  <2> QED  BY <1>1, <2>1 DEF DocumentInv, DocumentTypeOK
<1>5. FetchedExist'  BY <1>1, <1>2, <1>3 DEF DocumentInv, FetchedExist
<1>6. GoneIsLetGo'  BY <1>1, <1>2, <1>3 DEF DocumentInv, GoneIsLetGo, Gone, Fetched
<1> QED
  BY <1>1, <1>4, <1>5, <1>6
     DEF DocumentInv, TriesAreLeft, RowsAreCreatedOnce, DeletedStays, Gone, SearchesStartEmpty,
         DeletedIsNotFound

\* An update that is saved brings back only what it had fetched: what is not gone, or was
\* overtaken.
LEMMA SaveDocumentInv ==
    ASSUME DocumentInv, NEW e \in Editor, NEW d \in Doc, SaveDocument(e, d) PROVE DocumentInv'
<1>1. UNCHANGED <<chunks, upload, search, deletedBefore>> /\ d \in edited[e]  BY DEF SaveDocument
<1>2. \A f \in Editor : edited'[f] = IF f = e THEN {} ELSE edited[f]
  BY DEF SaveDocument, DocumentInv, DocumentTypeOK
<1>3. edited' \in [Editor -> SUBSET Doc]  BY DEF SaveDocument, DocumentInv, DocumentTypeOK
<1>4. \A f \in Editor : edited[f] \subseteq Doc /\ edited'[f] \subseteq edited[f]
  BY <1>2 DEF DocumentInv, DocumentTypeOK
<1>5. CASE UNCHANGED <<doc, overtaken>>
  <2>1. DocumentTypeOK'  BY <1>1, <1>3, <1>5 DEF DocumentInv, DocumentTypeOK
  <2>2. FetchedExist' /\ GoneIsLetGo'
    BY <1>4, <1>5 DEF DocumentInv, FetchedExist, GoneIsLetGo, Gone, Fetched
  <2> QED
    BY <1>1, <1>5, <2>1, <2>2
       DEF DocumentInv, TriesAreLeft, RowsAreCreatedOnce, DeletedStays, Gone, SearchesStartEmpty,
           DeletedIsNotFound
<1>6. ASSUME NEW row \in [status: {"active", "off"}, total: {0, 1}],
             doc' = [doc EXCEPT ![d] = row],
             overtaken' = IF row.status = "off" /\ \E other \in Editor \ {e} : d \in edited[other]
                          THEN overtaken \cup {d} ELSE overtaken
      PROVE  DocumentInv'
  <2>1. \A c \in Doc : doc'[c] = IF c = d THEN row ELSE doc[c]
    BY <1>6 DEF DocumentInv, DocumentTypeOK
  <2>2. overtaken \subseteq overtaken' /\ overtaken' \subseteq Doc
    BY <1>6 DEF DocumentInv, DocumentTypeOK
  <2>3. doc' \in [Doc -> [status: {"absent", "active", "off", "removed"}, total: {0, 1}]]
    BY <1>6 DEF DocumentInv, DocumentTypeOK
  <2>4. DocumentTypeOK'  BY <1>1, <1>3, <2>2, <2>3 DEF DocumentInv, DocumentTypeOK
  <2>5. doc[d].status # "absent"  BY <1>1 DEF DocumentInv, FetchedExist
  <2>6. RowsAreCreatedOnce'  BY <1>1, <2>1, <2>5 DEF DocumentInv, RowsAreCreatedOnce
  <2>7. FetchedExist'  BY <1>4, <1>6, <2>1 DEF DocumentInv, FetchedExist
  <2>8. row.status = "off" => d \in overtaken' \/ \A f \in Editor : d \notin edited'[f]
    BY <1>2, <1>6
  <2>9. GoneIsLetGo'
    BY <1>4, <1>6, <2>1, <2>2, <2>8 DEF DocumentInv, GoneIsLetGo, Gone, Fetched
  <2>10. d \notin overtaken => ~Gone(d)  BY <1>1 DEF DocumentInv, GoneIsLetGo, Fetched
  <2>11. \A s \in Searcher : deletedBefore[s] \subseteq Doc  BY DEF DocumentInv, DocumentTypeOK
  <2>12. DeletedStays'
    BY <1>1, <2>1, <2>2, <2>10, <2>11 DEF DocumentInv, DeletedStays, Gone
  <2>13. TriesAreLeft' /\ SearchesStartEmpty' /\ DeletedIsNotFound'
    BY <1>1, <2>2 DEF DocumentInv, TriesAreLeft, SearchesStartEmpty, DeletedIsNotFound
  <2> QED  BY <2>4, <2>6, <2>7, <2>9, <2>12, <2>13 DEF DocumentInv
<1> QED  BY <1>5, <1>6 DEF SaveDocument

-----------------------------------------------------------------------------
LEMMA BeginSearchInv ==
    ASSUME DocumentInv, NEW s \in Searcher, BeginSearch(s) PROVE DocumentInv'
<1>1. UNCHANGED <<doc, chunks, upload, edited, overtaken>>  BY DEF BeginSearch
<1>2. DocumentTypeOK' /\ TriesAreLeft' /\ RowsAreCreatedOnce'
  BY DEF DocumentInv, DocumentTypeOK, TriesAreLeft, RowsAreCreatedOnce, BeginSearch
<1>3. FetchedExist' /\ GoneIsLetGo'
  BY <1>1 DEF DocumentInv, FetchedExist, GoneIsLetGo, Gone, Fetched
<1>4. DeletedStays'  BY DEF DocumentInv, DocumentTypeOK, DeletedStays, Gone, BeginSearch
<1>5. search[s].found = {}  BY DEF DocumentInv, SearchesStartEmpty, BeginSearch
<1>6. SearchesStartEmpty' /\ DeletedIsNotFound'
  BY <1>5 DEF DocumentInv, DocumentTypeOK, SearchesStartEmpty, DeletedIsNotFound, BeginSearch
<1> QED  BY <1>2, <1>3, <1>4, <1>6 DEF DocumentInv

\* Both queries leave out what is switched off at their time, and so what was at the beginning.
LEMMA QueryChunksInv ==
    ASSUME DocumentInv, NEW s \in Searcher, NEW pc \in {"dense", "sparse"},
           NEW next \in {"sparse", "merged"}, QueryChunks(s, pc, next)
    PROVE  DocumentInv'
<1>1. PICK found \in SUBSET Findable :
         search' = [search EXCEPT ![s] = [pc |-> next, found |-> @.found \cup found]]
  BY DEF QueryChunks
<1>2. UNCHANGED <<doc, chunks, upload, edited, deletedBefore, overtaken>>  BY DEF QueryChunks
<1>3. found \cap deletedBefore[s] \subseteq overtaken
  BY DEF DocumentInv, DeletedStays, Gone, Findable
<1>4. found \subseteq Doc  BY DEF Findable, DocumentInv, DocumentTypeOK
<1>5. DocumentTypeOK'  BY <1>1, <1>2, <1>4 DEF DocumentInv, DocumentTypeOK
<1>6. TriesAreLeft' /\ RowsAreCreatedOnce' /\ FetchedExist' /\ GoneIsLetGo' /\ DeletedStays'
  BY <1>2
     DEF DocumentInv, TriesAreLeft, RowsAreCreatedOnce, FetchedExist, GoneIsLetGo, DeletedStays,
         Gone, Fetched
<1>7. SearchesStartEmpty'  BY <1>1 DEF DocumentInv, DocumentTypeOK, SearchesStartEmpty
<1>8. DeletedIsNotFound'  BY <1>1, <1>2, <1>3 DEF DocumentInv, DocumentTypeOK, DeletedIsNotFound
<1> QED  BY <1>5, <1>6, <1>7, <1>8 DEF DocumentInv

LEMMA HandOverInv ==
    ASSUME DocumentInv, NEW s \in Searcher, HandOver(s) PROVE DocumentInv'
<1>1. UNCHANGED <<doc, chunks, upload, edited, overtaken>>  BY DEF HandOver
<1>2. FetchedExist' /\ GoneIsLetGo'
  BY <1>1 DEF DocumentInv, FetchedExist, GoneIsLetGo, Gone, Fetched
<1> QED
  BY <1>1, <1>2
     DEF DocumentInv, DocumentTypeOK, TriesAreLeft, RowsAreCreatedOnce, DeletedStays, Gone,
         SearchesStartEmpty, DeletedIsNotFound, HandOver, NoSearch

-----------------------------------------------------------------------------
LEMMA DocumentStep == DocumentInv /\ [DocumentNext]_documentVars => DocumentInv'
<1> SUFFICES ASSUME DocumentInv, [DocumentNext]_documentVars PROVE DocumentInv'
  OBVIOUS
<1>1. chunks \subseteq Doc  BY DEF DocumentInv, DocumentTypeOK
<1>2. ASSUME NEW d \in Doc, NEW by \in {"web", "command"}, BeginUpload(d, by) PROVE DocumentInv'
  BY <1>2, BeginUploadInv
<1>3. ASSUME NEW d \in Doc, StoreFails(d) PROVE DocumentInv'
  BY <1>1, <1>3, UploadMoves DEF StoreFails, AtUpload
<1>4. ASSUME NEW d \in Doc, CreateDocument(d) PROVE DocumentInv'  BY <1>4, CreateDocumentInv
<1>5. ASSUME NEW d \in Doc, Extract(d) PROVE DocumentInv'
  BY <1>1, <1>5, UploadMoves DEF Extract, AtUpload
<1>6. ASSUME NEW d \in Doc, Embed(d) PROVE DocumentInv'
  BY <1>1, <1>6, UploadMoves DEF Embed, AtUpload
<1>7. ASSUME NEW d \in Doc, EmbedFails(d) PROVE DocumentInv'  BY <1>7, EmbedFailsInv
<1>8. ASSUME NEW d \in Doc, WriteChunks(d) PROVE DocumentInv'
  <2>1. chunks' \subseteq Doc /\ UNCHANGED <<doc, overtaken, Others>> /\ upload[d].by # "none"
    BY <1>1, <1>8 DEF WriteChunks, AtUpload
  <2>2. GotoUpload(d, "count") \/ GotoUpload(d, "failed")  BY <1>8 DEF WriteChunks
  <2> QED  BY <2>1, <2>2, UploadMoves
<1>9. ASSUME NEW d \in Doc, SaveCount(d) PROVE DocumentInv'  BY <1>9, SaveCountInv
<1>10. ASSUME NEW d \in Doc, Fail(d) PROVE DocumentInv'  BY <1>10, FailInv
<1>11. ASSUME NEW d \in Doc, KillUpload(d) PROVE DocumentInv'
  BY <1>1, <1>11, UploadMoves DEF KillUpload
<1>12. ASSUME NEW d \in Doc, DestroyDocument(d) PROVE DocumentInv'  BY <1>12, DestroyDocumentInv
<1>13. ASSUME NEW s \in Searcher, BeginSearch(s) PROVE DocumentInv'  BY <1>13, BeginSearchInv
<1>14. ASSUME NEW s \in Searcher, DenseSearch(s) \/ SparseSearch(s) PROVE DocumentInv'
  BY <1>14, QueryChunksInv DEF DenseSearch, SparseSearch
<1>15. ASSUME NEW s \in Searcher, HandOver(s) PROVE DocumentInv'  BY <1>15, HandOverInv
<1>16. ASSUME NEW e \in Editor, NEW d \in Doc, FetchDocument(e, d) PROVE DocumentInv'
  BY <1>16, FetchDocumentInv
<1>17. ASSUME NEW e \in Editor, NEW d \in Doc, SaveDocument(e, d) PROVE DocumentInv'
  BY <1>17, SaveDocumentInv
<1>18. CASE UNCHANGED documentVars
  BY <1>18 DEF documentVars, DocumentInv, DocumentTypeOK, TriesAreLeft, RowsAreCreatedOnce,
               FetchedExist, GoneIsLetGo, Gone, Fetched, DeletedStays, SearchesStartEmpty,
               DeletedIsNotFound
<1> QED
  BY <1>2, <1>3, <1>4, <1>5, <1>6, <1>7, <1>8, <1>9, <1>10, <1>11, <1>12, <1>13, <1>14, <1>15,
     <1>16, <1>17, <1>18 DEF DocumentNext

\* A search that begins after a document was deleted finds none of its chunks, whatever
\* uploads write and however often any of them fails or is killed, unless an update had
\* fetched the document when it was deleted.
THEOREM DeletedDocumentsAreNotFound == DocumentSpec => []DeletedIsNotFound
<1>1. DocumentInv => DeletedIsNotFound  BY DEF DocumentInv
<1> QED  BY <1>1, DocumentInitInv, DocumentStep, PTL DEF DocumentSpec

=============================================================================
