------------------------------ MODULE Accounts ------------------------------
(***************************************************************************)
(* A user's account: registration, the mailed verification links, sign-in, *)
(* the edits of the user (PATCH /me) and of an administrator (role), and   *)
(* deactivation.  Every request reads the user and writes it a statement   *)
(* later; verification and deactivation write one column, the edits the    *)
(* whole row.                                                              *)
(***************************************************************************)
EXTENDS Integers, FiniteSets

CONSTANTS
    AccountRequest, \* requests that are served at one time
    NumTokens       \* ids of the EmailVerificationToken table: bounds the model

ASSUME AccountAssumption == NumTokens \in Nat

Token == 1..NumTokens

VARIABLES
    user,        \* is_active and email_verified
    token,       \* [Token -> "unborn", "live", "expired", "gone"]
    mailed,      \* tokens that were mailed
    served,      \* [AccountRequest -> step, the token it is about, the row it read]
    unsent,      \* a mail could be neither queued nor sent (history)
    lapsed,      \* a link was left to expire (history)
    deactivated, \* an administrator's deactivation was answered 200 (history)
    confirmed,   \* a verification was answered 200 (history)
    clobbered    \* an edit wrote back a row it had read before one of these (history)

accountVars == <<user, token, mailed, served, unsent, lapsed, deactivated, confirmed, clobbered>>

UserRow == [is_active: BOOLEAN, email_verified: BOOLEAN]

AccountTypeOK ==
    /\ user \in UserRow
    /\ token \in [Token -> {"unborn", "live", "expired", "gone"}]
    /\ mailed \subseteq Token
    /\ served \in [AccountRequest -> [pc: {"idle", "create", "mail", "verify", "spend", "edit", "deactivate"},
                                id: 0..NumTokens, row: UserRow]]
    /\ unsent \in BOOLEAN /\ lapsed \in BOOLEAN /\ deactivated \in BOOLEAN /\ confirmed \in BOOLEAN /\ clobbered \in BOOLEAN

Fresh == [is_active |-> TRUE, email_verified |-> FALSE]
NoAccountRequest == [pc |-> "idle", id |-> 0, row |-> Fresh]

\* RegisterView has created the user and is about to create the first token.
AccountInit ==
    /\ user = Fresh
    /\ token = [t \in Token |-> "unborn"]
    /\ mailed = {} /\ unsent = FALSE /\ lapsed = FALSE
    /\ deactivated = FALSE /\ confirmed = FALSE /\ clobbered = FALSE
    /\ \E r \in AccountRequest : served = [q \in AccountRequest |->
                            IF q = r THEN [NoAccountRequest EXCEPT !.pc = "create"] ELSE NoAccountRequest]

Idle(r) == served[r].pc = "idle"
Unborn == {t \in Token : token[t] = "unborn"}
Creating == {r \in AccountRequest : served[r].pc = "create"}
LiveTokens == {t \in Token : token[t] = "live"}

-----------------------------------------------------------------------------
\* ResendVerificationView, for a user who is not verified: generate_verification_token
\* deletes the user's links ...
Resend(r) ==
    /\ Idle(r) /\ ~user.email_verified
    /\ Cardinality(Unborn) > Cardinality(Creating)
    /\ token' = [t \in Token |-> IF token[t] \in {"live", "expired"} THEN "gone" ELSE token[t]]
    /\ served' = [served EXCEPT ![r].pc = "create"]
    /\ UNCHANGED <<user, mailed, unsent, deactivated, confirmed, clobbered, lapsed>>

\* ... and creates a new one.  Nothing keeps another request from doing so in between.
CreateToken(r) ==
    /\ served[r].pc = "create"
    /\ \E t \in Unborn :
        /\ \A u \in Unborn : t <= u
        /\ token' = [token EXCEPT ![t] = "live"]
        /\ served' = [served EXCEPT ![r].pc = "mail", ![r].id = t]
    /\ UNCHANGED <<user, mailed, unsent, deactivated, confirmed, clobbered, lapsed>>

\* send_verification_email queues the link or, without a broker, sends it; if both fail
\* RegisterView logs it and answers 201, ResendVerificationView answers 500.
MailLink(r) ==
    /\ served[r].pc = "mail"
    /\ \/ mailed' = mailed \cup {served[r].id} /\ UNCHANGED unsent
       \/ unsent' = TRUE /\ UNCHANGED mailed
    /\ served' = [served EXCEPT ![r] = NoAccountRequest]
    /\ UNCHANGED <<user, token, deactivated, confirmed, clobbered, lapsed>>

\* VERIFICATION_TOKEN_TTL_HOURS have passed.
ExpireLink(t) ==
    /\ token[t] = "live"
    /\ token' = [token EXCEPT ![t] = "expired"]
    /\ lapsed' = TRUE
    /\ UNCHANGED <<user, mailed, served, unsent, deactivated, confirmed, clobbered>>

\* verify_email_token finds the link (a dead one is answered 400); an expired one is deleted;
\* the user is read along with it.
OpenLink(r, t) ==
    /\ Idle(r) /\ t \in mailed
    /\ \/ /\ token[t] = "expired"
          /\ token' = [token EXCEPT ![t] = "gone"]
          /\ UNCHANGED served
       \/ /\ token[t] = "live"
          /\ served' = [served EXCEPT ![r] = [pc |-> "verify", id |-> t, row |-> user]]
          /\ UNCHANGED token
    /\ UNCHANGED <<user, mailed, unsent, deactivated, confirmed, clobbered, lapsed>>

\* Faulty: the whole user is saved.
VerifySavesUser(r) ==
    /\ served[r].pc = "verify"
    /\ user' = [served[r].row EXCEPT !.email_verified = TRUE]
    /\ served' = [served EXCEPT ![r].pc = "spend"]
    /\ UNCHANGED <<token, mailed, unsent, deactivated, confirmed, clobbered, lapsed>>

\* The user is marked, one column, unless the row read said so already ...
Verify(r) ==
    /\ served[r].pc = "verify"
    /\ user' = IF served[r].row.email_verified THEN user ELSE [user EXCEPT !.email_verified = TRUE]
    /\ served' = [served EXCEPT ![r].pc = "spend"]
    /\ UNCHANGED <<token, mailed, unsent, deactivated, confirmed, clobbered, lapsed>>

\* ... the link is deleted, and the answer is 200.
SpendLink(r) ==
    /\ served[r].pc = "spend"
    /\ token' = [token EXCEPT ![served[r].id] = "gone"]
    /\ confirmed' = TRUE
    /\ served' = [served EXCEPT ![r] = NoAccountRequest]
    /\ UNCHANGED <<user, mailed, unsent, deactivated, clobbered, lapsed>>

\* PATCH /me of the user, or an administrator's change of the role (which needs neither a
\* verified nor an active user), reads the row ...
EditUser(r) ==
    /\ Idle(r)
    /\ served' = [served EXCEPT ![r] = [pc |-> "edit", id |-> 0, row |-> user]]
    /\ UNCHANGED <<user, token, mailed, unsent, deactivated, confirmed, clobbered, lapsed>>

\* ... and save all of its columns.
SaveUser(r) ==
    /\ served[r].pc = "edit"
    /\ user' = served[r].row
    /\ clobbered' = (clobbered \/ user # served[r].row)
    /\ served' = [served EXCEPT ![r] = NoAccountRequest]
    /\ UNCHANGED <<token, mailed, unsent, deactivated, confirmed, lapsed>>

\* UserDetailView.destroy: an inactive user is answered 400 ...
Deactivate(r) ==
    /\ Idle(r) /\ user.is_active
    /\ served' = [served EXCEPT ![r].pc = "deactivate"]
    /\ UNCHANGED <<user, token, mailed, unsent, deactivated, confirmed, clobbered, lapsed>>

\* ... an active one loses that column.
PerformDestroy(r) ==
    /\ served[r].pc = "deactivate"
    /\ user' = [user EXCEPT !.is_active = FALSE]
    /\ deactivated' = TRUE
    /\ served' = [served EXCEPT ![r] = NoAccountRequest]
    /\ UNCHANGED <<token, mailed, unsent, confirmed, clobbered, lapsed>>

AccountNext ==
    \/ \E r \in AccountRequest :
        \/ Resend(r) \/ CreateToken(r) \/ MailLink(r)
        \/ Verify(r) \/ SpendLink(r)
        \/ EditUser(r) \/ SaveUser(r) \/ Deactivate(r) \/ PerformDestroy(r)
        \/ \E t \in Token : OpenLink(r, t)
    \/ \E t \in Token : ExpireLink(t)

AccountSpec == AccountInit /\ [][AccountNext]_accountVars

-----------------------------------------------------------------------------
\* What was answered stands: a user told "verified" can sign in and a deactivated one is
\* out, through every overlap of verification, deactivation and edits but one, an edit that
\* writes back a row from before.
AnswersStand ==
    ~clobbered => /\ confirmed => user.email_verified
                  /\ deactivated => ~user.is_active

\* Nobody is locked out by asking twice: when no request is under way, a user who is not
\* verified holds a mailed link that still works, unless one was left to expire or no mail went out.
SomeLinkWorks ==
    \/ user.email_verified \/ unsent \/ lapsed \/ clobbered
    \/ \E r \in AccountRequest : ~Idle(r)
    \/ LiveTokens \cap mailed # {}

\* Both, in every state of an account.
AccountInv == AnswersStand /\ SomeLinkWorks
=============================================================================
