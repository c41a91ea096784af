------------------------------ MODULE Platform ------------------------------
(***************************************************************************)
(* The parts of the system around the purchasing, invoice and reorder      *)
(* cores, each specified in a module of its own.  As modelled they share   *)
(* no table and wait for nothing of one another, so what a part does       *)
(* together with the others is what it does alone: a behaviour of this     *)
(* module picks one part that moves and leaves the others where they are.  *)
(***************************************************************************)
EXTENDS MailDelivery, CachedReads, AgentRuns, Alerts, Forecasts, ProviderBreaker, Accounts,
        BrowserSession, Chat, Questions, QueryFilters, Catalog, Documents, DecisionAgent

CONSTANT Moving  \* the parts whose behaviours are looked at

VARIABLE part    \* the part that moves

platformVars == <<part, mailVars, cacheVars, runVars, alertVars, forecastVars, breakerVars,
                  accountVars, browserVars, chatVars, questionVars, filterVars, catalogVars,
                  documentVars, decisionVars>>

Part == {"mail", "cache", "runs", "alerts", "forecasts", "breaker", "accounts", "browser",
         "chat", "questions", "filters", "catalog", "documents", "decisions"}

ASSUME PlatformAssumption == Moving \subseteq Part

\* The type invariants of all parts.
PlatformTypeOK ==
    /\ part \in Moving
    /\ MailTypeOK /\ CacheTypeOK /\ RunTypeOK
    /\ AlertTypeOK /\ ForecastTypeOK /\ BreakerTypeOK
    /\ AccountTypeOK /\ BrowserTypeOK /\ ChatTypeOK
    /\ QuestionTypeOK /\ FilterTypeOK /\ CatalogTypeOK
    /\ DocumentTypeOK /\ DecisionTypeOK

\* A part that stands keeps one of its initial states.
PlatformInit ==
    /\ part \in Moving
    /\ MailInit /\ CacheInit /\ RunInit
    /\ AlertInit /\ ForecastInit /\ BreakerInit
    /\ AccountInit /\ BrowserInit /\ ChatInit
    /\ QuestionInit /\ FilterInit /\ CatalogInit
    /\ DocumentInit /\ DecisionInit
    /\ part # "cache" => entry = "unread_count"
    /\ part # "alerts" => rule = "tokens"
    /\ part # "accounts" => served[CHOOSE r \in AccountRequest : TRUE].pc = "create"
    /\ part # "filters" => query = CHOOSE q \in [endpoint: {"query"}, action: Action, conditions: {{}}] :
                                        q.action = "get_inventory"

OthersStand ==
    /\ UNCHANGED part
    /\ IF part = "mail" THEN TRUE ELSE UNCHANGED mailVars
    /\ IF part = "cache" THEN TRUE ELSE UNCHANGED cacheVars
    /\ IF part = "runs" THEN TRUE ELSE UNCHANGED runVars
    /\ IF part = "alerts" THEN TRUE ELSE UNCHANGED alertVars
    /\ IF part = "forecasts" THEN TRUE ELSE UNCHANGED forecastVars
    /\ IF part = "breaker" THEN TRUE ELSE UNCHANGED breakerVars
    /\ IF part = "accounts" THEN TRUE ELSE UNCHANGED accountVars
    /\ IF part = "browser" THEN TRUE ELSE UNCHANGED browserVars
    /\ IF part = "chat" THEN TRUE ELSE UNCHANGED chatVars
    /\ IF part = "questions" THEN TRUE ELSE UNCHANGED questionVars
    /\ IF part = "filters" THEN TRUE ELSE UNCHANGED filterVars
    /\ IF part = "catalog" THEN TRUE ELSE UNCHANGED catalogVars
    /\ IF part = "documents" THEN TRUE ELSE UNCHANGED documentVars
    /\ IF part = "decisions" THEN TRUE ELSE UNCHANGED decisionVars

MailMoves == part = "mail" /\ MailNext /\ OthersStand
CacheMoves == part = "cache" /\ CacheNext /\ OthersStand
RunMoves == part = "runs" /\ RunNext /\ OthersStand
AlertMoves == part = "alerts" /\ AlertNext /\ OthersStand
ForecastMoves == part = "forecasts" /\ ForecastNext /\ OthersStand
BreakerMoves == part = "breaker" /\ BreakerNext /\ OthersStand
AccountMoves == part = "accounts" /\ AccountNext /\ OthersStand
BrowserMoves == part = "browser" /\ BrowserNext /\ OthersStand
ChatMoves == part = "chat" /\ ChatNext /\ OthersStand
QuestionMoves == part = "questions" /\ QuestionNext /\ OthersStand
FilterMoves == part = "filters" /\ FilterNext /\ OthersStand
CatalogMoves == part = "catalog" /\ CatalogNext /\ OthersStand
DocumentMoves == part = "documents" /\ DocumentNext /\ OthersStand
DecisionMoves == part = "decisions" /\ DecisionNext /\ OthersStand

PlatformNext ==
    \/ MailMoves \/ CacheMoves \/ RunMoves \/ AlertMoves
    \/ ForecastMoves \/ BreakerMoves \/ AccountMoves \/ BrowserMoves
    \/ ChatMoves \/ QuestionMoves \/ FilterMoves \/ CatalogMoves
    \/ DocumentMoves \/ DecisionMoves

\* The fairness of the parts.  Of a part that stands only the mails are ready for a fair step.
PlatformFairness ==
    /\ \A w \in MailWorker : WF_mailVars(part = "mail" /\ WorkerStep(w))
    /\ CacheFairness /\ RunFairness /\ BreakerFairness /\ BrowserFairness /\ QuestionFairness

PlatformSpec == PlatformInit /\ [][PlatformNext]_platformVars /\ PlatformFairness
=============================================================================
