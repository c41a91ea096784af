---------------------------- MODULE QueryFilters ----------------------------
(***************************************************************************)
(* From the structured answer of the language model to the rows a question *)
(* is answered with: the parser's two paths, and the handlers, which turn  *)
(* conditions (field, operator, value) into a database filter, each in its *)
(* own way.  A filter is a set of predicates on columns; a column that    *)
(* the table does not have, or a lookup that Django does not know, raises. *)
(* Values are numbers, standing for texts, dates and, as 0 and 1, for the  *)
(* truth values.  As a text, n is one letter n times: a text contains the  *)
(* texts that are not above it, and its only letter is the text 1.  A      *)
(* product has one SKU, and every column a value.                          *)
(***************************************************************************)
EXTENDS Naturals, FiniteSets

CONSTANTS
    Value,          \* what fields hold and conditions compare with
    MaxConditions   \* conditions of a question: bounds the model

ASSUME FilterAssumption == Value \subseteq Nat /\ MaxConditions \in Nat \ {0}

VARIABLES
    stage,   \* of the question
    query,   \* where it was asked, the action and the conditions the model named
    filter   \* the predicates the rows were selected by

filterVars == <<stage, query, filter>>

Action == {"get_inventory", "get_sales_report", "get_low_stock", "forecast_demand",
           "get_supplier_info", "get_total_value", "get_top_products", "get_supplier_performance"}

ACTION_ALLOWED_FIELDS == [
    get_inventory |-> {"product_name", "sku_code", "category", "supplier_name",
                       "quantity_on_hand", "quantity_available", "is_active"},
    get_sales_report |-> {"sku_code", "product_name", "date_from", "date_to", "quantity_sold"},
    get_low_stock |-> {"product_name", "sku_code", "category", "quantity_on_hand",
                       "reorder_point"},
    forecast_demand |-> {"product_name", "sku_code"},
    get_supplier_info |-> {"supplier_name", "contact_email", "is_active"},
    get_total_value |-> {"product_name", "category", "supplier_name", "is_active"},
    get_top_products |-> {"category", "date_from", "date_to", "limit"},
    get_supplier_performance |-> {"supplier_name", "is_active", "date_from", "date_to"}]

Field == (UNION {ACTION_ALLOWED_FIELDS[a] : a \in Action}) \cup {"unknown"}
Negated == {"neq", "not_in"}
ListOp == {"in", "not_in"}
Op == {"eq", "lt", "lte", "gt", "gte", "contains", "starts_with"} \cup Negated \cup ListOp
\* A list is given to the list operators only; what they are given need not be one.
Condition == {c \in [field: Field, op: Op, shape: {"one", "list"}, value: SUBSET Value] :
                /\ c.shape = "list" => c.op \in ListOp
                /\ c.shape = "one" => \E v \in Value : c.value = {v}}
ScalarForList(c) == c.op \in ListOp /\ c.shape = "one"

\* OP_MAP.  Django knows no istarts_with (ends_with is the same case).
OP_MAP == [eq |-> "exact", neq |-> "exact", lt |-> "lt", lte |-> "lte", gt |-> "gt",
           gte |-> "gte", contains |-> "icontains", starts_with |-> "istarts_with",
           in |-> "in", not_in |-> "in"]
Lookup == {OP_MAP[op] : op \in Op}
KnownLookup == Lookup \ {"istarts_with"}

\* FIELD_ALIASES: the column a handler compares, and the one a field is about.
FIELD_ALIASES == [f \in Field |-> CASE f \in {"date_from", "date_to"} -> "date"
                                    [] f = "quantity_available" -> "quantity_on_hand"
                                    [] OTHER -> f]
Meant(f) == IF f \in {"date_from", "date_to"} THEN "date" ELSE f

Predicate == [field: Field \cup {"date", "pk"}, value: SUBSET Nat, negated: BOOLEAN,
              lookup: Lookup \cup {"bad", "below", "letters", "none"}]

FilterTypeOK ==
    /\ stage \in {"asked", "parsed", "refused", "answered"}
    /\ query.endpoint \in {"query", "chat", "stream"} /\ query.action \in Action
    /\ query.conditions \subseteq Condition /\ Cardinality(query.conditions) <= MaxConditions
    /\ filter \subseteq Predicate

FilterInit ==
    /\ stage = "asked" /\ filter = {}
    /\ query \in [endpoint: {"query", "chat", "stream"}, action: Action, conditions: {{}}]

-----------------------------------------------------------------------------
\* The model names one more condition; parse() of a text answer lets only the action's
\* own fields pass, _parse_tool_call of a tool call any.
AddCondition ==
    /\ stage = "asked" /\ Cardinality(query.conditions) < MaxConditions
    /\ \E c \in Condition : query' = [query EXCEPT !.conditions = @ \cup {c}]
    /\ UNCHANGED <<stage, filter>>

ParseToolCall == stage = "asked" /\ stage' = "parsed" /\ UNCHANGED <<query, filter>>

ParseText ==
    /\ stage = "asked"
    /\ stage' = IF \A c \in query.conditions : c.field \in ACTION_ALLOWED_FIELDS[query.action]
                THEN "parsed" ELSE "refused"
    /\ UNCHANGED <<query, filter>>

\* run() without an answer of the model: the words of the question name an action, without
\* any condition the question may have had; or the answer is a help text.
KeywordFallback ==
    /\ stage = "asked"
    /\ \/ /\ stage' = "parsed"
          /\ \E a \in Action \ {"get_inventory"} :
                query' = [query EXCEPT !.action = a, !.conditions = {}]
       \/ stage' = "refused" /\ UNCHANGED query
    /\ UNCHANGED filter

\* _match_cached_query of /query: some short questions need no model.
MatchCachedQuery ==
    /\ stage = "asked" /\ query.endpoint = "query"
    /\ stage' = "parsed"
    /\ \/ \E a \in Action \ {"get_sales_report", "forecast_demand"} :
             query' = [query EXCEPT !.action = a, !.conditions = {}]
       \/ \E v \in Value : query' = [query EXCEPT !.action = "get_low_stock", !.conditions =
             {[field |-> "quantity_on_hand", op |-> "eq", shape |-> "one", value |-> {v}]}]
    /\ UNCHANGED filter

-----------------------------------------------------------------------------
\* A lookup among the members of a text is one among its letters.
Where(c, lookup, negated) ==
    {[field |-> FIELD_ALIASES[c.field], value |-> c.value, negated |-> negated,
      lookup |-> IF lookup = "in" /\ c.shape = "one" THEN "letters" ELSE lookup]}
Everything == {}
Nothing == {[field |-> "pk", lookup |-> "none", value |-> {}, negated |-> FALSE]}
Raises(c) == Where(c, "bad", FALSE)

\* _parse_condition: only a list is negated by not_in, and an empty one needs no column.
ParseCondition(c) ==
    IF c.op = "in" /\ c.shape = "list" /\ c.value = {} THEN Nothing
    ELSE Where(c, OP_MAP[c.op], c.op = "neq" \/ (c.op = "not_in" /\ c.shape = "list"))

\* Faulty: the second translator never negates not_in.
ConditionToQUnnegated(c) ==
    IF c.field = "limit" THEN Everything ELSE Where(c, OP_MAP[c.op], c.op = "neq")

\* conditions_to_q, which passes over the limit and negates not_in whatever it is given.
ConditionToQ(c) ==
    IF c.field = "limit" THEN Everything ELSE Where(c, OP_MAP[c.op], c.op \in Negated)

\* Each of these handlers looks at the conditions it expects and at few of their operators.
LowStock(c) ==
    CASE c.field = "quantity_on_hand" ->
            IF c.op \in {"lt", "lte", "eq", "gt", "gte"} THEN Where(c, OP_MAP[c.op], FALSE)
                                                         ELSE Everything
      [] c.field = "reorder_point" -> Raises(c)
      [] c.field = "product_name" -> Where(c, "icontains", FALSE)
      [] c.field \in {"sku_code", "category"} -> Where(c, "exact", FALSE)
      [] OTHER -> Everything

SupplierInfo(c) == Where(c, OP_MAP[c.op], FALSE)

SupplierPerformance(c) ==
    CASE c.field = "supplier_name" -> IF c.op \in Negated THEN Raises(c)
                                                          ELSE Where(c, OP_MAP[c.op], FALSE)
      [] c.field = "is_active" -> Where(c, "exact", FALSE)
      [] c.field = "date_from" -> Where(c, "gte", FALSE)
      [] c.field = "date_to" -> Where(c, "lte", FALSE)
      [] OTHER -> Everything

ForecastDemand(c) == IF c.field = "sku_code" THEN Where(c, "exact", FALSE) ELSE Everything

\* /chat and its stream pass plain dictionaries, whose fields two handlers read as attributes.
Translate(c) ==
    LET ofQuery == query.endpoint = "query" IN
    CASE query.action \in {"get_inventory", "get_sales_report"} -> ParseCondition(c)
      [] query.action = "get_total_value" -> IF ofQuery THEN ConditionToQ(c) ELSE ParseCondition(c)
      [] query.action = "get_top_products" -> IF ofQuery THEN ConditionToQ(c) ELSE Everything
      [] query.action = "get_supplier_info" -> SupplierInfo(c)
      [] query.action = "get_supplier_performance" -> SupplierPerformance(c)
      [] query.action = "get_low_stock" -> IF ofQuery THEN LowStock(c) ELSE Raises(c)
      [] query.action = "forecast_demand" -> IF ofQuery THEN ForecastDemand(c) ELSE Raises(c)

\* The columns of the table the handler asks.
Column == [
    get_inventory |-> {"product_name", "sku_code", "category", "supplier_name", "is_active",
                       "quantity_on_hand", "reorder_point"},
    get_total_value |-> {"product_name", "sku_code", "category", "supplier_name", "is_active",
                         "quantity_on_hand", "reorder_point"},
    get_sales_report |-> {"date", "quantity_sold"},
    get_top_products |-> {"date", "quantity_sold"},
    get_low_stock |-> {"product_name", "sku_code", "category", "quantity_on_hand"},
    get_supplier_info |-> {"supplier_name", "contact_email", "is_active"},
    get_supplier_performance |-> {"supplier_name", "is_active", "date"},
    forecast_demand |-> {"sku_code"}]

Runs(p) == /\ p.field \in Column[query.action] \cup {"pk"}
           /\ p.lookup \in KnownLookup \cup {"below", "letters", "none"}

\* Without a condition on the quantity the low-stock handler takes the reorder point.
DefaultThreshold ==
    IF query.action = "get_low_stock" /\ \A c \in query.conditions : c.field # "quantity_on_hand"
    THEN {[field |-> "quantity_on_hand", lookup |-> "below", value |-> {}, negated |-> FALSE]}
    ELSE {}

\* Both handlers of the total value count the products that are switched on.
ActiveOnly ==
    IF query.action = "get_total_value"
    THEN {[field |-> "is_active", lookup |-> "exact", value |-> {1}, negated |-> FALSE]} ELSE {}

\* What a handler adds to the conditions of a question.
OwnRules == DefaultThreshold \cup ActiveOnly

\* /chat has no handler for the performance of suppliers; its stream has.
HasHandler == ~(query.endpoint = "chat" /\ query.action = "get_supplier_performance")

\* The forecast handler of /query takes the first SKU code, and none when no SKU has it.
Used == IF query.action = "forecast_demand" /\ query.endpoint = "query"
        THEN {{}} \cup {{c} : c \in query.conditions} ELSE {query.conditions}

\* The handler: without one, or with a filter that cannot run, the answer is an error, and so
\* it is when what stands for a list is a number, or a text whose letters the column cannot hold.
Handle ==
    /\ stage = "parsed"
    /\ \E used \in Used :
        LET q == (UNION {Translate(c) : c \in used}) \cup OwnRules
            runs == HasHandler /\ \A p \in q : Runs(p)
        IN  \/ runs /\ stage' = "answered" /\ filter' = q
            \/ /\ runs => \E p \in q : p.lookup = "letters"
               /\ stage' = "refused" /\ UNCHANGED filter
    /\ UNCHANGED query

FilterNext ==
    AddCondition \/ ParseToolCall \/ ParseText \/ KeywordFallback \/ MatchCachedQuery \/ Handle

FilterSpec == FilterInit /\ [][FilterNext]_filterVars

-----------------------------------------------------------------------------
Compare(lookup, x, vs) ==
    CASE lookup \in {"exact", "in"} -> x \in vs
      [] lookup = "lt" -> \A v \in vs : x < v
      [] lookup = "gt" -> \A v \in vs : x > v
      [] lookup = "gte" -> \A v \in vs : x >= v
      [] lookup = "lte" -> \A v \in vs : x <= v
      [] lookup \in {"icontains", "istarts_with"} -> \A v \in vs : v <= x
      [] lookup = "letters" -> x = 1 /\ \E v \in vs : v > 0

\* What a condition says, and what was made of it.
Holds(c, row) == Compare(OP_MAP[c.op], row[Meant(c.field)], c.value) # (c.op \in Negated)
Matches(p, row) ==
    CASE p.lookup = "below" -> row["quantity_on_hand"] < row["reorder_point"]
      [] p.lookup = "none" -> FALSE
      [] OTHER -> Compare(p.lookup, row[p.field], p.value) # p.negated

\* Conditions that are answered with other rows than they ask for ("Disagreements" in the
\* README): a list operator without a list, by any handler, and what the rules of single
\* handlers pass over or replace.
Misread(c) ==
    \/ ScalarForList(c)
    \/ CASE query.action = "get_top_products" -> query.endpoint # "query" \/ c.field = "limit"
         [] query.action = "get_inventory" -> c.field = "quantity_available"
         [] query.action = "get_total_value" -> c.field \in {"limit", "quantity_available", "is_active"}
         [] query.action = "get_supplier_info" -> c.op \in Negated
         [] query.action = "get_supplier_performance" ->
               \/ c.field = "is_active" /\ c.op # "eq"
               \/ c.field = "date_from" /\ c.op # "gte"
               \/ c.field = "date_to" /\ c.op # "lte"
               \/ c.field \notin ACTION_ALLOWED_FIELDS.get_supplier_performance
         [] query.action = "get_low_stock" ->
               \/ c.field = "quantity_on_hand" /\ c.op \notin {"lt", "lte", "eq", "gt", "gte"}
               \/ c.field = "product_name" /\ c.op # "contains"
               \/ c.field \in {"sku_code", "category"} /\ c.op # "eq"
               \/ c.field \notin ACTION_ALLOWED_FIELDS.get_low_stock
         [] query.action = "forecast_demand" -> TRUE
         [] OTHER -> FALSE

\* The two translators and the handlers agree on what a question means: one that is
\* answered at all is answered with exactly the rows that its conditions describe and that the
\* handler's own rule lets pass, whatever the endpoint and however the answer of the language
\* model was parsed, except for the conditions above.
AnsweredIsFiltered ==
    stage = "answered" /\ (\A c \in query.conditions : ~Misread(c)) =>
        \A row \in [{Meant(c.field) : c \in query.conditions}
                      \cup {"quantity_on_hand", "reorder_point", "is_active"} -> Value] :
            (\A p \in filter : Matches(p, row)) <=>
                /\ \A c \in query.conditions : Holds(c, row)
                /\ \A p \in OwnRules : Matches(p, row)
=============================================================================
