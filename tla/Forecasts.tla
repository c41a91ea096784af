----------------------------- MODULE Forecasts ------------------------------
(***************************************************************************)
(* The forecast rows of one SKU, one per date, and the two ways to write   *)
(* them: ForecastingService, which always forecasts from the last sale on, *)
(* and the forecasting agent, which skips a SKU that has a row for today   *)
(* and whose write tool writes whatever rows the model hands it.  A        *)
(* forecast is written date by date, each upsert its own transaction.      *)
(***************************************************************************)
EXTENDS Integers, FiniteSets

CONSTANTS
    Forecaster,       \* Celery workers and the threads of the agent's tool pool
    Horizon,          \* days a forecast covers (30 in the code)
    LastDay,          \* bounds the model
    NumForecasts,     \* forecasts that are begun: bounds the model
    MaxForecastFaults \* killed workers and tool timeouts: bounds the model

ASSUME ForecastAssumption ==
    /\ Horizon \in Nat \ {0} /\ LastDay \in Nat \ {0}
    /\ NumForecasts \in Nat /\ MaxForecastFaults \in Nat

Day == 1..LastDay
Date == 1..(LastDay + Horizon)
Batch == 1..NumForecasts

VARIABLES
    today,
    lastSale,    \* the day of the newest sales record, 0 without one
    enough,      \* MIN_DATA_POINTS days lie between the first and the last sale
    rowOf,       \* [Date -> the forecast that wrote the row, or 0]
    forecaster,  \* [Forecaster -> step, its forecast, the dates left, whether the agent's]
    batches,     \* forecasts begun
    span,        \* [Batch -> the dates it covers]
    whole,       \* forecasts written to the end
    overlapping, \* forecasts at work, from reading the sales on, while another one was (history)
    forecastFaults

forecastVars == <<today, lastSale, enough, rowOf, forecaster, batches, span, whole, overlapping,
                  forecastFaults>>

ForecastTypeOK ==
    /\ today \in Day /\ lastSale \in 0..today /\ enough \in BOOLEAN
    /\ rowOf \in [Date -> 0..NumForecasts]
    /\ forecaster \in [Forecaster -> [pc: {"idle", "predict", "check", "write"}, batch: 0..NumForecasts,
                                      left: SUBSET Date, agent: BOOLEAN]]
    /\ batches \in 0..NumForecasts
    /\ span \in [Batch -> SUBSET Date]
    /\ whole \subseteq Batch /\ overlapping \subseteq Batch
    /\ forecastFaults \in 0..MaxForecastFaults

Free == [pc |-> "idle", batch |-> 0, left |-> {}, agent |-> FALSE]

ForecastInit ==
    /\ today = 1 /\ lastSale = 0 /\ enough = FALSE
    /\ rowOf = [d \in Date |-> 0]
    /\ forecaster = [f \in Forecaster |-> Free]
    /\ batches = 0 /\ span = [b \in Batch |-> {}]
    /\ whole = {} /\ overlapping = {} /\ forecastFaults = 0

-----------------------------------------------------------------------------
Tomorrow ==
    /\ today < LastDay
    /\ today' = today + 1
    /\ UNCHANGED <<lastSale, enough, rowOf, forecaster, batches, span, whole, overlapping, forecastFaults>>

\* A sale is recorded today; missing days in between count as days without sales.
Sell ==
    /\ lastSale < today
    /\ lastSale' = today
    /\ enough' \in IF lastSale = 0 THEN {FALSE} ELSE {enough, TRUE}
    /\ UNCHANGED <<today, rowOf, forecaster, batches, span, whole, overlapping, forecastFaults>>

has_todays_forecast == rowOf[today] # 0

\* run_forecast takes up the SKU, without looking at what is there.
TakeUp(f) ==
    /\ forecaster[f].pc = "idle" /\ batches < NumForecasts
    /\ forecaster' = [forecaster EXCEPT ![f] = [Free EXCEPT !.pc = "predict"]]
    /\ UNCHANGED <<today, lastSale, enough, rowOf, batches, span, whole, overlapping, forecastFaults>>

\* ForecastingAgent.run does look.
AgentTakesUp(f) ==
    /\ forecaster[f].pc = "idle" /\ batches < NumForecasts
    /\ ~has_todays_forecast
    /\ forecaster' = [forecaster EXCEPT ![f] = [Free EXCEPT !.pc = "predict", !.agent = TRUE]]
    /\ UNCHANGED <<today, lastSale, enough, rowOf, batches, span, whole, overlapping, forecastFaults>>

\* The dates of a forecast.  The service forecasts from the day after the last sale on, which
\* for a SKU that sold nothing for a month is a window in the past, and skips a SKU whose
\* data do not suffice.  The agent is told to pass the engine's rows to its write tool; what
\* the model passes, the tool writes.
Windows(agent) ==
    IF agent THEN SUBSET Date
    ELSE {IF enough THEN (lastSale + 1)..(lastSale + Horizon) ELSE {}}

\* ProphetEngine.predict answers with the model's or the fallback's forecast.
Predict(f) ==
    /\ forecaster[f].pc = "predict"
    /\ \E days \in Windows(forecaster[f].agent) :
        IF days = {} \/ batches = NumForecasts
        THEN /\ forecaster' = [forecaster EXCEPT ![f] = Free]
             /\ UNCHANGED <<batches, span, overlapping>>
        ELSE LET writing == {g \in Forecaster : forecaster[g].pc \in {"check", "write"}} IN
             /\ batches' = batches + 1
             /\ span' = [span EXCEPT ![batches + 1] = days]
             /\ overlapping' = IF writing = {} THEN overlapping
                               ELSE overlapping \cup {batches + 1}
                                    \cup {forecaster[g].batch : g \in writing}
             /\ forecaster' = [forecaster EXCEPT
                  ![f] = [pc |-> IF @.agent THEN "check" ELSE "write", batch |-> batches + 1,
                          left |-> days, agent |-> @.agent]]
    /\ UNCHANGED <<today, lastSale, enough, rowOf, whole, forecastFaults>>

\* The agent's write tool looks once more.
CheckToday(f) ==
    /\ forecaster[f].pc = "check"
    /\ forecaster' = [forecaster EXCEPT ![f] = IF has_todays_forecast THEN Free
                                               ELSE [@ EXCEPT !.pc = "write"]]
    /\ UNCHANGED <<today, lastSale, enough, rowOf, batches, span, whole, overlapping, forecastFaults>>

\* The writer is through with a date; the last one ends the forecast.
Pass(f, d) ==
    LET w == forecaster[f] IN
    IF w.left = {d}
    THEN forecaster' = [forecaster EXCEPT ![f] = Free] /\ whole' = whole \cup {w.batch}
    ELSE forecaster' = [forecaster EXCEPT ![f].left = @ \ {d}] /\ UNCHANGED whole

\* Faulty: a date that has a row keeps it.
InsertDate(f) ==
    /\ forecaster[f].pc = "write"
    /\ \E d \in forecaster[f].left :
        /\ rowOf' = [rowOf EXCEPT ![d] = IF @ = 0 THEN forecaster[f].batch ELSE @]
        /\ Pass(f, d)
    /\ UNCHANGED <<today, lastSale, enough, batches, span, overlapping, forecastFaults>>

\* One upsert: a row per SKU and date, replaced if it is there.  The dates come in the order
\* the rows are in.
WriteDate(f) ==
    /\ forecaster[f].pc = "write"
    /\ \E d \in forecaster[f].left :
        /\ rowOf' = [rowOf EXCEPT ![d] = forecaster[f].batch]
        /\ Pass(f, d)
    /\ UNCHANGED <<today, lastSale, enough, batches, span, overlapping, forecastFaults>>

ForecastFault == forecastFaults < MaxForecastFaults /\ forecastFaults' = forecastFaults + 1

\* The worker dies, or the database refuses: the dates already written stay.
StopHalfway(f) ==
    /\ ForecastFault /\ forecaster[f].pc # "idle"
    /\ forecaster' = [forecaster EXCEPT ![f] = Free]
    /\ UNCHANGED <<today, lastSale, enough, rowOf, batches, span, whole, overlapping>>

\* _run_tool gives up on the write tool after 120 seconds and calls it again, while the
\* first call goes on in its thread.
CallWriteToolAgain(f, g) ==
    /\ ForecastFault /\ f # g /\ forecaster[f].agent /\ forecaster[f].pc \in {"check", "write"}
    /\ forecaster[g].pc = "idle"
    /\ forecaster' = [forecaster EXCEPT
         ![g] = [forecaster[f] EXCEPT !.pc = "check", !.left = span[forecaster[f].batch]]]
    /\ UNCHANGED <<today, lastSale, enough, rowOf, batches, span, whole, overlapping>>

ForecastNext ==
    \/ Tomorrow \/ Sell
    \/ \E f \in Forecaster :
        \/ TakeUp(f) \/ AgentTakesUp(f) \/ Predict(f) \/ CheckToday(f) \/ WriteDate(f)
        \/ StopHalfway(f)
        \/ \E g \in Forecaster : CallWriteToolAgain(f, g)

ForecastSpec == ForecastInit /\ [][ForecastNext]_forecastVars

-----------------------------------------------------------------------------
\* The newest forecast that was written to the end is what every date of its window shows,
\* whichever of the two ways wrote it, however far an older or a stopped forecast got, and
\* even if the tool that wrote it ran twice: "running twice is idempotent".  Only forecasts
\* that were written at one time may mix.
NewestForecastStands ==
    \A b \in whole \ overlapping :
        \A d \in span[b] : rowOf[d] >= b
=============================================================================
