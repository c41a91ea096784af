-------------------------------- MODULE Chat --------------------------------
(***************************************************************************)
(* A conversation with the assistant.  The browser (useChat) streams one   *)
(* question at a time and aborts the stream it leaves; the server's        *)
(* generator keeps an assistant message that grows with the answer, and    *)
(* titles the conversation after its first answer.  Other clients ask      *)
(* without a stream, and the user renames or deletes the conversation      *)
(* meanwhile.  An answer is counted in what it holds: 0 no message, 1 an   *)
(* empty one, 2 a part, 3 the whole.                                       *)
(***************************************************************************)
EXTENDS Integers, FiniteSets

CONSTANTS
    Turn,  \* questions that are asked: bounds the model
    NoTurn \* the browser reads no stream

ASSUME ChatAssumption == NoTurn \notin Turn

Whole == 3

VARIABLES
    conversation, \* whether it exists, and its title
    turn,         \* [Turn -> the server's handler, the browser's reader and the message row]
    ui,           \* useChat: sendingRef, isLoading, abortRef and lastFailedText
    settledName,  \* the last rename came after an answer and between turns (history)
    unsaved       \* turns whose last write of the answer the database refused (history)

chatVars == <<conversation, turn, ui, settledName, unsaved>>

TurnState == [pc: {"idle", "asked", "loaded", "streaming", "titling", "ended", "failed"},
              plain: BOOLEAN, new: BOOLEAN, shown: 1..Whole, row: 0..Whole, placeholder: BOOLEAN,
              reader: {"none", "open", "retrying", "aborted", "closed"}]

ChatTypeOK ==
    /\ conversation \in [exists: BOOLEAN, title: {"default", "auto", "user"}]
    /\ turn \in [Turn -> TurnState]
    /\ ui \in [sending: BOOLEAN, loading: BOOLEAN, current: Turn \cup {NoTurn}, failed: BOOLEAN]
    /\ settledName \in BOOLEAN /\ unsaved \subseteq Turn

NoAnswer == [pc |-> "idle", plain |-> FALSE, new |-> FALSE, shown |-> 1, row |-> 0,
             placeholder |-> FALSE, reader |-> "none"]

ChatInit ==
    /\ conversation = [exists |-> TRUE, title |-> "default"]
    /\ turn = [a \in Turn |-> NoAnswer]
    /\ ui = [sending |-> FALSE, loading |-> FALSE, current |-> NoTurn, failed |-> FALSE]
    /\ settledName = FALSE /\ unsaved = {}

Rows(rows) == {a \in Turn : rows[a].row > 0}
Reading == {a \in Turn : turn[a].reader \in {"open", "retrying"}}
Between == \A a \in Turn : turn[a].pc \in {"idle", "ended", "failed"}

\* abortRef.current?.abort()
Aborting(t) ==
    [a \in Turn |-> IF a = ui.current /\ t[a].reader \in {"open", "retrying"}
                    THEN [t[a] EXCEPT !.reader = "aborted"] ELSE t[a]]

-----------------------------------------------------------------------------
(* The browser.                                                            *)

\* sendMessage
Send(a) ==
    /\ turn[a].pc = "idle" /\ ~ui.sending /\ ~ui.loading
    /\ turn' = [Aborting(turn) EXCEPT ![a] = [NoAnswer EXCEPT !.pc = "asked", !.reader = "open"]]
    /\ ui' = [sending |-> TRUE, loading |-> TRUE, current |-> a, failed |-> FALSE]
    /\ UNCHANGED <<conversation, settledName, unsaved>>

\* retryLastMessage asks the question that failed again; it leaves sendingRef alone.
Retry(a) ==
    /\ turn[a].pc = "idle" /\ ui.failed /\ ~ui.loading
    /\ turn' = [Aborting(turn) EXCEPT ![a] = [NoAnswer EXCEPT !.pc = "asked", !.reader = "retrying"]]
    /\ ui' = [ui EXCEPT !.loading = TRUE, !.current = a, !.failed = FALSE]
    /\ UNCHANGED <<conversation, settledName, unsaved>>

\* Faulty: the stream that is still being read goes on.
LoadOverStream ==
    /\ ui.current # NoTurn
    /\ ui' = [sending |-> FALSE, loading |-> FALSE, current |-> NoTurn, failed |-> FALSE]
    /\ UNCHANGED <<conversation, turn, settledName, unsaved>>

\* The user opens a conversation: loadFromConversation aborts and resets.
LoadFromConversation ==
    /\ ui.current # NoTurn
    /\ turn' = Aborting(turn)
    /\ ui' = [sending |-> FALSE, loading |-> FALSE, current |-> NoTurn, failed |-> FALSE]
    /\ UNCHANGED <<conversation, settledName, unsaved>>

\* The stream ends, fails or times out (25 s), or its abort is noticed: the "finally" of the
\* call runs, which may be after another call has begun.
Settle(a) ==
    /\ turn[a].reader \in {"open", "retrying", "aborted"}
    /\ ui' = [ui EXCEPT !.sending = ui.sending /\ turn[a].reader = "retrying",
                        !.loading = FALSE,
                        !.current = IF ui.current = a THEN NoTurn ELSE ui.current,
                        !.failed = IF turn[a].reader # "aborted" /\ turn[a].pc # "ended"
                                   THEN TRUE ELSE ui.failed]
    /\ turn' = [turn EXCEPT ![a].reader = "closed"]
    /\ UNCHANGED <<conversation, settledName, unsaved>>

-----------------------------------------------------------------------------
(* The server: ChatStreamView and ChatEndpointView.                        *)

\* A client of /ai/chat/ asks.
Ask(a) ==
    /\ turn[a].pc = "idle"
    /\ turn' = [turn EXCEPT ![a].pc = "asked", ![a].plain = TRUE]
    /\ UNCHANGED <<conversation, ui, settledName, unsaved>>

\* messages.exists(): a stream may have left a question without an answer.
IsNew ==
    IF Rows(turn) # {} THEN {FALSE}
    ELSE IF \E a \in Turn : ~turn[a].plain /\ turn[a].pc \notin {"idle", "asked", "loaded"}
         THEN BOOLEAN ELSE {TRUE}

\* load_conversation, or 404; the plain endpoint decides here whether the conversation is new
\* (its messages are prefetched).
LoadConversation(a) ==
    /\ turn[a].pc = "asked"
    /\ \E new \in IF turn[a].plain THEN IsNew ELSE {FALSE} :
          turn' = [turn EXCEPT ![a].pc = IF conversation.exists THEN "loaded" ELSE "failed",
                               ![a].new = new]
    /\ UNCHANGED <<conversation, ui, settledName, unsaved>>

\* The stream saves the question and an empty answer; a failure is logged.
CreatePlaceholder(a) ==
    /\ turn[a].pc = "loaded" /\ ~turn[a].plain
    /\ \E row \in IF conversation.exists THEN {0, 1} ELSE {0} :
          turn' = [turn EXCEPT ![a].pc = "streaming", ![a].placeholder = (row = 1), ![a].row = row]
    /\ UNCHANGED <<conversation, ui, settledName, unsaved>>

\* _flush_to_db writes the text so far, if the message is still there ...
Flushed(a, text) == IF turn[a].row > 0 THEN text ELSE 0

\* ... and swallows what the database says.
Flushes(a, row) ==
    \/ row = Flushed(a, turn[a].shown) /\ UNCHANGED unsaved
    \/ row = turn[a].row /\ unsaved' = unsaved \cup {a}

\* A token is sent, and flushed when the last flush was a second ago.
StreamToken(a) ==
    /\ turn[a].pc = "streaming" /\ turn[a].shown < Whole
    /\ LET text == turn[a].shown + 1 IN
       \E row \in {turn[a].row, Flushed(a, text)} :
           turn' = [turn EXCEPT ![a].shown = text, ![a].row = row]
    /\ UNCHANGED <<conversation, ui, settledName, unsaved>>

\* GeneratorExit: the browser has gone.
Disconnect(a) ==
    /\ turn[a].pc = "streaming" /\ turn[a].reader \in {"aborted", "closed"}
    /\ \E row \in 0..Whole :
        /\ IF turn[a].shown > 1 THEN Flushes(a, row) ELSE row = turn[a].row /\ UNCHANGED unsaved
        /\ turn' = [turn EXCEPT ![a].pc = "ended", ![a].row = row]
    /\ UNCHANGED <<conversation, ui, settledName>>

\* The engine raises: the stream sends an error event and keeps what was flushed; the plain
\* endpoint answers the error, or 504 after its timeout, and keeps nothing.
Break(a) ==
    /\ \/ turn[a].pc = "streaming"
       \/ turn[a].pc = "loaded" /\ turn[a].plain
    /\ turn' = [turn EXCEPT ![a].pc = "failed"]
    /\ UNCHANGED <<conversation, ui, settledName, unsaved>>

\* An empty answer is not written.
FinishEmpty(a) ==
    /\ turn[a].pc = "streaming" /\ turn[a].shown = 1
    /\ turn' = [turn EXCEPT ![a].pc = "ended"]
    /\ UNCHANGED <<conversation, ui, settledName, unsaved>>

\* Without a placeholder, save_message creates the message; when it fails, as it does for a
\* conversation that is gone, so does the stream.
SaveAnswer(a, row) ==
    /\ row = turn[a].shown /\ conversation.exists
    /\ UNCHANGED unsaved

\* _finalize writes the answer and looks whether it is the only one.
Finalize(a) ==
    /\ turn[a].pc = "streaming" /\ turn[a].shown > 1
    /\ \/ \E row \in 0..Whole :
            /\ IF turn[a].placeholder THEN Flushes(a, row) ELSE SaveAnswer(a, row)
            /\ LET rows == [turn EXCEPT ![a].row = row] IN
               turn' = [rows EXCEPT ![a].pc = "titling", ![a].new = Cardinality(Rows(rows)) = 1]
       \/ /\ ~turn[a].placeholder
          /\ turn' = [turn EXCEPT ![a].pc = "failed"]
          /\ UNCHANGED unsaved
    /\ UNCHANGED <<conversation, ui, settledName>>

\* ChatPipeline.save_messages, at the end of the plain endpoint.
SaveMessages(a) ==
    /\ turn[a].pc = "loaded" /\ turn[a].plain
    /\ turn' = [turn EXCEPT ![a].pc = IF conversation.exists THEN "titling" ELSE "failed",
                            ![a].row = IF conversation.exists THEN Whole ELSE 0]
    /\ UNCHANGED <<conversation, ui, settledName, unsaved>>

AutoTitle(a) ==
    /\ turn[a].pc = "titling"
    /\ conversation' = IF turn[a].new /\ conversation.exists
                       THEN [conversation EXCEPT !.title = "auto"] ELSE conversation
    /\ turn' = [turn EXCEPT ![a].pc = "ended", ![a].new = FALSE]
    /\ UNCHANGED <<ui, settledName, unsaved>>

-----------------------------------------------------------------------------
(* ConversationViewSet.                                                    *)

\* rename_conversation; one that finds the conversation just before it is deleted changes
\* nothing.
Rename ==
    /\ conversation.exists
    /\ conversation' = [conversation EXCEPT !.title = "user"]
    /\ settledName' = (Between /\ Rows(turn) # {})
    /\ UNCHANGED <<turn, ui, unsaved>>

\* The messages go with it.
DeleteConversation ==
    /\ conversation.exists
    /\ conversation' = [conversation EXCEPT !.exists = FALSE]
    /\ turn' = [a \in Turn |-> [turn[a] EXCEPT !.row = 0]]
    /\ UNCHANGED <<ui, settledName, unsaved>>

ChatNext ==
    \/ LoadFromConversation \/ Rename \/ DeleteConversation
    \/ \E a \in Turn :
        \/ Send(a) \/ Retry(a) \/ Settle(a) \/ Ask(a) \/ LoadConversation(a)
        \/ CreatePlaceholder(a) \/ StreamToken(a) \/ Disconnect(a) \/ Break(a)
        \/ FinishEmpty(a) \/ Finalize(a) \/ SaveMessages(a) \/ AutoTitle(a)

ChatSpec == ChatInit /\ [][ChatNext]_chatVars

-----------------------------------------------------------------------------
\* The browser reads one stream at a time, whatever the user opens, sends or retries, and
\* although the clean-up of a call it left runs while the next one is being answered.
OneLiveStream == Cardinality(Reading) <= 1

\* What the reader saw is what the conversation shows later: a stream that came to its end,
\* or that the browser left, has stored every token it sent, with or without the placeholder,
\* unless the database refused the last write.
SeenIsStored ==
    \A a \in Turn \ unsaved :
        (turn[a].pc = "ended" /\ turn[a].row > 0 /\ ~turn[a].plain /\ turn[a].shown > 1)
            => turn[a].row = turn[a].shown

\* A name the user gave between turns, to a conversation that has an answer, stays: titles
\* are made for the first answer only, even if that one failed or was never finished.
NameStands == settledName => conversation.title = "user"

\* All three, in every state of a conversation.
ChatInv == OneLiveStream /\ SeenIsStored /\ NameStands
=============================================================================
