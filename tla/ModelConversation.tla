------------------------- MODULE ModelConversation -------------------------
(***************************************************************************)
(* The conversation with the language model: the history that the helper   *)
(* keeps, the part of it that fits into a request (context_window.py), the *)
(* attempts to have the request answered (OpenAICompatibleProvider.complete *)
(* of model_providers.py), the cell the model proposes and what the user   *)
(* does with it.  The model's server is the environment.                   *)
(*                                                                         *)
(* A message is its kind and its size in estimated tokens.  Questions are  *)
(* what the user types; outputs are those of cells that the user ran       *)
(* without being asked to, and go to the model as the user's.  How long    *)
(* the provider sleeps between attempts is left out.  Commands come one at *)
(* a time (CommandGate): while a request is under way nothing else runs.   *)
(***************************************************************************)
EXTENDS Naturals, Sequences, FiniteSetsExt

CONSTANTS
    Sizes,        (* sizes of messages                                      *)
    ClipSize,     (* size to which the content of a message is clipped      *)
    Budget,       (* size of the history that a request can carry           *)
    MaxAttempts,  (* attempts of one request                                *)
    MaxHistory    (* bound: messages in the history                         *)

ASSUME ModelConversationAssumption ==
    /\ Sizes \subseteq Nat \ {0} /\ ClipSize \in Nat \ {0} /\ Budget \in Nat
    /\ MaxAttempts \in Nat \ {0} /\ MaxHistory \in Nat

VARIABLES
    attached,   (* there is a kernel                                        *)
    history,    (* the messages, the oldest first                           *)
    pending,    (* the model has proposed a cell                            *)
    question,   (* the typed message of the request under way, or <<>>      *)
    request,    (* the messages that were to be sent                        *)
    attempt,    (* the attempt under way; 0: no request is                  *)
    body        (* what this attempt sends: the request, or something else  *)

conversation == <<attached, history, pending>>
call == <<question, request, attempt, body>>
chatVars == <<conversation, call>>

Role ==
    [question |-> "user", output |-> "user", answer |-> "assistant",
     call |-> "assistant", result |-> "tool"]

Message == [kind : DOMAIN Role, size : Sizes \union {ClipSize}]

ChatInit ==
    /\ attached = FALSE /\ history = <<>> /\ pending = FALSE
    /\ question = <<>> /\ request = <<>> /\ attempt = 0 /\ body = "request"

-----------------------------------------------------------------------------
(* bounded_history *)

(* The content of a message is clipped, the code of a proposed cell is not. *)
Clipped(m) == IF m.kind # "call" /\ m.size > ClipSize THEN [m EXCEPT !.size = ClipSize] ELSE m

(* Where the history may be cut: never between a tool's answer and the     *)
(* assistant's message before it.  A faulty variant cuts anywhere.         *)
EveryPlace(h) == DOMAIN h

Places(h) ==
    {i \in DOMAIN h : ~(Role[h[i].kind] = "tool" /\ i > 1 /\ Role[h[i - 1].kind] = "assistant")}

(* What the messages from a place on cost: the last k of them, for all k.  *)
Cost(h, i) ==
    LET newest[k \in 0..Len(h)] ==
            IF k = 0 THEN 0 ELSE newest[k - 1] + h[Len(h) + 1 - k].size
    IN  newest[Len(h) + 1 - i]

(* The most that fits; the newest message, or the newest pair, in any case. *)
BoundedHistory(full) ==
    LET h == [i \in DOMAIN full |-> Clipped(full[i])]
        places == Places(h)
    IN  IF h = <<>> THEN <<>>
        ELSE SubSeq(h, Min({i \in places : Cost(h, i) <= Budget} \union {Max(places)}), Len(h))

-----------------------------------------------------------------------------
(* chat *)

(* A faulty variant enters the question before it is answered.             *)
AskRecordingFirst ==
    /\ attached /\ ~pending /\ attempt = 0 /\ Len(history) + 2 <= MaxHistory
    /\ \E q \in {<<>>} \union {<<[kind |-> "question", size |-> s]>> : s \in Sizes} :
          /\ history' = history \o q
          /\ request' = BoundedHistory(history')
    /\ question' = <<>> /\ attempt' = 1 /\ body' = "request"
    /\ UNCHANGED <<attached, pending>>

Ask ==
    /\ attached /\ ~pending /\ attempt = 0 /\ Len(history) + 2 <= MaxHistory
    /\ \E q \in {<<>>} \union {<<[kind |-> "question", size |-> s]>> : s \in Sizes} :
          /\ question' = q
          /\ request' = BoundedHistory(history \o q)
    /\ attempt' = 1 /\ body' = "request"
    /\ UNCHANGED conversation

Ends == question' = <<>> /\ request' = <<>> /\ attempt' = 0 /\ body' = "request"

(* The model answers, with or without a cell.                              *)
Answered ==
    /\ attempt > 0 /\ body # "no object"
    /\ \E kind \in {"answer", "call"}, s \in Sizes :
          /\ history' = history \o question \o <<[kind |-> kind, size |-> s]>>
          /\ pending' = (kind = "call")
    /\ Ends /\ UNCHANGED attached

(* It answers what the helper cannot use, an error that is not retried, or *)
(* there are no more attempts; what is no JSON object cannot even be sent. *)
Fails ==
    /\ attempt > 0
    /\ Ends /\ UNCHANGED conversation

(* One more attempt.  A faulty variant counts anew after the last.         *)
RetryForever == attempt > 0 /\ body # "no object" /\ attempt' = (attempt % MaxAttempts) + 1

Retry == attempt > 0 /\ body # "no object" /\ attempt < MaxAttempts /\ attempt' = attempt + 1

(* No connection, a transient error, or a 429 that says in its header when *)
(* to come back, or whose text is no JSON.                                 *)
Unavailable ==
    /\ Retry
    /\ UNCHANGED <<conversation, question, request, body>>

(* A 429 without that header: its text is parsed into the variable that    *)
(* holds the request.                                                      *)
RateLimited ==
    /\ Retry
    /\ body' \in {"error object", "no object"}
    /\ UNCHANGED <<conversation, question, request>>

Reply == Answered \/ Fails \/ Unavailable \/ RateLimited

-----------------------------------------------------------------------------
(* What else changes the history *)

(* run: the cell the model proposed, or one of the user's own.             *)
Run ==
    /\ attached /\ attempt = 0 /\ Len(history) < MaxHistory
    /\ \E s \in Sizes :
          history' = Append(history, Clipped([kind |-> IF pending THEN "result" ELSE "output", size |-> s]))
    /\ pending' = FALSE
    /\ UNCHANGED <<attached, call>>

Reject ==
    /\ pending /\ attempt = 0 /\ Len(history) < MaxHistory
    /\ \E s \in Sizes : history' = Append(history, [kind |-> "result", size |-> s])
    /\ pending' = FALSE
    /\ UNCHANGED <<attached, call>>

(* detach and stop leave the history, attach starts a new one.             *)
Detach ==
    /\ attached /\ attempt = 0
    /\ attached' = FALSE /\ pending' = FALSE
    /\ UNCHANGED <<history, call>>

Attach ==
    /\ ~attached
    /\ attached' = TRUE /\ history' = <<>> /\ pending' = FALSE
    /\ UNCHANGED call

ChatNext == Ask \/ Reply \/ Run \/ Reject \/ Detach \/ Attach

(* Every attempt is answered or ends by the timeout of the HTTP client.    *)
ChatSpec == ChatInit /\ [][ChatNext]_chatVars /\ WF_chatVars(Reply)

-----------------------------------------------------------------------------
ChatTypeOK ==
    /\ attached \in BOOLEAN /\ pending \in BOOLEAN
    /\ history \in Seq(Message) /\ Len(history) <= MaxHistory
    /\ question \in Seq(Message) /\ Len(question) <= 1
    /\ request \in Seq(Message)
    /\ attempt \in 0..MaxAttempts
    /\ body \in {"request", "error object", "no object"}

(* What is sent makes sense to the model: it ends with the newest message, *)
(* every tool answer comes directly after the call it answers and every    *)
(* call is followed by its answer, however the history was cut, and after  *)
(* rejections, failed requests and changes of server; it fits, unless the  *)
(* newest message, or pair, alone does not (bounded_history).              *)
SentHistoryIsCoherent ==
    attempt > 0 =>
        /\ \A i \in DOMAIN request :
              /\ request[i].kind = "result" => i > 1 /\ request[i - 1].kind = "call"
              /\ request[i].kind = "call" => i < Len(request) /\ request[i + 1].kind = "result"
        /\ LET full == history \o question
           IN  full # <<>> => /\ request # <<>>
                              /\ request[Len(request)] = Clipped(full[Len(full)])
        /\ Len(request) > 2 => Cost(request, 1) <= Budget

(* A question is in the history only with its answer: a request that       *)
(* failed, after however many attempts, leaves no trace there.             *)
QuestionsAreAnswered ==
    \A i \in DOMAIN history :
        history[i].kind = "question" =>
            i < Len(history) /\ Role[history[i + 1].kind] = "assistant"

(* A retry sends the request again, after whatever made it necessary       *)
(* (complete; its class says that "Retries are limited to connection       *)
(* failures, HTTP 429, and transient 5xx responses").                      *)
RetriesSendTheRequest == attempt > 1 => body = "request"

(* Every request comes to an end, and with it the command that holds the   *)
(* gate, however often the server is busy or out of reach.                 *)
ChatEnds == attempt > 0 ~> attempt = 0

=============================================================================
