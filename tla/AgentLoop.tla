------------------------------ MODULE AgentLoop ------------------------------
(***************************************************************************)
(* The agent inside the container: main() of agent.py and the three        *)
(* agentic loops (OpenAI-compatible, Claude, Gemini) it may choose.        *)
(*                                                                         *)
(* One turn sends the history to the model, appends its reply and, when    *)
(* the reply calls tools, runs them and appends their results.  What the   *)
(* loops add to that is modelled in full: the retries and the rotation of  *)
(* API keys, the fallbacks of the OpenAI loop, the injected warnings and   *)
(* reminders, the trimming of the history, and the rule that a message     *)
(* sent through a tool empties the result handed to the host.              *)
(*                                                                         *)
(* A message of the history is reduced to its kind; a text to whether it   *)
(* is empty, plain, a claim of work done, or holds a block of code.        *)
(***************************************************************************)
EXTENDS Integers, Sequences, FiniteSets, FiniteSetsExt

CONSTANTS
    MaxIter,          \* MAX_ITER: turns of one run (6 or 20 in the code)
    MaxHistory,       \* _MAX_HISTORY_MESSAGES (20 in the code)
    MaxAttempts,      \* max_attempts of _llm_call_with_retry (3)
    PoolSize,         \* number of API keys in the pool
    NoToolCap,        \* turns in a row without a tool call before giving up (3)
    NotifyTurns,      \* silent turns before a reminder (5)
    OnlyNotifyTurns,  \* turns with nothing but messages before a warning (2)
    MaxFails,         \* _MAX_CONSECUTIVE_TOOL_FAILS (3)
    Priors,           \* possible lengths of conversationHistory
    FaultyTurns       \* bound: turns in which calls of the model may fail

ASSUME IterAssumption == MaxIter \in Nat /\ MaxIter >= 1
ASSUME PoolAssumption == PoolSize \in Nat \ {0} /\ MaxAttempts \in Nat \ {0}
ASSUME HistoryAssumption == MaxHistory \in Nat /\ MaxHistory > 2 /\ Priors \subseteq Nat
ASSUME CounterAssumption ==
    NoToolCap \in Nat \ {0} /\ {NotifyTurns, OnlyNotifyTurns, MaxFails} \subseteq Nat

Compat == {"openai", "qwen"}
Backends == Compat \cup {"claude", "gemini"}
\* What the host writes to stdin, as far as main() looks at it.
Inputs == [json : BOOLEAN, compat : BOOLEAN, qwen : BOOLEAN, claude : BOOLEAN,
           google : BOOLEAN, image : BOOLEAN, sdk : BOOLEAN]

NoText == "none"
Texts == {NoText, "plain", "claim", "code"}
RateLimits == {"429", "quota"}
Errors == RateLimits \cup {"transient", "permanent"}

Calls == [i \in 1..2 |-> IF i = 1 THEN "call1" ELSE "call2"]
MessageKinds == {"system", "fewshot", "old", "request", "text", "call1", "call2",
                 "tool", "note"}

VARIABLES
    backend, phase, n, history,
    mode,         \* which of the nested calls of the OpenAI loop is under way
    attempt, key, \* position in _llm_call_with_retry and in the key pool
    limited,      \* keys that answered this call with a rate limit
    no_tool_turns, turns_since_notify, only_notify_turns,
    substantive,  \* _substantive_action_count > 0
    memory_written, fails, completions,
    marked,       \* _messages_sent_via_tool is not empty
    delivered,    \* a message of this run really was written for the host
    final,        \* final_response
    warned,       \* claims this run has rejected so far
    cut,          \* the provider, not the model, ended the last reply
    status, result

callVars == <<mode, attempt, key, limited>>
counterVars == <<no_tool_turns, turns_since_notify, only_notify_turns,
                 substantive, memory_written, fails, completions>>
sendVars == <<marked, delivered>>
emitVars == <<status, result>>
agentVars == <<backend, phase, n, history, callVars, counterVars, sendVars,
               final, warned, cut, emitVars>>

-----------------------------------------------------------------------------
Notes(k) == [i \in 1..k |-> "note"]
Count(b) == IF b THEN 1 ELSE 0

\* A run of tool results at the front has lost the call it belongs to.
DropLeadingTools(s) ==
    LET rest == {i \in DOMAIN s : s[i] # "tool"}
    IN  IF rest = {} THEN <<>> ELSE SubSeq(s, Min(rest), Len(s))

LastOf(s, k) == SubSeq(s, Len(s) - k + 1, Len(s))

\* Mutant: the naive slice the comments of the three loops warn against.
TrimNaively(h, kept) ==
    IF Len(h) <= MaxHistory THEN h
    ELSE SubSeq(h, 1, kept) \o LastOf(h, MaxHistory - kept)

\* The first messages stay, the oldest of the others go.
TrimHistory(h, kept) ==
    IF Len(h) <= MaxHistory THEN h
    ELSE SubSeq(h, 1, kept) \o DropLeadingTools(LastOf(h, MaxHistory - kept))

\* The longest tail that fits the budget has some length: sizes are not modelled.
TrimHistoryToByteBudget(h) ==
    {<<h[1]>> \o DropLeadingTools(LastOf(Tail(h), k)) : k \in 0..(Len(h) - 1)}

Conversation(prior) == [i \in 1..prior |-> "old"] \o <<"request">>
OpenAIHistory(prior) == <<"system">> \o Conversation(prior)
ClaudeHistory(prior) == Conversation(prior)
GeminiHistory(prior) == <<"fewshot", "fewshot">> \o Conversation(prior)

InitialHistory(b, prior) ==
    CASE b \in Compat -> OpenAIHistory(prior)
      [] b = "claude" -> ClaudeHistory(prior)
      [] b = "gemini" -> GeminiHistory(prior)

Backend(i) ==
    CASE i.image /\ i.google -> "gemini"
      [] i.compat /\ ~(i.image /\ i.google) -> IF i.qwen THEN "qwen" ELSE "openai"
      [] i.claude /\ ~i.compat /\ ~(i.image /\ i.google) -> "claude"
      [] OTHER -> "gemini"

Usable(i) == i.json /\ i.sdk /\ (Backend(i) = "gemini" => i.google)

AgentInit ==
    /\ backend = "gemini" /\ phase = "start" /\ n = 0 /\ history = <<>>
    /\ mode = "stream" /\ attempt = 0 /\ key = 0 /\ limited = {}
    /\ no_tool_turns = 0 /\ turns_since_notify = 0 /\ only_notify_turns = 0
    /\ substantive = FALSE /\ memory_written = FALSE /\ fails = 0 /\ completions = 0
    /\ marked = FALSE /\ delivered = FALSE
    /\ final = NoText /\ warned = 0 /\ cut = FALSE
    /\ status = "none" /\ result = NoText

-----------------------------------------------------------------------------
\* main() up to the call of a loop: bad input, a missing SDK or key end the run.
ReadInput(i, prior) ==
    /\ phase = "start"
    /\ backend' = Backend(i)
    /\ IF Usable(i)
         THEN /\ history' = InitialHistory(Backend(i), prior)
              /\ phase' = "turn"
              /\ UNCHANGED status
         ELSE /\ status' = "error" /\ phase' = "done"
              /\ UNCHANGED history
    /\ UNCHANGED <<n, callVars, counterVars, sendVars, final, warned, cut, result>>

\* Qwen is told off instead of being forced to call a tool.
QwenForced == backend = "qwen" /\ no_tool_turns >= 2

\* The part of a turn before the model is called.
PrepareTurn ==
    /\ phase = "turn" /\ n < MaxIter
    /\ LET h == IF QwenForced THEN Append(history, "note") ELSE history
       IN  IF backend \in Compat THEN history' \in TrimHistoryToByteBudget(h)
                                 ELSE history' = h
    /\ no_tool_turns' = IF QwenForced THEN 0 ELSE no_tool_turns
    /\ phase' = "call" /\ mode' = "stream" /\ attempt' = 0 /\ limited' = {}
    /\ UNCHANGED <<backend, n, key, turns_since_notify, only_notify_turns,
                   substantive, memory_written, fails, completions, sendVars,
                   final, warned, cut, emitVars>>

LoopExhausted ==
    /\ phase = "turn" /\ n = MaxIter
    /\ phase' = "returned"
    /\ UNCHANGED <<backend, n, history, callVars, counterVars, sendVars, final,
                   warned, cut, emitVars>>

\* tool_choice = "required"
Forced == no_tool_turns > 0

\* Mutant: one key is never reached.
RotateShort(k) == (k + 1) % Max({1, PoolSize - 1})
Rotate(k) == (k + 1) % PoolSize

\* _llm_call_with_retry tries again.
RetryStep(e, advance) ==
    /\ attempt' = attempt + advance
    /\ IF e \in RateLimits
         THEN /\ limited' = limited \cup {key}
              /\ key' = IF PoolSize > 1 THEN Rotate(key) ELSE key
         ELSE UNCHANGED <<limited, key>>
    /\ UNCHANGED <<phase, mode, final, emitVars>>

\* Mutant: a rate limit does not use up an attempt.
RetryCallFree(e) == RetryStep(e, IF e \in RateLimits THEN 0 ELSE 1)
RetryCall(e) == RetryStep(e, 1)

\* _llm_call_with_retry raises: the OpenAI loop falls back to a call without
\* streaming, and from "required" to "auto"; any other exception ends main().
GiveUpCall(e) ==
    \/ /\ backend \in Compat
       /\ \/ mode = "stream" /\ mode' = "plain"
          \/ mode = "plain" /\ Forced /\ mode' = "auto"
       /\ attempt' = 0 /\ limited' = {}
       /\ UNCHANGED <<phase, key, final, emitVars>>
    \/ /\ mode = "auto"
       /\ final' = "notice" /\ phase' = "returned"
       /\ UNCHANGED <<callVars, emitVars>>
    \/ /\ backend \in Compat => mode = "plain" /\ ~Forced
       /\ phase' = "done"
       /\ IF e = "429" THEN status' = "success" /\ result' = "hint"
                       ELSE status' = "error" /\ UNCHANGED result
       /\ UNCHANGED <<callVars, final>>

CallFails(e) ==
    /\ phase = "call" /\ n \in FaultyTurns
    /\ IF e = "permanent" \/ attempt = MaxAttempts - 1 THEN GiveUpCall(e)
                                                        ELSE RetryCall(e)
    /\ UNCHANGED <<backend, n, history, counterVars, sendVars, warned, cut>>

-----------------------------------------------------------------------------
\* The call has returned: the state of its retries goes out of scope.
CallReturned ==
    /\ phase = "call"
    /\ mode' = "stream" /\ attempt' = 0 /\ limited' = {}
    /\ UNCHANGED key

\* continue
NextTurn == phase' = "turn" /\ n' = n + 1 /\ UNCHANGED final
\* break
Break(text) == phase' = "returned" /\ final' = text /\ UNCHANGED n

\* FAKE-STATUS and SEMANTIC-FAKE: a claim while the run has done no work.
Suspicious(t) == t = "claim" /\ ~substantive /\ n < MaxIter - 1

\* The model answers without calling a tool and the loop rejects the answer.
RejectClaim ==
    /\ history' = history \o <<"text", "note">>
    /\ warned' = warned + 1
    /\ NextTurn

\* finish_reason "length"
LengthStop(t) ==
    /\ CallReturned /\ backend \in Compat
    /\ Break(IF t = NoText THEN "notice" ELSE t)
    /\ cut' = TRUE
    /\ UNCHANGED <<backend, history, counterVars, sendVars, warned, emitVars>>

OpenAITextReply(t, afterCode) ==
    /\ CallReturned /\ backend \in Compat
    /\ \/ /\ no_tool_turns + 1 >= NoToolCap
          /\ no_tool_turns' = no_tool_turns + 1
          /\ Break(IF t = NoText THEN "notice" ELSE t)
          /\ UNCHANGED <<history, warned>>
       \/ /\ no_tool_turns + 1 < NoToolCap
          /\ t = "code" /\ n < MaxIter - 1      \* AUTO-EXEC
          /\ no_tool_turns' = afterCode
          /\ history' = history \o <<"text", "note">>
          /\ NextTurn
          /\ UNCHANGED warned
       \/ /\ no_tool_turns + 1 < NoToolCap
          /\ ~(t = "code" /\ n < MaxIter - 1)
          /\ no_tool_turns' = no_tool_turns + 1
          /\ IF Suspicious(t) THEN RejectClaim
                              ELSE Break(t) /\ UNCHANGED <<history, warned>>
    /\ UNCHANGED <<backend, turns_since_notify, only_notify_turns,
                   substantive, memory_written, fails, completions, sendVars, cut,
                   emitVars>>

\* Mutant: executed code blocks still count as turns without a tool.
OpenAITextKeepCount(t) == OpenAITextReply(t, no_tool_turns + 1)
OpenAIText(t) == OpenAITextReply(t, 0)

TextReply(t) ==
    /\ IF Suspicious(t) THEN RejectClaim
                        ELSE Break(t) /\ UNCHANGED <<history, warned>>
    /\ UNCHANGED <<backend, counterVars, sendVars, cut, emitVars>>

\* stop_reason "end_turn"
ClaudeText(t) == CallReturned /\ backend = "claude" /\ TextReply(t)

\* A reply without a function call.  (The cap on turns without a tool is the
\* last branch before the same break, so it decides nothing.)
GeminiText(t) == CallReturned /\ backend = "gemini" /\ TextReply(t)

\* Gemini's safety, recitation and max_tokens stops.
GeminiBlocked ==
    /\ CallReturned /\ backend = "gemini"
    /\ Break("notice")
    /\ cut' = TRUE
    /\ UNCHANGED <<backend, history, counterVars, sendVars, warned, emitVars>>

EmptyReply ==
    /\ Break(final)
    /\ UNCHANGED <<backend, history, counterVars, sendVars, warned, cut, emitVars>>

\* stop_reason "tool_use" without a tool_use block
ClaudeNoBlocks == CallReturned /\ backend = "claude" /\ EmptyReply
\* no candidate, no content or no parts
GeminiEmpty == CallReturned /\ backend = "gemini" /\ EmptyReply

-----------------------------------------------------------------------------
\* execute_tool for send_message: refused before it is marked, marked and then
\* not written (an empty text, a failing disk), or written for the host.
Sends == {"refused", "unsent", "sent"}

MarkSent(s) ==
    /\ marked' = (marked \/ s \in {"unsent", "sent"})
    /\ delivered' = (delivered \/ s = "sent")

\* Claude stops for another reason; after max_tokens the pending tools still run.
ClaudeOtherStop(t, s) ==
    /\ CallReturned /\ backend = "claude"
    /\ Break(t)
    /\ cut' = TRUE
    /\ MarkSent(s)
    /\ UNCHANGED <<backend, history, counterVars, warned, emitVars>>

\* The tools of a turn: which kinds were called, what became of the message,
\* whether MEMORY.md was written, how the tool that keeps failing did this time,
\* and how many of the messages confirm completion.
Turns == {t \in [calls : 1..2, work : BOOLEAN, send : Sends \cup {"no"}, memory : BOOLEAN,
                 outcome : {"fail", "ok", "other"}, confirms : 0..2] :
            /\ t.work /\ t.send # "no" => t.calls = 2
            /\ t.memory => t.work
            /\ t.confirms > 0 => t.send # "no"
            /\ t.confirms = 2 => ~t.work /\ t.calls = 2}

Sent(t) == t.send # "no"
\* _only_notify_turns and _turns_since_notify after the turn
OnlyNotify(t) == IF Sent(t) /\ ~t.work THEN only_notify_turns + 1 ELSE 0
SinceNotify(t) ==
    IF ~Sent(t) THEN turns_since_notify + 1 ELSE IF t.work THEN 0 ELSE turns_since_notify

\* The milestone enforcer: too long silent, or nothing but messages.
Silent(t) == ~Sent(t) /\ SinceNotify(t) >= NotifyTurns /\ n < MaxIter - 2
Idle(t) == OnlyNotify(t) >= OnlyNotifyTurns /\ n < MaxIter - 2
Warning(t) == Count(Silent(t) \/ Idle(t))

\* The reminders of the last turn but one.
RemindMemory(t) == Count(n = MaxIter - 2 /\ ~(memory_written \/ t.memory))
RemindSend(t) == Count(n = MaxIter - 2 /\ SinceNotify(t) > 0)

\* _tool_fail_counter of the tool that fails, and the warning at its limit
FailCount(t) == CASE t.outcome = "fail" -> Min({fails + 1, MaxFails})
                  [] t.outcome = "ok" -> 0
                  [] t.outcome = "other" -> fails
RetryWarning(t) == Count(t.outcome = "fail" /\ FailCount(t) = MaxFails)

\* What the three loops do alike with the tools of a turn.
RunTools(t) ==
    /\ CallReturned
    /\ no_tool_turns' = 0
    /\ substantive' = (substantive \/ t.work)
    /\ memory_written' = (memory_written \/ t.memory)
    /\ only_notify_turns' = Min({OnlyNotify(t), OnlyNotifyTurns})
    /\ turns_since_notify' = IF Silent(t) \/ RemindSend(t) = 1 THEN 0
                             ELSE Min({SinceNotify(t), NotifyTurns})
    /\ fails' = FailCount(t)
    /\ MarkSent(t.send)
    /\ UNCHANGED <<backend, warned, cut, emitVars>>

Answered(t, k) == history \o <<Calls[t.calls]>> \o [i \in 1..k |-> "tool"]

\* Reminders are deferred until all results are in the history.
OpenAITools(t) ==
    /\ backend \in Compat /\ RunTools(t)
    /\ history' = TrimHistory(Answered(t, t.calls)
                       \o Notes(Warning(t) + RemindMemory(t) + RemindSend(t) + RetryWarning(t)), 1)
    /\ NextTurn
    /\ UNCHANGED completions

\* The reminders of the last turn but one come after the trim.
ClaudeTools(t) ==
    /\ backend = "claude" /\ RunTools(t)
    /\ history' = TrimHistory(Answered(t, 1) \o Notes(Warning(t) + RetryWarning(t)), 1)
                     \o Notes(RemindMemory(t) + RemindSend(t))
    /\ NextTurn
    /\ UNCHANGED completions

\* A retry warning joins the milestone warning, and the second message that
\* confirms completion ends the loop.
GeminiTools(t) ==
    /\ backend = "gemini" /\ RunTools(t)
    /\ history' = TrimHistory(Answered(t, 1)
                       \o Notes(Max({Warning(t), RetryWarning(t)})
                                + RemindMemory(t) + RemindSend(t)), 2)
    /\ completions' = Min({completions + t.confirms, 2})
    /\ IF completions' = 2 THEN Break(final) ELSE NextTurn

\* main() after the loop: what was sent through the tool is not sent again,
\* and the process ends with its history.
Emit ==
    /\ phase = "returned" /\ history' = <<>>
    /\ phase' = "done" /\ status' = "success"
    /\ result' = CASE marked -> NoText
                   [] ~marked -> IF final = NoText THEN "notice" ELSE final
    /\ UNCHANGED <<backend, n, callVars, counterVars, sendVars, final, warned, cut>>

AgentNext ==
    \/ \E i \in Inputs, prior \in Priors : ReadInput(i, prior)
    \/ PrepareTurn \/ LoopExhausted
    \/ \E e \in Errors : CallFails(e)
    \/ \E t \in Texts : LengthStop(t) \/ OpenAIText(t) \/ ClaudeText(t) \/ GeminiText(t)
    \/ GeminiBlocked \/ GeminiEmpty \/ ClaudeNoBlocks
    \/ \E t \in Texts, s \in Sends \cup {"no"} : ClaudeOtherStop(t, s)
    \/ \E t \in Turns : OpenAITools(t) \/ ClaudeTools(t) \/ GeminiTools(t)
    \/ Emit

\* The SDKs' timeouts end every call, so the single thread of the agent moves on.
AgentSpec == AgentInit /\ [][AgentNext]_agentVars /\ WF_agentVars(AgentNext)

-----------------------------------------------------------------------------
\* The agent's variables stay in their ranges; the key index of _KeyPool stays
\* inside the pool over every rotation of a run.
AgentTypeOK ==
    /\ backend \in Backends
    /\ phase \in {"start", "turn", "call", "returned", "done"}
    /\ n \in 0..MaxIter
    /\ \A i \in DOMAIN history : history[i] \in MessageKinds
    /\ mode \in {"stream", "plain", "auto"} /\ attempt \in 0..(MaxAttempts - 1)
    /\ key \in 0..(PoolSize - 1) /\ limited \subseteq 0..(PoolSize - 1)
    /\ no_tool_turns \in 0..NoToolCap
    /\ turns_since_notify \in 0..NotifyTurns /\ only_notify_turns \in 0..OnlyNotifyTurns
    /\ {substantive, memory_written, marked, delivered, cut} \subseteq BOOLEAN
    /\ fails \in 0..MaxFails /\ completions \in 0..2 /\ warned \in 0..MaxIter
    /\ final \in Texts \cup {"notice"}
    /\ status \in {"none", "success", "error"}
    /\ result \in Texts \cup {"notice", "hint"}

\* Results a call needs: one message per call for the OpenAI API, one message
\* with all results for the other two.
Replies(m) == CASE m = "call1" -> 1
                [] m = "call2" -> IF backend \in Compat THEN 2 ELSE 1
                [] OTHER -> 0

\* Every history sent to a model answers each tool call directly after it, and
\* holds no result whose call was trimmed away, whatever the byte trim, the
\* count trim, the warnings and the reminders did to it (the APIs reject any
\* other history with a 400, which would end the run).
RequestWellFormed ==
    phase = "call" =>
        \A i \in 1..(Len(history) + 2) :
            (\E j \in DOMAIN history : j < i /\ i - j <= Replies(history[j]))
            <=> (i \in DOMAIN history /\ history[i] = "tool")

\* A claim of finished work that no substantive tool backs becomes the answer
\* of the run only on its last turn, after the loop has rejected such claims as
\* often as it allows, or when the provider cut the reply short.
UnbackedClaimWarned ==
    final = "claim" /\ ~substantive /\ ~cut =>
        n = MaxIter - 1 \/ warned >= NoToolCap - 1

\* Within one call, no attempt is made with a key that has already answered
\* with a rate limit while another key of the pool has not.
LimitedKeysSkipped ==
    phase = "call" /\ key \in limited => limited = 0..(PoolSize - 1)

\* Every run ends: whatever the model and the provider do, the agent reaches
\* the point where its one JSON answer has been emitted.
AgentAnswers == []<>(phase = "done" /\ status # "none")

\* agent.py: "emit a minimal fallback so the user never sees pure silence": a
\* successful run has handed a message to the host or returns a text for it.
NeverSilent == status = "success" => delivered \/ result # NoText

\* The three loops of the agent: histories the APIs accept, unbacked claims challenged, rate
\* limited keys skipped, and every counter in range.
AgentSound == AgentTypeOK /\ RequestWellFormed /\ UnbackedClaimWarned /\ LimitedKeysSkipped

=============================================================================
