----------------------------- MODULE RestClient -----------------------------
(***************************************************************************)
(* One request to the exchange, as pkg/binance makes it: GetCast           *)
(* (client.go) with its attempts, the limiter that every request of the    *)
(* process shares and the waits it imposes (limits.go).                    *)
(*                                                                         *)
(* The exchange counts a weight for every request that reaches it, per     *)
(* minute and address, and tells the count with every answer.  Nothing is  *)
(* said of what else it may answer: any status comes at any time.  The     *)
(* clock is the second of the exchange's minute; waits are passed at once. *)
(*                                                                         *)
(* One caller makes one request after the other, whenever it likes and     *)
(* with as many pauses as it likes: what FetchKlinesAll and LoadCandles do *)
(* (module KlinePages has what they make of the answers).                  *)
(***************************************************************************)
EXTENDS Naturals, Sequences

CONSTANTS
    Cap,          \* weightLimitPerMinute
    Margins,      \* distance to the cap at which waitIfHeavy begins to wait ...
    Delays,       \* ... and how long, from the closest to the farthest
    MaxAttempts,  \* maxRequestAttempts
    Cost,         \* external: weight of one request
    Others,       \* external: weight other programs use up at once each minute
    RetryAfters,  \* external: values of Retry-After, 0 when it is missing
    Latencies     \* external: seconds an answer may take

Minute == 60

ASSUME RestAssumption ==
    /\ {Cap, Cost, Others} \subseteq Nat
    /\ MaxAttempts \in Nat \ {0}
    /\ Len(Margins) = Len(Delays)
    /\ RetryAfters \subseteq Nat /\ Latencies \subseteq Nat

VARIABLES
    pc,         \* "idle", "guard", "send", "sent", "retry" or "answered"
    attempt,
    wait,       \* pause before the next attempt
    lastBody,   \* lastLimitErr.API # nil
    reply,      \* what GetCast returns
    cancelled,  \* ctx.Done()
    used,       \* ipLimiter.usedWeight
    weight,     \* the exchange's count of this minute
    second,     \* second of the exchange's minute
    lost        \* history: an answer of this minute did not arrive

vars == <<pc, attempt, wait, lastBody, reply, cancelled, used, weight, second, lost>>

OK == 200
IPBanned == 418
RateLimited == 429
Forbidden == 403
OtherStatus == 500

\* isRetryableStatus
Retryable == {RateLimited, IPBanned, Forbidden}

NoReply == [kind |-> "none", body |-> FALSE]
Reply(k, b) == [kind |-> k, body |-> b]

\* waitIfHeavy: the first margin the used weight has come within.
HeavyWait ==
    LET near == {i \in 1 .. Len(Margins) : used + Margins[i] >= Cap}
    IN IF near = {} THEN 0
       ELSE Delays[CHOOSE i \in near : \A j \in near : i <= j]

\* 1 << attempt seconds, at most 30.
Backoffs == <<1, 2, 4, 8, 16>>
Backoff == IF attempt < Len(Backoffs) THEN Backoffs[attempt + 1] ELSE 30

\* retryAfterDuration
RetryWait(status, after) ==
    IF after > 0 THEN after
    ELSE CASE status = IPBanned -> 60
           [] status = RateLimited -> Backoff
           [] status = Forbidden -> 300
           [] OTHER -> 1

-----------------------------------------------------------------------------
\* Time passes for d seconds while `w` is the weight counted so far; a new
\* minute starts with what others use.
Pass(d, w, l) ==
    /\ second' = (second + d) % Minute
    /\ IF second + d >= Minute THEN weight' = Others /\ lost' = FALSE
                               ELSE weight' = w /\ lost' = l

Answered(r) ==
    /\ reply' = r
    /\ pc' = "answered"

\* sleepContext: to its end, or cut short when the caller goes away.
Sleep(d)    == Pass(d, weight, lost)
CutShort(d) == d > 0 /\ cancelled /\ Answered(Reply("cancelled", FALSE))

Init ==
    /\ pc = "idle" /\ attempt = 0 /\ wait = 0 /\ lastBody = FALSE
    /\ reply = NoReply
    /\ cancelled = FALSE
    /\ used = 0
    /\ weight = Others /\ second = 0 /\ lost = FALSE

Call ==
    /\ pc = "idle"
    /\ pc' = "guard"
    /\ UNCHANGED <<attempt, wait, lastBody, reply, cancelled, used, weight, second, lost>>

\* waitIfHeavy.
Guard ==
    /\ pc = "guard"
    /\ \/ /\ pc' = "send"
          /\ Sleep(HeavyWait)
          /\ UNCHANGED reply
       \/ CutShort(HeavyWait) /\ UNCHANGED <<weight, second, lost>>
    /\ UNCHANGED <<attempt, wait, lastBody, cancelled, used>>

\* client.Do does not send for a caller that is gone, and may not reach the
\* exchange.
Send ==
    /\ pc = "send"
    /\ \/ /\ ~cancelled
          /\ weight' = weight + Cost
          /\ pc' = "sent"
          /\ UNCHANGED reply
       \/ Answered(Reply("transport", FALSE)) /\ UNCHANGED weight
    /\ UNCHANGED <<attempt, wait, lastBody, cancelled, used, second, lost>>

\* The request was counted, but its answer does not arrive (in time): once in a
\* minute at most, as a bound.
LoseAnswer ==
    /\ pc = "sent" /\ ~lost
    /\ Answered(Reply("transport", FALSE))
    /\ lost' = TRUE
    /\ UNCHANGED <<attempt, wait, lastBody, cancelled, used, weight, second>>

\* Mutant: the weight of a refused request is not taken over.
UpdateUnlessRefused(status) == used' = IF status = OK THEN weight ELSE used

\* updateFromHeaders: the weight the answer tells, whatever its status; the exchange
\* counted before it answered.
UpdateFromHeaders(status) == used' = weight

\* Mutant: the last attempt, too, is followed by a pause.
AlwaysRetried(status) == status \in Retryable

IsRetried(status) == status \in Retryable /\ attempt < MaxAttempts - 1

\* What is returned for an answer that is not retried; `body` says that it could be
\* decoded, as candles or as an error of the exchange.
ReplyTo(status, body) ==
    CASE ~body                 -> Reply("decode", FALSE)
      [] status = OK           -> Reply("batch", TRUE)
      [] status \in Retryable  -> Reply("limit", TRUE)
      [] status = OtherStatus  -> Reply("api", TRUE)

\* An answer: the limiter takes over its weight, a refusal is followed by a pause while
\* attempts are left, and everything else is returned.
Answer(status, body) ==
    /\ pc = "sent"
    /\ \E d \in Latencies : Pass(d, weight, lost)
    /\ UpdateFromHeaders(status)
    /\ IF IsRetried(status)
       THEN /\ pc' = "retry"
            /\ \E after \in RetryAfters : wait' = RetryWait(status, after)
            /\ lastBody' = body
            /\ UNCHANGED reply
       ELSE Answered(ReplyTo(status, body)) /\ UNCHANGED <<wait, lastBody>>
    /\ UNCHANGED <<attempt, cancelled>>

\* Mutant: the pause does not count as an attempt.
RetryForEver ==
    /\ pc = "retry"
    /\ \/ Sleep(wait) /\ pc' = "guard"
       \/ cancelled /\ pc' = "guard" /\ UNCHANGED <<weight, second, lost>>
    /\ UNCHANGED <<attempt, reply, wait, lastBody, cancelled, used>>

\* The pause after a refusal; when the loop runs out the last refusal is
\* returned with whatever body it had.
Retry ==
    /\ pc = "retry"
    /\ \/ /\ Sleep(wait)
          /\ attempt' = attempt + 1
          /\ IF attempt + 1 < MaxAttempts
             THEN pc' = "guard" /\ UNCHANGED reply
             ELSE Answered(Reply("limit", lastBody))
       \/ CutShort(wait) /\ UNCHANGED <<attempt, weight, second, lost>>
    /\ wait' = 0
    /\ UNCHANGED <<lastBody, cancelled, used>>

\* The caller takes the reply, and what the request kept for itself is gone.
Return ==
    /\ pc = "answered"
    /\ pc' = "idle" /\ attempt' = 0 /\ wait' = 0 /\ lastBody' = FALSE
    /\ reply' = NoReply
    /\ cancelled' = FALSE
    /\ UNCHANGED <<used, weight, second, lost>>

\* The caller may take its time before the next request ...
Rest ==
    /\ pc = "idle"
    /\ Pass(1, weight, lost)
    /\ UNCHANGED <<pc, attempt, wait, lastBody, reply, cancelled, used>>

\* ... and may go away while one is under way.
Cancel ==
    /\ pc \in {"guard", "send", "sent", "retry"} /\ ~cancelled
    /\ cancelled' = TRUE
    /\ UNCHANGED <<pc, attempt, wait, lastBody, reply, used, weight, second, lost>>

Request ==
    \/ Guard \/ Send \/ LoseAnswer \/ Retry
    \/ \E status \in {OK, RateLimited, IPBanned, Forbidden, OtherStatus},
          body \in BOOLEAN : Answer(status, body)

Next == Call \/ Request \/ Return \/ Rest \/ Cancel

\* A request goes on: sleeps end, and an answer or the client's timeout of
\* thirty seconds comes.
Spec == Init /\ [][Next]_vars /\ WF_vars(Request)

-----------------------------------------------------------------------------
TypeOK ==
    /\ pc \in {"idle", "guard", "send", "sent", "retry", "answered"}
    /\ attempt \in 0 .. MaxAttempts - 1
    /\ wait \in Nat /\ lastBody \in BOOLEAN
    /\ reply \in [kind : {"none", "batch", "limit", "api", "decode", "transport",
                          "cancelled"}, body : BOOLEAN]
    /\ cancelled \in BOOLEAN /\ lost \in BOOLEAN
    /\ used \in Nat /\ weight \in Nat /\ second \in 0 .. Minute - 1

\* limits.go: the pauses "when the IP is close to the per-minute weight cap" keep
\* a program that makes one request after the other under the cap: whatever is
\* answered, refused, retried or left from the minute before, and however the
\* requests fall into the minute, as long as no answer is lost.
WeightStaysUnderCap == ~lost => weight <= Cap

\* A rate limit error that is returned always has the body its Error method
\* reads, although the one kept for the retries may have none.
LimitErrorHasBody == reply.kind = "limit" => reply.body

\* Every request is answered or fails: the attempts are counted whatever the
\* exchange refuses, and no pause restarts the count.
RequestEnds == pc = "guard" ~> pc = "answered"
=============================================================================
