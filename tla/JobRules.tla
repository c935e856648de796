------------------------------ MODULE JobRules ------------------------------
(***************************************************************************)
(* The rules a job passes on its way: the coordinator validates the        *)
(* request against the limits of the model, the scheduler chooses among    *)
(* the candidates, the node validates the offer by rules of its own, and   *)
(* the coordinator judges the usage the node reports before it is billed.  *)
(*                                                                         *)
(* Text is its length in runes, 0 when it is blank; a temperature is in    *)
(* tenths, and 0 when it is not given.  The hashes and the signature of a  *)
(* completion are taken to be right here: JobRouting has those checks.     *)
(***************************************************************************)
EXTENDS Integers, Sequences, FiniteSets, FiniteSetsExt, SequencesExt, TLC

CONSTANTS
    Requests,    \* chat completion requests
    Models,      \* models with their limits
    Completions, \* what a node may report
    Fields       \* the lists of candidates the scheduler may see

RulesAssumption ==
    /\ \A r \in Requests : DOMAIN r = {"model", "bytes", "stream", "tools", "messages",
                                        "max_tokens", "temperature"}
    \* EligibleNodes lists them by node.
    /\ \A c \in Fields : c # <<>> /\ \A i \in 2..Len(c) : c[i - 1].node <= c[i].node

VARIABLES
    stage,    \* new, accepted, refused, offered, declined, reported, billed, rejected
    request,  \* the request
    model,    \* the model it is validated against
    offer,    \* the chat request sent to the node
    chosen,   \* the candidate chosen, with the list it was chosen from
    usage,    \* what the node reported
    status    \* the metering status recorded

vars == <<stage, request, model, offer, chosen, usage, status>>

Roles == {"system", "user", "assistant"}

MaxPublicRequestBytes == 262144

-----------------------------------------------------------------------------
(* The request.                                                            *)

estimateTokens(runes) == IF runes = 0 THEN 0 ELSE (runes + 3) \div 4

Estimate(messages) == FoldSeq(LAMBDA m, sum : sum + estimateTokens(m.runes), 0, messages)

Positive(n, default) == IF n <= 0 THEN default ELSE n

maxRequestBytes(m) == IF m.bytes <= 0 \/ m.bytes > MaxPublicRequestBytes THEN MaxPublicRequestBytes
                      ELSE m.bytes

TextOnly(messages) ==
    /\ messages # <<>>
    /\ \A i \in DOMAIN messages : messages[i].role \in Roles /\ messages[i].runes # 0

\* max_tokens is set when it was not given.
Offered(r, m) == [messages |-> r.messages, stream |-> FALSE,
                  max_tokens |-> Positive(r.max_tokens, Positive(m.output, 1024))]

Validates(r, m) ==
    /\ r.model = m.id /\ "chat_completions" \in m.capabilities
    /\ r.bytes <= maxRequestBytes(m)
    /\ ~r.stream /\ ~r.tools
    /\ TextOnly(r.messages)
    /\ Estimate(r.messages) <= Positive(m.input, 4096)
    /\ Positive(r.max_tokens, Positive(m.output, 1024)) <= Positive(m.output, 1024)
    /\ r.temperature \in 0..20

ValidateChatCompletion ==
    /\ stage = "new"
    /\ IF Validates(request, model)
       THEN offer' = Offered(request, model) /\ stage' = "accepted"
       ELSE stage' = "refused" /\ UNCHANGED offer
    /\ UNCHANGED <<request, model, chosen, usage, status>>

-----------------------------------------------------------------------------
(* The scheduler.                                                          *)

DefaultSchedulerWeights == [warm |-> 40, success |-> 20, rest |-> 15 + 10 + 5 + 5 + 5]

\* EligibleNodes gives every candidate 1 for what is not measured; the rolling success
\* rate is in ten-thousandths.
scoreCandidate(c) ==
    (DefaultSchedulerWeights.warm + DefaultSchedulerWeights.rest) * 10000
      + DefaultSchedulerWeights.success * c.success

Before(a, b) == \/ scoreCandidate(a) > scoreCandidate(b)
                \/ scoreCandidate(a) = scoreCandidate(b) /\ a.node < b.node

Choose(candidates) == SortSeq(candidates, Before)[1]

scheduleAttempt(candidates) ==
    /\ stage = "accepted"
    /\ chosen' = [node |-> Choose(candidates), from |-> candidates]
    /\ stage' = "offered"
    /\ UNCHANGED <<request, model, offer, usage, status>>

-----------------------------------------------------------------------------
(* The node.                                                               *)

Acceptable(o) == /\ ~o.stream /\ TextOnly(o.messages)
                 /\ o.max_tokens > 0 /\ o.max_tokens <= 1024

\* The node answers the offer, and reports what it did when it took it.
validateOfferRequest(c) ==
    /\ stage = "offered"
    /\ IF Acceptable(offer) THEN stage' = "reported" /\ usage' = c
       ELSE stage' = "declined" /\ UNCHANGED usage
    /\ UNCHANGED <<request, model, offer, chosen, status>>

-----------------------------------------------------------------------------
(* Metering.                                                               *)

Reject(code) == <<[code |-> code, severity |-> "reject"]>>
Flag(code)   == <<[code |-> code, severity |-> "flag"]>>
When(cond, issue) == IF cond THEN issue ELSE <<>>

\* Tokens in a second beyond 5000, without the division.
TooFast(u) == u.millis > 0 /\ u.total > 0 /\ u.total * 1000 > 5000 * u.millis

\* Completions longer than asked for are refused at once: mutant of OutputBound.
OutputBoundStrict(req) == Positive(req.max_tokens, 1024) - 1

OutputBound(req) == Positive(req.max_tokens, 1024) * 2 + 16

PlausibilityIssues(req, u) ==
    IF ~u.message THEN Reject("missing_message")
    ELSE LET prompt == Estimate(req.messages)
             text == estimateTokens(u.runes)
         IN  When(u.role # "assistant", Reject("bad_role"))
             \o When(u.runes = 0, Reject("empty_completion"))
             \o When(u.prompt < 0 \/ u.completion < 0 \/ u.total < 0, Reject("negative_usage"))
             \o When(u.total # u.prompt + u.completion, Reject("usage_total_mismatch"))
             \o When(prompt > 0 /\ u.prompt > prompt * 8 + 128, Flag("prompt_tokens_outlier"))
             \o When(u.completion > OutputBound(req), Reject("completion_tokens_outlier"))
             \o When(text > 0 /\ u.completion > text * 8 + 128, Flag("completion_length_outlier"))
             \o When(TooFast(u), Flag("duration_outlier"))

\* ValidateCompletionForAcceptance: no issue rejects.
Accepts(issues) == \A i \in DOMAIN issues : issues[i].severity # "reject"

meteringStatus(issues) ==
    IF issues = <<>> THEN "accepted" ELSE IF Accepts(issues) THEN "flagged" ELSE "rejected"

\* The part of the job.completed handler that judges and records.
HandleCompletion ==
    /\ stage = "reported"
    /\ LET issues == PlausibilityIssues(offer, usage) IN
       /\ status' = meteringStatus(issues)
       /\ stage' = IF Accepts(issues) THEN "billed" ELSE "rejected"
    /\ UNCHANGED <<request, model, offer, chosen, usage>>

-----------------------------------------------------------------------------
Nothing == [messages |-> <<>>, max_tokens |-> 0, stream |-> FALSE]

Init ==
    /\ stage = "new" /\ request \in Requests /\ model \in Models
    /\ offer = Nothing
    /\ chosen = [node |-> [node |-> 0, success |-> 0], from |-> <<>>]
    /\ usage = [message |-> FALSE] /\ status = "none"

Next ==
    \/ ValidateChatCompletion
    \/ \E candidates \in Fields : scheduleAttempt(candidates)
    \/ \E c \in Completions : validateOfferRequest(c)
    \/ HandleCompletion

Spec == Init /\ [][Next]_vars

-----------------------------------------------------------------------------
(* Properties.                                                             *)

\* The stages and the metering status are those of the code.
TypeOK ==
    /\ stage \in {"new", "accepted", "refused", "offered", "declined", "reported", "billed", "rejected"}
    /\ status \in {"none", "accepted", "flagged", "rejected"}

\* A request the coordinator accepts is never declined by a node, as long as the model's
\* output limit is within what nodes take: the two sets of rules agree.
AcceptedIsTaken == model.output <= 1024 => stage # "declined"

\* A node that reports what it did is paid: an answer within max_tokens whose counts add
\* up is not rejected.
HonestIsBilled ==
    stage = "rejected" =>
        ~(/\ usage.message /\ usage.role = "assistant" /\ usage.runes > 0
          /\ usage.prompt >= 0 /\ usage.completion >= 0
          /\ usage.total = usage.prompt + usage.completion
          /\ usage.completion <= offer.max_tokens)

\* No eligible candidate has a better success rate than the one chosen, and of those as
\* good the first by name is chosen.
ChoosesBest ==
    chosen.from # <<>> =>
        \A c \in ToSet(chosen.from) :
            c # chosen.node => \/ c.success < chosen.node.success
                               \/ c.success = chosen.node.success /\ c.node > chosen.node.node

\* An oversized completion is never billed: the completion tokens billed are bounded by
\* the max_tokens the node was offered.
BilledIsBounded == stage = "billed" => usage.completion <= offer.max_tokens * 2 + 16

\* The rules of a job agree (validation.go, scheduler.go, agent.go, metering.go): what
\* was accepted is taken, the best node gets it, and an honest report is paid while an
\* oversized one is not.
RulesAgree == AcceptedIsTaken /\ ChoosesBest /\ HonestIsBilled /\ BilledIsBounded
=============================================================================
