---------------------------- MODULE Completions ----------------------------
(***************************************************************************)
(* The AI client, src/src/agents/integrations/ai_integration.py, as the    *)
(* content agent uses it to generate the variations of one piece of        *)
(* content: src/src/agents/content_creation_testing_agent.py.              *)
(*                                                                         *)
(* A task asks for all its variations at once (asyncio.gather), then asks  *)
(* the fallback models for those that failed.  The agent does one task at  *)
(* a time; counters, limits and history live as long as its process, the   *)
(* cached answers as long as Redis keeps them.  Between two awaits that    *)
(* suspend (an answer, a sleep) a request runs undisturbed: nothing holds  *)
(* TOKEN_COUNTER_LOCK over one.                                            *)
(*                                                                         *)
(* An answered request is charged, recorded, cached, and then logged with  *)
(* the name kwargs, which the method does not have: the NameError makes    *)
(* the attempt a failure.  Every request so ends without a completion.     *)
(***************************************************************************)
EXTENDS Naturals, FiniteSets, Sequences

CONSTANTS
  Variations,       \* the variations a task asks for
  Providers,
  FirstModel,       \* the model each variation is asked of first
  FallbackModel,    \* the model it is asked of when that failed
  ProviderOf,       \* the provider of each model
  Approach,         \* what distinguishes the prompts of two variations
  RetryCount,
  TokensPerMinute,  \* the configured rate limit
  Need,             \* tokens of the prompt + max_tokens
  MinHistory,       \* attempts before the limit adapts (10 in the code)
  HistorySize       \* bound: the attempts of the last five minutes

Models == DOMAIN ProviderOf
Keys   == Models \X {Approach[v] : v \in Variations}
Used   == 1 .. Need   \* what an answer may cost, prompt and completion

ASSUME CompletionsAssumption ==
  /\ IsFiniteSet(Variations)
  /\ ProviderOf \in [Models -> Providers]
  /\ FirstModel \in [Variations -> Models]
  /\ FallbackModel \in [Variations -> Models]
  /\ RetryCount \in Nat \ {0} /\ Need \in Nat \ {0}
  /\ TokensPerMinute \in Nat /\ TokensPerMinute >= Need
  /\ MinHistory \in Nat \ {0} /\ HistorySize \in Nat
  /\ MinHistory <= HistorySize

VARIABLES
  configured,  \* providers whose API key was set when the process started
  round,       \* "idle", or the round of requests of the agent's task
  stage,       \* where the request of each variation is
  attempt,     \* which attempt that is
  tokens,      \* TOKEN_COUNTERS: tokens charged in this minute
  due,         \* the minute of a counter is over
  limit,       \* tokens_per_minute as adapted
  history,     \* REQUEST_HISTORY: TRUE for a success
  cached       \* Redis: the keys that have an answer

counters == <<tokens, due, limit, history>>
requests == <<stage, attempt>>
vars == <<configured, round, requests, counters, cached>>

Init ==
  /\ configured \in SUBSET Providers
  /\ round = "idle"
  /\ stage = [v \in Variations |-> "failed"]
  /\ attempt = [v \in Variations |-> 0]
  /\ tokens = [p \in Providers |-> 0]
  /\ due = [p \in Providers |-> FALSE]
  /\ limit = [p \in Providers |-> TokensPerMinute]
  /\ history = [p \in Providers |-> << >>]
  /\ cached = {}

Model(v, r) == IF r = "first" THEN FirstModel[v] ELSE FallbackModel[v]
Provider(v) == ProviderOf[Model(v, round)]

-----------------------------------------------------------------------------
(***************************************************************************)
(* Counters.  Both functions first put back a counter whose minute is      *)
(* over; only the minute's counter is ever compared with a limit.          *)
(***************************************************************************)
Charged(p) == IF due[p] THEN 0 ELSE tokens[p]

(* Mutants of Admitted: what the request needs is forgotten, or the limit is
   the configured one. *)
AdmittedAtLimit(p) == Charged(p) <= limit[p]
AdmittedAsConfigured(p) == Charged(p) + Need <= TokensPerMinute

Admitted(p) == Charged(p) + Need <= limit[p]

Failures(h) == Cardinality({i \in DOMAIN h : ~h[i]})

(* The history may lose its oldest attempts with every trimming (Expire); it
   never has more than HistorySize. *)
Recorded(h, success) ==
  LET all == Append(h, success) IN
  IF Len(all) > HistorySize THEN Tail(all) ELSE all

(* More than 5% of failures lower the limit by a fifth.  The branch that would
   raise it asks for no failure at all, right after one was recorded, and for
   less than the limit it has just read as the original one. *)
Adapted(l, h) ==
  IF Len(h) < MinHistory THEN l
  ELSE IF 20 * Failures(h) > Len(h) THEN (l * 4) \div 5
  ELSE l

-----------------------------------------------------------------------------
(***************************************************************************)
(* A round of requests: each looks in the cache (an answer found there     *)
(* raises the same NameError), is refused over the limit, or is sent.      *)
(***************************************************************************)
Missed(vs, r) ==
  {v \in vs : /\ ProviderOf[Model(v, r)] \in configured
              /\ <<Model(v, r), Approach[v]>> \notin cached}

Ask(vs, r) ==
  LET missed == Missed(vs, r)
      asked  == {ProviderOf[Model(v, r)] : v \in missed}
  IN /\ round' = r
     /\ stage' = [v \in Variations |->
                    IF v \in missed /\ Admitted(ProviderOf[Model(v, r)])
                    THEN "waiting" ELSE "failed"]
     /\ attempt' = [v \in Variations |-> 1]
     /\ tokens' = [p \in Providers |-> IF p \in asked THEN Charged(p) ELSE tokens[p]]
     /\ due' = [p \in Providers |-> due[p] /\ p \notin asked]
     /\ UNCHANGED <<configured, limit, history, cached>>

StartTask == round = "idle" /\ Ask(Variations, "first")

RoundOver == \A v \in Variations : stage[v] = "failed"

Fallback == round = "first" /\ RoundOver /\ Ask(Variations, "fallback")

(* The list of the variations that were made is the task's result, empty as it
   is: `success' with no content, and the templates are not used. *)
EndTask ==
  /\ round = "fallback" /\ RoundOver
  /\ round' = "idle"
  /\ UNCHANGED <<configured, requests, counters, cached>>

(* Mutant of AttemptFails: one attempt more than retry_count. *)
AttemptFailsOnceMore(v) ==
  /\ stage' = [stage EXCEPT ![v] = IF attempt[v] = RetryCount + 1 THEN "failed" ELSE "sleeping"]
  /\ UNCHANGED <<configured, round, attempt>>

(* The except branch: adapt the limit, then sleep, or give up. *)
AttemptFails(v) ==
  /\ stage' = [stage EXCEPT ![v] = IF attempt[v] = RetryCount THEN "failed" ELSE "sleeping"]
  /\ UNCHANGED <<configured, round, attempt>>

(* Redis may fail to keep the answer, which is only logged. *)
ProviderAnswers(v) ==
  LET p == Provider(v)
      h == Recorded(Recorded(history[p], TRUE), FALSE)
  IN /\ stage[v] = "waiting"
     /\ \E used \in Used : tokens' = [tokens EXCEPT ![p] = Charged(p) + used]
     /\ due' = [due EXCEPT ![p] = FALSE]
     /\ history' = [history EXCEPT ![p] = h]
     /\ limit' = [limit EXCEPT ![p] = Adapted(@, h)]
     /\ cached' \in {cached, cached \cup {<<Model(v, round), Approach[v]>>}}
     /\ AttemptFails(v)

ProviderFails(v) ==
  LET p == Provider(v)
      h == Recorded(history[p], FALSE)
  IN /\ stage[v] = "waiting"
     /\ history' = [history EXCEPT ![p] = h]
     /\ limit' = [limit EXCEPT ![p] = Adapted(@, h)]
     /\ AttemptFails(v)
     /\ UNCHANGED <<tokens, due, cached>>

(* Mutant of Retry: the attempt is not counted. *)
RetryUncounted(v) ==
  /\ stage[v] = "sleeping"
  /\ stage' = [stage EXCEPT ![v] = "waiting"]
  /\ UNCHANGED <<configured, round, attempt, counters, cached>>

(* The next attempt asks neither the cache nor the counters. *)
Retry(v) ==
  /\ stage[v] = "sleeping"
  /\ stage' = [stage EXCEPT ![v] = "waiting"]
  /\ attempt' = [attempt EXCEPT ![v] = @ + 1]
  /\ UNCHANGED <<configured, round, counters, cached>>

-----------------------------------------------------------------------------
(* Time: a minute is over, an attempt is older than five, an answer's time to
   live has passed. *)
MinutePasses(p) ==
  /\ due' = [due EXCEPT ![p] = TRUE]
  /\ UNCHANGED <<configured, round, requests, tokens, limit, history, cached>>

Expire(p) ==
  /\ history[p] # << >>
  /\ history' = [history EXCEPT ![p] = Tail(@)]
  /\ UNCHANGED <<configured, round, requests, tokens, due, limit, cached>>

Forget(k) ==
  /\ cached' = cached \ {k}
  /\ UNCHANGED <<configured, round, requests, counters>>

Next ==
  \/ StartTask \/ Fallback \/ EndTask
  \/ \E v \in Variations : ProviderAnswers(v) \/ ProviderFails(v) \/ Retry(v)
  \/ \E p \in Providers : MinutePasses(p) \/ Expire(p)
  \/ \E k \in cached : Forget(k)

Spec == Init /\ [][Next]_vars

(* The clients of the providers have timeouts of their own, sleeps end, and
   the agent's task goes on when its requests are over. *)
Fairness ==
  /\ WF_vars(Fallback) /\ WF_vars(EndTask)
  /\ \A v \in Variations :
       WF_vars(ProviderAnswers(v) \/ ProviderFails(v)) /\ WF_vars(Retry(v))

FairSpec == Spec /\ Fairness

-----------------------------------------------------------------------------
TypeOK ==
  /\ configured \subseteq Providers
  /\ round \in {"idle", "first", "fallback"}
  /\ stage \in [Variations -> {"waiting", "sleeping", "failed"}]
  /\ attempt \in [Variations -> 0 .. RetryCount]
  /\ tokens \in [Providers -> Nat]
  /\ due \in [Providers -> BOOLEAN]
  /\ limit \in [Providers -> 0 .. TokensPerMinute]
  /\ history \in [Providers -> Seq(BOOLEAN)]
  /\ \A p \in Providers : Len(history[p]) <= HistorySize
  /\ cached \subseteq Keys

(* The requests of a round are all checked before any is charged, and retries
   are not checked: a minute's tokens can pass the limit, but by no more than
   every request of a provider being charged for every one of its attempts. *)
AskedOf(p) == {v \in Variations : p \in {ProviderOf[FirstModel[v]], ProviderOf[FallbackModel[v]]}}

Overshoot == \A p \in Providers :
  tokens[p] + Need <= TokensPerMinute + Cardinality(AskedOf(p)) * RetryCount * Need

(* Once the limit of a provider is below what one request needs, no request is sent
   to it but the retries of those that are under way: no time, no answer and no other
   round of requests opens it again. *)
StarvedStays ==
  [][\A p \in Providers : limit[p] < Need =>
       /\ limit'[p] < Need
       /\ \A v \in Variations :
            stage'[v] = "waiting" /\ Provider(v)' = p => stage[v] # "failed" /\ Provider(v) = p]_vars

(* A limit lowered below what one request needs is never raised again: from
   some time on the provider is asked nothing more, failures or not, until the
   process is restarted. *)
Starves == \A p \in Providers :
  [](limit[p] < Need => <>[](\A v \in Variations : stage[v] = "waiting" => Provider(v) # p))

(* Retries and fallbacks come to an end: the agent, which handles one message
   at a time, is free for the next. *)
TaskEnds == round # "idle" ~> round = "idle"
=============================================================================
