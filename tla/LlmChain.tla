------------------------------ MODULE LlmChain -------------------------------
(* FallbackLLMClient (llm/fallback.py): providers tried in order, each with *)
(* its retries, and benched for as long as it says.  One client serves all  *)
(* runs of the process, so its cooldowns are shared between their calls.    *)
(* Time passes in ticks; a cooldown and a wait are what is left of them.    *)
EXTENDS Integers, FiniteSets, FiniteSetsExt

CONSTANTS
  Callers,       \* the runs whose turns call the model
  LastProvider,          \* providers are 1..LastProvider, in PROVIDER_ORDER
  MaxRetries,    \* llm_max_retries
  Waits,         \* what a Retry-After header may state
  CooldownCap,   \* COOLDOWN_CAP
  BackoffBase, BackoffCap

ASSUME ChainConstants ==
  /\ LastProvider \in Nat \ {0} /\ MaxRetries \in Nat /\ Waits \subseteq Nat
  /\ CooldownCap \in Nat /\ BackoffBase \in Nat /\ BackoffCap \in Nat

VARIABLES
  cooling,   \* _cooling_until, as the time left
  call       \* each caller's call

chainVars == <<cooling, call>>

Providers == 1..LastProvider
Unstated == -1

\* What a provider's failure is taken for (_classify).  Only a rate limit
\* carries a Retry-After.
Failures ==
  [kind : {"limited"}, after : Waits \cup {Unstated}]
    \cup [kind : {"unavailable", "spent", "malformed"}, after : {Unstated}]
Retryable(failure) == failure.kind \in {"limited", "unavailable"}
FallsThrough(failure) == failure.kind # "malformed"

NoCall == [at |-> "none", provider |-> 0, retry |-> 0, wait |-> 0]

ChainInit ==
  /\ cooling = [p \in Providers |-> 0]
  /\ call = [c \in Callers |-> NoCall]

-----------------------------------------------------------------------------
\* complete: on to the first provider from here that is not benched, or out
\* of providers.
OnFrom(first, cool) ==
  LET ready == {p \in Providers : p >= first /\ cool[p] = 0}
  IN  IF ready = {} THEN [NoCall EXCEPT !.at = "exhausted"]
      ELSE [NoCall EXCEPT !.at = "asking", !.provider = Min(ready)]

\* A defect: the chain starts over.
OnAfterFromTheTop(p, cool) == OnFrom(1, cool)

\* A provider that failed is not asked again in this call.
OnAfter(p, cool) == OnFrom(p + 1, cool)

Calls(c) ==
  /\ call' = [call EXCEPT ![c] = OnFrom(1, cooling)]
  /\ UNCHANGED cooling

\* A success clears the provider's cooldown, whoever set it.
Answers(c) ==
  /\ call[c].at = "asking"
  /\ cooling' = [cooling EXCEPT ![call[c].provider] = 0]
  /\ call' = [call EXCEPT ![c] = [NoCall EXCEPT !.at = "answered"]]

\* _backoff: what the provider states, uncapped, or the doubling wait.
Backoff(retry, after) ==
  IF after # Unstated THEN after ELSE Min({BackoffBase * 2^retry, BackoffCap})

\* _cool_down: only for a stated time, and no longer than the cap.
Benched(p, after) ==
  IF after \in {Unstated, 0} THEN cooling
  ELSE [cooling EXCEPT ![p] = Min({after, CooldownCap})]

\* range(max_retries + 1): one try and so many more.
Retries(retry) == retry < MaxRetries

Fails(c) ==
  /\ call[c].at = "asking"
  /\ \E failure \in Failures :
       LET k == call[c]
       IN  \/ /\ Retryable(failure) /\ Retries(k.retry)
              /\ call' = [call EXCEPT
                            ![c] = [k EXCEPT !.at = "sleeping",
                                      !.wait = Backoff(k.retry, failure.after)]]
              /\ UNCHANGED cooling
           \/ /\ ~(Retryable(failure) /\ Retries(k.retry))
              /\ IF FallsThrough(failure)
                   THEN LET cool == Benched(k.provider, failure.after)
                        IN  /\ cooling' = cool
                            /\ call' = [call EXCEPT
                                          ![c] = OnAfter(k.provider, cool)]
                   ELSE /\ call' = [call EXCEPT
                                      ![c] = [NoCall EXCEPT !.at = "rejected"]]
                        /\ UNCHANGED cooling

\* The same provider again, benched by another call or not.
Wakes(c) ==
  /\ call[c].at = "sleeping" /\ call[c].wait = 0
  /\ call' = [call EXCEPT ![c] = [@ EXCEPT !.at = "asking",
                                    !.retry = Min({@ + 1, MaxRetries})]]
  /\ UNCHANGED cooling

Less(t) == IF t > 0 THEN t - 1 ELSE 0

Tick ==
  /\ (\E p \in Providers : cooling[p] > 0) \/ (\E c \in Callers : call[c].wait > 0)
  /\ cooling' = [p \in Providers |-> Less(cooling[p])]
  /\ call' = [c \in Callers |-> [call[c] EXCEPT !.wait = Less(@)]]

ChainTypeOK ==
  /\ cooling \in [Providers -> 0..CooldownCap]
  /\ call \in [Callers ->
       [at : {"none", "asking", "sleeping", "answered", "exhausted", "rejected"},
        provider : Providers \cup {0}, retry : 0..MaxRetries,
        wait : Nat]]

\* A turn does not stall: no wait between two tries is longer than the ceiling
\* of the backoff, also when a provider states a longer one.
WaitsAreCapped == \A c \in Callers : call[c].wait <= BackoffCap

=============================================================================
