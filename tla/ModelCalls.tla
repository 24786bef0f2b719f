---------------------------- MODULE ModelCalls -----------------------------
(***************************************************************************)
(* How an agent's node asks a language model.  It first calls invoke_llm,    *)
(* whose router tries the models of the task's route one after another, and  *)
(* when that raises invoke_claude, which retries one model.  Both keep a     *)
(* circuit breaker for each key, in memory: enough failures in a row, and    *)
(* the key is not called any more.                                          *)
(*                                                                          *)
(* The API runs the agents' graphs in worker threads, which have no event    *)
(* loop, so that invoke_llm raises at once, and the threads share the        *)
(* breaker of invoke_claude.  A script runs one graph, on a loop of its own. *)
(***************************************************************************)
EXTENDS Naturals, Sequences, FiniteSets

CONSTANTS
    Callers,       \* nodes that may be asking at a time
    Configured,         \* the models whose provider has an API key
    Threshold,     \* of both breakers
    RetryMax,
    Idling,        \* no call
    MaxCalls       \* bound

ASSUME ModelCallsAssumption ==
    /\ {Threshold, RetryMax} \subseteq Nat \ {0} /\ MaxCalls \in Nat

\* PLATFORM_DEFAULT_ROUTING, for the tasks that agents name.
Route == [structured_matching |-> <<"gemini-flash", "claude-sonnet">>,
          structured_extraction |-> <<"gpt-4o-mini", "claude-sonnet">>,
          reasoning |-> <<"claude-sonnet", "gpt-4o-mini">>]

Models == {"gemini-flash", "gpt-4o-mini", "claude-sonnet"}
BreakerKeys == Models \cup {"invoke_claude"}

VARIABLES
    loop,          \* the graph is run by a script
    failed_calls,  \* each breaker's count
    calls,         \* what each caller is waiting for
    begun,         \* how many calls there have been
    endings,       \* history: how the last calls on each key ended, at most Threshold
    raced          \* history: a thread recorded an ending while another recorded a failure

callVars == <<loop, failed_calls, calls, begun, endings, raced>>

CallInit ==
    /\ loop \in BOOLEAN
    /\ failed_calls = [k \in BreakerKeys |-> 0]
    /\ calls = [c \in Callers |-> Idling]
    /\ begun = 0
    /\ endings = [k \in BreakerKeys |-> << >>]
    /\ raced = FALSE

----------------------------------------------------------------------------
is_open(key) == failed_calls[key] >= Threshold

Ending(key, how) ==
    endings' = [endings EXCEPT ![key] =
        LET all == Append(@, how)
        IN  IF Len(all) > Threshold THEN Tail(all) ELSE all]

\* (mutant) A success takes one failure off.
OneLess(key) == failed_calls' = [failed_calls EXCEPT ![key] = IF @ = 0 THEN 0 ELSE @ - 1]

record_success(key) == failed_calls' = [failed_calls EXCEPT ![key] = 0]

\* The caller asks Claude directly, unless that breaker is open or there is no key.
Directly(c) ==
    calls' = [calls EXCEPT ![c] =
        IF is_open("invoke_claude") \/ "claude-sonnet" \notin Configured THEN Idling
        ELSE [at |-> "claude", attempt |-> 1]]

\* The router goes to the next model that has a key and whose breaker is closed.
Usable(chain) == {i \in DOMAIN chain : chain[i] \in Configured /\ ~is_open(chain[i])}
Along(c, chain) ==
    IF Usable(chain) = {} THEN Directly(c)
    ELSE \E i \in Usable(chain) :
            /\ \A j \in Usable(chain) : i <= j
            /\ calls' = [calls EXCEPT ![c] =
                    [at |-> "router", model |-> chain[i], left |-> SubSeq(chain, i + 1, Len(chain))]]

Ask(c, task) ==
    /\ calls[c] = Idling /\ begun < MaxCalls
    /\ loop => \A o \in Callers : calls[o] = Idling
    /\ begun' = begun + 1
    /\ IF loop THEN Along(c, Route[task]) ELSE Directly(c)
    /\ UNCHANGED <<loop, failed_calls, endings, raced>>

Waits(c, where) == calls[c] # Idling /\ calls[c].at = where

RouterAnswers(c) ==
    /\ Waits(c, "router")
    /\ record_success(calls[c].model) /\ Ending(calls[c].model, "answered")
    /\ calls' = [calls EXCEPT ![c] = Idling]
    /\ UNCHANGED <<loop, begun, raced>>

\* Whatever the adapter raises.
RouterFails(c) ==
    /\ Waits(c, "router")
    /\ failed_calls' = [failed_calls EXCEPT ![calls[c].model] = @ + 1]
    /\ Ending(calls[c].model, "failed")
    /\ Along(c, calls[c].left)
    /\ UNCHANGED <<loop, begun, raced>>

Recording == {c \in Callers : Waits(c, "record")}

ClaudeAnswers(c) ==
    /\ Waits(c, "claude")
    /\ record_success("invoke_claude") /\ Ending("invoke_claude", "answered")
    /\ calls' = [calls EXCEPT ![c] = Idling]
    /\ raced' = (raced \/ Recording # {})
    /\ UNCHANGED <<loop, begun>>

\* A rate limit or an error status; after the last attempt record_failure reads the count.
ClaudeRefuses(c) ==
    /\ Waits(c, "claude")
    /\ calls' = [calls EXCEPT ![c] =
            IF calls[c].attempt < RetryMax THEN [calls[c] EXCEPT !.attempt = @ + 1]
            ELSE [at |-> "record", count |-> failed_calls["invoke_claude"]]]
    /\ raced' = (raced \/ (calls[c].attempt = RetryMax /\ Recording # {}))
    /\ UNCHANGED <<loop, failed_calls, begun, endings>>

\* Any other exception, a lost connection included: no breaker hears of it.
ClaudeBreaks(c) ==
    /\ Waits(c, "claude")
    /\ calls' = [calls EXCEPT ![c] = Idling]
    /\ UNCHANGED <<loop, failed_calls, begun, endings, raced>>

\* record_failure writes the count it read, plus one.
Record(c) ==
    /\ Waits(c, "record")
    /\ failed_calls' = [failed_calls EXCEPT !["invoke_claude"] = calls[c].count + 1]
    /\ Ending("invoke_claude", "failed")
    /\ calls' = [calls EXCEPT ![c] = Idling]
    /\ UNCHANGED <<loop, begun, raced>>

CallNext == \E c \in Callers :
    \/ \E task \in DOMAIN Route : Ask(c, task)
    \/ RouterAnswers(c) \/ RouterFails(c)
    \/ ClaudeAnswers(c) \/ ClaudeRefuses(c) \/ ClaudeBreaks(c) \/ Record(c)

CallSpec == CallInit /\ [][CallNext]_callVars

----------------------------------------------------------------------------
\* A breaker is open exactly if the last Threshold calls on its key to end all failed,
\* however the calls of threads overlap and wherever a route went on from; two threads that
\* record at the same moment may make Claude's count wrong.
OpenAfterFailures ==
    \A k \in BreakerKeys :
        (k = "invoke_claude" => ~raced) =>
            (is_open(k) <=> Len(endings[k]) = Threshold
                            /\ \A i \in DOMAIN endings[k] : endings[k][i] = "failed")
=============================================================================
