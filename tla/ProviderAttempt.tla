---------------------------- MODULE ProviderAttempt ----------------------------
(***************************************************************************)
(* One attempt of a provider at an Evidence batch: it asks its source one     *)
(* question after the other, and ends with a batch, with an error that is    *)
(* worth another attempt or with one that is not.                           *)
(***************************************************************************)
EXTENDS Projection

CONSTANT MaxDrafts   \* ResourceScope.max_items

ASSUME DraftsAreBounded == MaxDrafts \in Nat \ {0}

VARIABLES
    source,   \* what the asked system holds
    attempt   \* the attempt: provider, questions asked, answers kept, drafts

telemetryVars == <<source, attempt>>

NewAttempt(provider) ==
    [provider |-> provider, at |-> 1, read |-> <<>>, drafts |-> {}, partial |-> FALSE, outcome |-> "collecting"]

Working(provider) == attempt.provider = provider /\ attempt.outcome = "collecting"

\* A 429, a 5xx, a timeout or the shared deadline; any other HTTP error or a malformed answer.
Errors == {"retryable", "permanent"}

Abandon(how) == attempt' = [attempt EXCEPT !.outcome = how, !.drafts = {}, !.read = <<>>]

Fails == \E how \in Errors : Abandon(how)

Deliver(drafts, partial) ==
    attempt' = [attempt EXCEPT !.outcome = "batch", !.drafts = drafts, !.partial = partial, !.read = <<>>]

DeliverWithinBudget(drafts, partial) ==
    IF Cardinality(drafts) > MaxDrafts THEN Abandon("permanent") ELSE Deliver(drafts, partial)

Produced(provider) == attempt.provider = provider /\ attempt.outcome = "batch"

Drafted(origin, subject, observed, completeness, facts) ==
    [origin |-> origin, subject |-> subject, observed |-> observed,
     completeness |-> completeness, facts |-> facts]
=============================================================================
