---------------------------- MODULE Idempotency ----------------------------
(***************************************************************************)
(* Requests that carry one Idempotency-Key (utils/idempotency.js) and the  *)
(* cache entry they share (utils/cache.js, in Redis or in memory).         *)
(***************************************************************************)
EXTENDS Naturals

CONSTANTS
  KeyedRequests, \* requests with the key
  MaxPolls       \* the 120 polls of a request that finds the entry pending

ASSUME PollAssumption == MaxPolls \in Nat \ {0}

VARIABLES
  cached,      \* the cache entry of the key
  keyed,       \* request -> where it is
  polls,       \* request -> polls it made
  answer       \* request -> the answer it got, named by the run it comes from

idemVars == <<cached, keyed, polls, answer>>

NoAnswer == "none"
Missing == [state |-> "none", of |-> NoAnswer]
Pending == [state |-> "pending", of |-> NoAnswer]
Complete(q) == [state |-> "complete", of |-> q]

IdemInit ==
  /\ cached = Missing
  /\ keyed = [q \in KeyedRequests |-> "new"]
  /\ polls = [q \in KeyedRequests |-> 0]
  /\ answer = [q \in KeyedRequests |-> NoAnswer]

KeyedGoes(q, to) == keyed' = [keyed EXCEPT ![q] = to]

Replay(q) ==
  /\ KeyedGoes(q, "answered")
  /\ answer' = [answer EXCEPT ![q] = cached.of]
  /\ UNCHANGED <<cached, polls>>

\* The cache fails at any of the awaits: the request executes as if it had no
\* key.
CacheFails(q) ==
  /\ keyed[q] \in {"new", "polling", "marking"}
  /\ KeyedGoes(q, "executingBare")
  /\ UNCHANGED <<cached, polls, answer>>

LookUpKey(q) ==
  /\ keyed[q] = "new"
  /\ \/ /\ cached.state = "complete"
        /\ Replay(q)
     \/ /\ cached.state = "pending"
        /\ KeyedGoes(q, "polling")
        /\ UNCHANGED <<cached, polls, answer>>
     \/ /\ cached.state = "none"
        /\ KeyedGoes(q, "marking")
        /\ UNCHANGED <<cached, polls, answer>>

\* Mutant: a request polls as long as the entry is pending
Poll_Forever(q) ==
  /\ keyed[q] = "polling"
  /\ \/ /\ cached.state = "complete"
        /\ Replay(q)
     \/ /\ cached.state = "none"
        /\ KeyedGoes(q, "marking")
        /\ UNCHANGED <<cached, polls, answer>>

\* One poll: replays, goes on when the entry is gone or after the last poll.
Poll(q) ==
  /\ keyed[q] = "polling"
  /\ \/ /\ cached.state = "complete"
        /\ Replay(q)
     \/ /\ cached.state /= "complete"
        /\ polls' = [polls EXCEPT ![q] = @ + 1]
        /\ KeyedGoes(q, IF cached.state = "none" \/ polls[q] + 1 = MaxPolls
                          THEN "marking" ELSE "polling")
        /\ UNCHANGED <<cached, answer>>

\* setJson, whatever the entry has become since it was read.
MarkPending(q) ==
  /\ keyed[q] = "marking"
  /\ cached' = Pending
  /\ KeyedGoes(q, "executing")
  /\ UNCHANGED <<polls, answer>>

\* The handler answers; res.send records the answer in the background, or
\* deletes the entry when it was a server error.
HandlerAnswers(q) ==
  /\ \/ /\ keyed[q] = "executing"
        /\ \E to \in {"recording", "deleting"} : KeyedGoes(q, to)
     \/ /\ keyed[q] = "executingBare"
        /\ KeyedGoes(q, "answered")
  /\ answer' = [answer EXCEPT ![q] = q]
  /\ UNCHANGED <<cached, polls>>

\* The background write, which may fail and is then only logged.
Record(q) ==
  /\ keyed[q] \in {"recording", "deleting"}
  /\ cached' \in {cached, IF keyed[q] = "recording" THEN Complete(q) ELSE Missing}
  /\ KeyedGoes(q, "answered")
  /\ UNCHANGED <<polls, answer>>

EntryExpires ==
  /\ cached /= Missing
  /\ cached' = Missing
  /\ UNCHANGED <<keyed, polls, answer>>

KeyedStep(q) ==
  \/ LookUpKey(q)
  \/ CacheFails(q)
  \/ Poll(q)
  \/ MarkPending(q)
  \/ HandlerAnswers(q)
  \/ Record(q)

IdemNext == EntryExpires \/ \E q \in KeyedRequests : KeyedStep(q)

KeyedProgress(q) ==
  LookUpKey(q) \/ Poll(q) \/ MarkPending(q) \/ HandlerAnswers(q) \/ Record(q)

IdemFairness == \A q \in KeyedRequests : WF_idemVars(KeyedProgress(q))

IdemSpec == IdemInit /\ [][IdemNext]_idemVars /\ IdemFairness

-----------------------------------------------------------------------------
IdemTypeOK ==
  /\ cached \in {Missing, Pending} \cup {Complete(q) : q \in KeyedRequests}
  /\ keyed \in [KeyedRequests -> {"new", "polling", "marking", "executing", "executingBare",
                                  "recording", "deleting", "answered"}]
  /\ polls \in [KeyedRequests -> 0..MaxPolls]
  /\ answer \in [KeyedRequests -> KeyedRequests \cup {NoAnswer}]

\* Every request with the key is answered, although the one it waits for may
\* leave a pending entry behind: its record may be lost, or a late marker may
\* replace a finished answer.
KeyedIsAnswered(q) == answer[q] /= NoAnswer
KeyedAnswered == \A q \in KeyedRequests : <>KeyedIsAnswered(q)
=============================================================================
