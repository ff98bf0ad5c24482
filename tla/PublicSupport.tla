---------------------------- MODULE PublicSupport ----------------------------
(* The public support endpoint: admission, the thread that answers, and the  *)
(* request that stops waiting for it.  The lock of SupportAdmission makes    *)
(* acquire and release atomic; the thread goes on when its request has been  *)
(* answered with a timeout or its client has left.                           *)
EXTENDS Integers, Sequences, FiniteSets

CONSTANTS
  Requests,
  Slots, PerMinute, PerDay,   \* the limits: 2, 30 and 200 in the code
  Minute, Midnight,           \* ticks of the sliding window, and until the date changes
  MaxTime                     \* bound: ticks

VARIABLES
  request,       \* whether each request still waits, and where its thread is
  admission,     \* the SupportAdmission of the application
  admitted,      \* history: the times of all admissions
  time

supportVars == <<request, admission, admitted, time>>

NoRequest == [waits |-> FALSE, thread |-> "none"]

SupportInit ==
  /\ request = [r \in Requests |-> NoRequest]
  /\ admission = [active |-> 0, minute |-> <<>>, day |-> 0, count |-> 0]
  /\ admitted = <<>> /\ time = 0

Today == time \div Midnight

-----------------------------------------------------------------------------
(* acquire.                                                                  *)

\* Entries are taken from the left until one is recent enough.
Expired(minute) ==
  CHOOSE n \in 0..Len(minute) : /\ \A i \in 1..n : minute[i] <= time - Minute
                                /\ n < Len(minute) => minute[n + 1] > time - Minute
Recent(minute) == SubSeq(minute, Expired(minute) + 1, Len(minute))

\* The date and the window are brought up to date, whether or not it is refused.
Refreshed ==
  [admission EXCEPT !.count = IF admission.day = Today THEN @ ELSE 0, !.day = Today,
                    !.minute = Recent(@)]

Admits(a) == a.active < Slots /\ Len(a.minute) < PerMinute /\ a.count < PerDay

Acquire(r) ==
  /\ request[r] = NoRequest
  /\ IF Admits(Refreshed)
     THEN /\ admission' = [Refreshed EXCEPT !.active = @ + 1, !.count = @ + 1,
                                            !.minute = Append(@, time)]
          /\ request' = [request EXCEPT ![r] = [waits |-> TRUE, thread |-> "check"]]
          /\ admitted' = Append(admitted, time)
     ELSE admission' = Refreshed /\ UNCHANGED <<request, admitted>>
  /\ UNCHANGED time

-----------------------------------------------------------------------------
(* answer_public_question, in a thread, and release when it ends.  What it   *)
(* answers (an answer, a fallback, a failure) is the request's if it waits.  *)

\* mutant: a request that stops waiting gives its slot back
ReleasedByRequest(r, ended) == IF request[r].waits THEN admission.active - 1 ELSE admission.active
ActiveAfter(r, ended) == IF ended THEN admission.active - 1 ELSE admission.active

Finish(r) ==
  /\ request' = [request EXCEPT ![r] = NoRequest]
  /\ admission' = [admission EXCEPT !.active = ActiveAfter(r, TRUE)]
  /\ UNCHANGED <<admitted, time>>

To(r, step) ==
  request' = [request EXCEPT ![r].thread = step] /\ UNCHANGED <<admission, admitted, time>>

\* The question, its country and the repeated history pass every rule; one that
\* does not ends with a fallback and nothing is retrieved.
Check(r) == request[r].thread = "check" /\ (To(r, "search") \/ Finish(r))

\* Passages that safe_evidence lets through; without one, or when the collection
\* or the embeddings are unavailable, the thread ends.
Search(r) == request[r].thread = "search" /\ (To(r, "generate") \/ Finish(r))

\* The answer, or the fallback when validate_output blocks it, or a failure.
Generate(r) == request[r].thread = "generate" /\ Finish(r)

\* The deadline, or the client's disconnect: the shielded thread goes on.
StopWaiting(r) ==
  /\ request[r].waits /\ request' = [request EXCEPT ![r].waits = FALSE]
  /\ admission' = [admission EXCEPT !.active = ActiveAfter(r, FALSE)]
  /\ UNCHANGED <<admitted, time>>

Tick == time < MaxTime /\ time' = time + 1 /\ UNCHANGED <<request, admission, admitted>>

SupportNext ==
  \/ Tick
  \/ \E r \in Requests : \/ Acquire(r) \/ Check(r) \/ Search(r) \/ Generate(r)
                         \/ StopWaiting(r)

SupportSpec == SupportInit /\ [][SupportNext]_supportVars

-----------------------------------------------------------------------------
Working == {r \in Requests : request[r].thread # "none"}
InWindow(k, length) == {j \in 1..k : admitted[j] > admitted[k] - length}

\* acquire, release: a slot is held exactly as long as a thread works, through
\* timeouts and departed clients, so no more threads than slots ever work.
SlotsAreThreads == admission.active = Cardinality(Working) /\ Cardinality(Working) <= Slots

\* acquire: no sliding minute and no calendar day sees more admissions than its
\* limit, wherever in them the admissions fall.
AdmissionsAreBounded ==
  \A k \in DOMAIN admitted :
    /\ Cardinality(InWindow(k, Minute)) <= PerMinute
    /\ Cardinality({j \in 1..k : admitted[j] \div Midnight = admitted[k] \div Midnight}) <= PerDay

\* acquire, release: threads, minute and day stay within their limits, through
\* timeouts, disconnects and midnight.
LimitsHold == SlotsAreThreads /\ AdmissionsAreBounded
=============================================================================
