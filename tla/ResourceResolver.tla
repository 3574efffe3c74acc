-------------------------- MODULE ResourceResolver --------------------------
(***************************************************************************)
(* createAssessmentResourceResolver: the texts of an assessment, supplied  *)
(* by the host or fetched, each requested once through a cache of promises *)
(* under a budget of resources, bytes and concurrent requests.             *)
(*                                                                         *)
(* A request is a record of its text and its stage: "ready" (supplied,     *)
(* looked at in the next microtask), "waiting" (in the queue for a         *)
(* permit), "woken" (its waiter is resolved and it has not yet resumed),   *)
(* "fetching", "fetched" or "failed" (done, the permit not yet returned),  *)
(* "fulfilled", "rejected", and "gone" (rejected, and out of the cache).   *)
(* A call for what is cached shares the promise, and one over the limit of *)
(* resources throws: neither changes anything.                             *)
(***************************************************************************)
EXTENDS Integers, Sequences, FiniteSets, FiniteSetsExt

CONSTANTS
    Hrefs,          \* the texts an assessment refers to
    Supplied,       \* those the host gives along
    Sizes,          \* the sizes a text may turn out to have, in bytes
    MaxItems, MaxItemBytes, MaxTotalBytes,
    Concurrency     \* fetchPolicy.concurrency

ASSUME ResolverAssumption ==
    /\ Supplied \subseteq Hrefs
    /\ Sizes \subseteq Nat
    /\ MaxItems \in Nat
    /\ MaxItemBytes \in Nat \ {0}
    /\ MaxTotalBytes \in Nat \ {0}
    /\ Concurrency \in Nat \ {0}

VARIABLES
    requests,        \* all requests, in the order they were made
    cache,           \* for each text its request, or NoRequest
    totalBytes,
    activeRequests,
    permitWaiters    \* the requests that wait for a permit, first come first

resolverVars == <<requests, cache, totalBytes, activeRequests, permitWaiters>>

NoRequest == 0
Requests == DOMAIN requests
At(stages) == {r \in Requests : requests[r].stage \in stages}
Moved(r, stage) == [requests EXCEPT ![r].stage = stage]

ResolverInit ==
    /\ requests = <<>>
    /\ cache = [h \in Hrefs |-> NoRequest]
    /\ totalBytes = 0
    /\ activeRequests = 0
    /\ permitWaiters = <<>>

\* A first call for a text.  resolvedResources, which is never lowered, is the
\* number of requests.
Resolve(h) ==
    LET r == Len(requests) + 1
        Made(stage) == requests' = Append(requests, [href |-> h, stage |-> stage, bytes |-> 0])
    IN  /\ cache[h] = NoRequest
        /\ Len(requests) < MaxItems
        /\ cache' = [cache EXCEPT ![h] = r]
        /\ \/ /\ h \in Supplied
              /\ Made("ready")
              /\ UNCHANGED <<activeRequests, permitWaiters>>
           \/ /\ h \notin Supplied
              /\ activeRequests >= Concurrency
              /\ Made("waiting")
              /\ permitWaiters' = Append(permitWaiters, r)
              /\ UNCHANGED activeRequests
           \/ /\ h \notin Supplied
              /\ activeRequests < Concurrency
              /\ Made("fetching")
              /\ activeRequests' = activeRequests + 1
              /\ UNCHANGED permitWaiters
        /\ UNCHANGED totalBytes

\* accountResource() of a text of n bytes.
AccountResource(r, n, accepted, refused) ==
    IF n <= MaxItemBytes /\ totalBytes + n <= MaxTotalBytes
    THEN /\ totalBytes' = totalBytes + n
         /\ requests' = [requests EXCEPT ![r].stage = accepted, ![r].bytes = n]
    ELSE /\ requests' = Moved(r, refused)
         /\ UNCHANGED totalBytes

AccountSupplied(r) ==
    /\ requests[r].stage = "ready"
    /\ \E n \in Sizes : AccountResource(r, n, "fulfilled", "rejected")
    /\ UNCHANGED <<cache, activeRequests, permitWaiters>>

\* A woken waiter resumes; it does not look at activeRequests again, although a
\* call may have taken the permit in between.
TakePermit(r) ==
    /\ requests[r].stage = "woken"
    /\ requests' = Moved(r, "fetching")
    /\ activeRequests' = activeRequests + 1
    /\ UNCHANGED <<cache, totalBytes, permitWaiters>>

\* An answer; of the fetch function of a host it may come before a waiter that
\* was woken resumes.
Fetch(r) ==
    /\ requests[r].stage = "fetching"
    /\ \E n \in Sizes : AccountResource(r, n, "fetched", "failed")
    /\ UNCHANGED <<cache, activeRequests, permitWaiters>>

\* The network fails, the time is up, or the load is cancelled.
FetchFails(r) ==
    /\ requests[r].stage = "fetching"
    /\ requests' = Moved(r, "failed")
    /\ UNCHANGED <<cache, totalBytes, activeRequests, permitWaiters>>

\* Variant: the permit of a failed request wakes nobody.
ReleaseFulfilled(r) ==
    LET settled == Moved(r, IF requests[r].stage = "fetched" THEN "fulfilled" ELSE "rejected")
    IN  /\ requests[r].stage \in {"fetched", "failed"}
        /\ activeRequests' = activeRequests - 1
        /\ IF permitWaiters = <<>> \/ requests[r].stage = "failed"
           THEN requests' = settled /\ UNCHANGED permitWaiters
           ELSE /\ requests' = [settled EXCEPT ![Head(permitWaiters)].stage = "woken"]
                /\ permitWaiters' = Tail(permitWaiters)
        /\ UNCHANGED <<cache, totalBytes>>

\* The finally block: the permit is returned and the first waiter resolved.
Release(r) ==
    LET settled == Moved(r, IF requests[r].stage = "fetched" THEN "fulfilled" ELSE "rejected")
    IN  /\ requests[r].stage \in {"fetched", "failed"}
        /\ activeRequests' = activeRequests - 1
        /\ IF permitWaiters = <<>>
           THEN requests' = settled /\ UNCHANGED permitWaiters
           ELSE /\ requests' = [settled EXCEPT ![Head(permitWaiters)].stage = "woken"]
                /\ permitWaiters' = Tail(permitWaiters)
        /\ UNCHANGED <<cache, totalBytes>>

\* Variant: a settled request leaves the cache, whatever its result.
ForgetSettled(r) ==
    /\ requests[r].stage \in {"fulfilled", "rejected"}
    /\ cache[requests[r].href] = r
    /\ cache' = [cache EXCEPT ![requests[r].href] = NoRequest]
    /\ requests' = Moved(r, IF requests[r].stage = "rejected" THEN "gone" ELSE "fulfilled")
    /\ UNCHANGED <<totalBytes, activeRequests, permitWaiters>>

\* The call that made a rejected request takes it out of the cache.
Forget(r) ==
    /\ requests[r].stage = "rejected"
    /\ cache' = [cache EXCEPT ![requests[r].href] = NoRequest]
    /\ requests' = Moved(r, "gone")
    /\ UNCHANGED <<totalBytes, activeRequests, permitWaiters>>

ResolverNext ==
    \/ \E h \in Hrefs : Resolve(h)
    \/ \E r \in Requests :
          \/ AccountSupplied(r)
          \/ TakePermit(r)
          \/ Fetch(r)
          \/ FetchFails(r)
          \/ Release(r)
          \/ Forget(r)

ResolverSpec == ResolverInit /\ [][ResolverNext]_resolverVars

-----------------------------------------------------------------------------
(* Properties.                                                             *)

Stages == {"ready", "waiting", "woken", "fetching", "fetched", "failed",
           "fulfilled", "rejected", "gone"}
Counted == {r \in Requests : requests[r].bytes > 0}

\* The count of permits is that of the requests that hold one (which may be more
\* than Concurrency: a call takes the permit of a waiter not yet resumed, and
\* the waiter does not look again), and the queue holds the requests that wait.
ResolverTypeOK ==
    /\ requests \in Seq([href : Hrefs, stage : Stages, bytes : Sizes \cup {0}])
    /\ Len(requests) <= MaxItems
    /\ cache \in [Hrefs -> Requests \cup {NoRequest}]
    /\ totalBytes \in 0 .. MaxTotalBytes
    /\ activeRequests = Cardinality(At({"fetching", "fetched", "failed"}))
    /\ permitWaiters \in Seq(Requests)
    /\ {permitWaiters[k] : k \in DOMAIN permitWaiters} = At({"waiting"})
    /\ Len(permitWaiters) = Cardinality(At({"waiting"}))

\* Nobody waits while a permit is free: as long as there are waiters, every
\* permit is held, or on its way to a waiter that is woken and not yet resumed;
\* also after failures, and when calls take permits between the two.
NoIdlePermit ==
    permitWaiters # <<>> =>
        activeRequests + Cardinality(At({"woken"})) >= Concurrency

\* The bytes accounted are those of the texts that were accepted, each counted
\* once however often it was asked for or fetched in vain.
WithinBudget ==
    /\ totalBytes = MapThenSumSet(LAMBDA r : requests[r].bytes, Requests)
    /\ Counted = {r \in At({"fetched", "fulfilled"}) : requests[r].bytes > 0}
    /\ \A r, s \in Counted : requests[r].href = requests[s].href => r = s
=============================================================================
