-------------------------- MODULE ResolutionProofs --------------------------
(***************************************************************************)
(* The two resolvers of references.  Of the one of an assessment: no       *)
(* waiter of ResourceResolver is left behind while a permit is free, and   *)
(* the bytes accounted are those of the texts accepted, for every          *)
(* assessment and every budget.  Of the one of a package: what the         *)
(* resolution in PackageReferences promises, for every package and every   *)
(* reference.                                                              *)
(*                                                                         *)
(* NoIdlePermit is strengthened by what the queue is: the requests in it   *)
(* all wait, and none is in it twice, so that the one which Release wakes  *)
(* was not awake before and makes up for the permit returned.              *)
(*                                                                         *)
(* WithinBudget is strengthened by what the cache is: a request that is    *)
(* not forgotten is the one the cache has for its text.  Its sum is a fold *)
(* over a set; the lemmas on sums say that it is one whichever element is  *)
(* taken first.                                                            *)
(***************************************************************************)
EXTENDS ResourceResolver, PackageReferences, FiniteSetTheorems, WellFoundedInduction,
        SequenceTheorems, TLAPS

Woken == At({"woken"})
Request == [href : Hrefs, stage : Stages, bytes : Sizes \cup {0}]
RequestsOK == requests \in Seq(Request)

QueueOK ==
    /\ permitWaiters \in Seq(Requests)
    /\ \A k \in 1 .. Len(permitWaiters) : requests[permitWaiters[k]].stage = "waiting"
    /\ \A j, k \in 1 .. Len(permitWaiters) : permitWaiters[j] = permitWaiters[k] => j = k

PermitInv ==
    /\ RequestsOK
    /\ activeRequests \in Int
    /\ QueueOK
    /\ NoIdlePermit

-----------------------------------------------------------------------------
(* Sums over finite sets, as MapThenSumSet forms them.                     *)

Chosen(s) == CHOOSE x \in s : TRUE

\* g gives every subset of S the sum of f over it.
SumsOf(f, S, g) ==
    g = [s \in SUBSET S |-> IF s = {} THEN 0 ELSE f[Chosen(s)] + g[s \ {Chosen(s)}]]

SumOf(f, S) == (CHOOSE g : SumsOf(f, S, g))[S]

\* In a set of subsets of a finite set, one has none of the others within it.
LEMMA Smallest ==
    ASSUME NEW S, IsFiniteSet(S), NEW Z, Z \subseteq SUBSET S, Z # {}
    PROVE  \E z \in Z : \A y \in Z : y \subseteq z => y = z
<1>1. IsWellFoundedOn(StrictSubsetOrdering(S), FiniteSubsetsOf(S))
  BY FS_StrictSubsetOrderingWellFounded
<1>2. Z \subseteq FiniteSubsetsOf(S)
  BY FS_Subset DEF FiniteSubsetsOf
<1>3. PICK z \in Z : \A y \in Z : ~(<<y, z>> \in StrictSubsetOrdering(S))
  BY <1>1, <1>2, WFMin
<1>4. ASSUME NEW y \in Z, y \subseteq z, y # z PROVE FALSE
  BY <1>2, <1>3, <1>4 DEF StrictSubsetOrdering
<1>5. QED
  BY <1>4

LEMMA ChosenFrom == ASSUME NEW s, s # {} PROVE Chosen(s) \in s
  BY DEF Chosen

\* Two functions of sums agree on the subsets that both give a sum.
LEMMA SumsAgree ==
    ASSUME NEW f, NEW S, IsFiniteSet(S), NEW U, U \subseteq S,
           NEW g, SumsOf(f, S, g), NEW h, SumsOf(f, U, h)
    PROVE  \A s \in SUBSET U : g[s] = h[s]
<1> DEFINE Z == {s \in SUBSET U : g[s] # h[s]}
<1>1. \A s \in SUBSET U :
          /\ g[s] = IF s = {} THEN 0 ELSE f[Chosen(s)] + g[s \ {Chosen(s)}]
          /\ h[s] = IF s = {} THEN 0 ELSE f[Chosen(s)] + h[s \ {Chosen(s)}]
  BY DEF SumsOf
<1>2. SUFFICES ASSUME Z # {} PROVE FALSE
  OBVIOUS
<1>3. PICK z \in Z : \A y \in Z : y \subseteq z => y = z
  <2>1. Z \subseteq SUBSET S
    OBVIOUS
  <2> HIDE DEF Z
  <2>2. QED
    BY <1>2, <2>1, Smallest
<1>4. z # {}
  BY <1>1
<1>5. Chosen(z) \in z
  BY <1>4, ChosenFrom
<1>6. g[z \ {Chosen(z)}] = h[z \ {Chosen(z)}]
  BY <1>3, <1>5
<1>7. QED
  BY <1>1, <1>4, <1>6

\* Every finite set has a function of sums: a smallest one without would have
\* one, made of those of its subsets.
LEMMA SumsExist ==
    ASSUME NEW f, NEW S, IsFiniteSet(S)
    PROVE  \E g : SumsOf(f, S, g)
<1> DEFINE Z == {T \in SUBSET S : ~ \E g : SumsOf(f, T, g)}
<1>1. SUFFICES ASSUME Z # {} PROVE FALSE
  OBVIOUS
<1>2. PICK T \in Z : \A U \in Z : U \subseteq T => U = T
  <2>1. Z \subseteq SUBSET S
    OBVIOUS
  <2> HIDE DEF Z
  <2>2. QED
    BY <1>1, <2>1, Smallest
<1> DEFINE G(U) == CHOOSE g : SumsOf(f, U, g)
           k == [s \in SUBSET T |-> IF s = {} THEN 0
                                    ELSE f[Chosen(s)] + G(s \ {Chosen(s)})[s \ {Chosen(s)}]]
<1>3. ASSUME NEW U, U \subseteq T, U # T PROVE SumsOf(f, U, G(U)) /\ IsFiniteSet(U)
  <2>1. \E g : SumsOf(f, U, g)
    BY <1>2, <1>3
  <2>2. IsFiniteSet(U)
    BY <1>3, FS_Subset
  <2>3. QED
    BY <2>1, <2>2
<1> HIDE DEF G
<1>4. ASSUME NEW s \in SUBSET T, s # {}
      PROVE  k[s \ {Chosen(s)}] = G(s \ {Chosen(s)})[s \ {Chosen(s)}]
  <2> DEFINE u == s \ {Chosen(s)}
  <2>1. Chosen(s) \in s
    BY <1>4, ChosenFrom
  <2>2. u \subseteq T /\ u # T
    BY <2>1
  <2>3. SumsOf(f, u, G(u)) /\ IsFiniteSet(u)
    BY <1>3, <2>2
  <2>4. G(u)[u] = IF u = {} THEN 0 ELSE f[Chosen(u)] + G(u)[u \ {Chosen(u)}]
    BY <2>3 DEF SumsOf
  <2>5. k[u] = IF u = {} THEN 0 ELSE f[Chosen(u)] + G(u \ {Chosen(u)})[u \ {Chosen(u)}]
    BY <2>2
  <2>6. CASE u = {}
    BY <2>4, <2>5, <2>6
  <2>7. CASE u # {}
    <3> DEFINE v == u \ {Chosen(u)}
    <3>1. Chosen(u) \in u
      BY <2>7, ChosenFrom
    <3>2. v \subseteq T /\ v # T /\ v \subseteq u
      BY <2>2, <3>1
    <3>3. SumsOf(f, v, G(v))
      BY <1>3, <3>2
    <3>4. G(u)[v] = G(v)[v]
      <4> HIDE DEF u, v
      <4> QED
        BY <2>3, <3>2, <3>3, SumsAgree
    <3> QED
      BY <2>4, <2>5, <2>7, <3>4
  <2> QED
    BY <2>6, <2>7
<1>5. SumsOf(f, T, k)
  <2>1. \A s \in SUBSET T :
            k[s] = IF s = {} THEN 0 ELSE f[Chosen(s)] + k[s \ {Chosen(s)}]
    BY <1>4
  <2>2. k = [s \in SUBSET T |-> k[s]]
    OBVIOUS
  <2> HIDE DEF k
  <2>3. QED
    BY <2>1, <2>2 DEF SumsOf
<1>6. QED
  BY <1>2, <1>5

\* The sum of a set is that of what is chosen and of the rest.
LEMMA SumUnfolds ==
    ASSUME NEW f, NEW S, IsFiniteSet(S)
    PROVE  /\ SumOf(f, {}) = 0
           /\ S # {} => SumOf(f, S) = f[Chosen(S)] + SumOf(f, S \ {Chosen(S)})
<1> DEFINE G(U) == CHOOSE g : SumsOf(f, U, g)
<1>1. ASSUME NEW U, IsFiniteSet(U) PROVE SumsOf(f, U, G(U))
  BY <1>1, SumsExist
<1>2. \A U : SumOf(f, U) = G(U)[U]
  BY DEF SumOf
<1> HIDE DEF G
<1>3. SumOf(f, {}) = 0
  <2>1. SumsOf(f, {}, G({}))
    BY <1>1, FS_EmptySet
  <2>2. QED
    BY <1>2, <2>1 DEF SumsOf
<1>4. ASSUME S # {} PROVE SumOf(f, S) = f[Chosen(S)] + SumOf(f, S \ {Chosen(S)})
  <2> DEFINE u == S \ {Chosen(S)}
  <2>1. SumsOf(f, S, G(S)) /\ SumsOf(f, u, G(u)) /\ u \subseteq S
    BY <1>1, FS_Subset
  <2>2. G(S)[S] = f[Chosen(S)] + G(S)[u]
    BY <1>4, <2>1 DEF SumsOf
  <2>3. G(S)[u] = G(u)[u]
    <3> HIDE DEF u
    <3> QED
      BY <2>1, SumsAgree
  <2>4. QED
    BY <1>2, <2>2, <2>3
<1>5. QED
  BY <1>3, <1>4

Amounts(f, S) == \A x \in S : f[x] \in Nat

LEMMA SumType ==
    ASSUME NEW f, NEW S, IsFiniteSet(S), Amounts(f, S)
    PROVE  SumOf(f, S) \in Nat
<1> DEFINE Z == {T \in SUBSET S : SumOf(f, T) \notin Nat}
<1>1. SUFFICES ASSUME Z # {} PROVE FALSE
  OBVIOUS
<1>2. PICK T \in Z : \A U \in Z : U \subseteq T => U = T
  <2>1. Z \subseteq SUBSET S
    OBVIOUS
  <2> HIDE DEF Z
  <2>2. QED
    BY <1>1, <2>1, Smallest
<1>3. IsFiniteSet(T)
  BY FS_Subset
<1>4. T # {}
  <2>1. SumOf(f, {}) = 0
    BY FS_EmptySet, SumUnfolds
  <2>2. SumOf(f, T) \notin Nat
    OBVIOUS
  <2>3. QED
    BY <2>1, <2>2
<1>5. Chosen(T) \in T
  BY <1>4, ChosenFrom
<1>6. SumOf(f, T \ {Chosen(T)}) \in Nat
  BY <1>2, <1>5
<1>7. f[Chosen(T)] \in Nat
  BY <1>5 DEF Amounts
<1>8. SumOf(f, T) = f[Chosen(T)] + SumOf(f, T \ {Chosen(T)})
  BY <1>3, <1>4, SumUnfolds
<1>9. QED
  BY <1>6, <1>7, <1>8

\* Whichever element is taken first, the sum is the same.
LEMMA SumOfRest ==
    ASSUME NEW f, NEW S, IsFiniteSet(S), Amounts(f, S), NEW x \in S
    PROVE  SumOf(f, S) = f[x] + SumOf(f, S \ {x})
<1> DEFINE Z == {T \in SUBSET S : \E y \in T : SumOf(f, T) # f[y] + SumOf(f, T \ {y})}
<1>1. SUFFICES ASSUME Z # {} PROVE FALSE
  OBVIOUS
<1>2. PICK T \in Z : \A U \in Z : U \subseteq T => U = T
  <2>1. Z \subseteq SUBSET S
    OBVIOUS
  <2> HIDE DEF Z
  <2>2. QED
    BY <1>1, <2>1, Smallest
<1>3. PICK y \in T : SumOf(f, T) # f[y] + SumOf(f, T \ {y})
  OBVIOUS
<1> DEFINE c == Chosen(T)
           R == (T \ {c}) \ {y}
<1>4. c \in T
  BY <1>3, ChosenFrom
<1>5. \A U : U \subseteq T => IsFiniteSet(U) /\ Amounts(f, U)
  BY FS_Subset DEF Amounts
<1>6. SumOf(f, T) = f[c] + SumOf(f, T \ {c})
  BY <1>3, <1>5, SumUnfolds
<1>7. c # y
  BY <1>3, <1>6
<1>8. ASSUME NEW U, U \subseteq T, U # T, NEW z \in U
    PROVE  SumOf(f, U) = f[z] + SumOf(f, U \ {z})
  <2>1. U \in SUBSET S /\ U \notin Z
    BY <1>2, <1>8
  <2>2. QED
    BY <2>1
<1>9. SumOf(f, T \ {c}) = f[y] + SumOf(f, R)
  <2>1. T \ {c} \subseteq T /\ T \ {c} # T /\ y \in T \ {c}
    BY <1>4, <1>7
  <2>2. QED
    BY <2>1, <1>8
<1>10. SumOf(f, T \ {y}) = f[c] + SumOf(f, R)
  <2>1. (T \ {y}) \ {c} = R
    OBVIOUS
  <2>2. SumOf(f, T \ {y}) = f[c] + SumOf(f, (T \ {y}) \ {c})
    <3>1. T \ {y} \subseteq T /\ T \ {y} # T /\ c \in T \ {y}
      BY <1>4, <1>7
    <3>2. QED
      BY <3>1, <1>8
  <2>3. QED
    BY <2>1, <2>2
<1>11. f[c] \in Nat /\ f[y] \in Nat /\ SumOf(f, R) \in Nat
  <2>1. SumOf(f, R) \in Nat
    BY <1>5, SumType
  <2>2. QED
    BY <1>4, <2>1 DEF Amounts
<1>12. QED
  BY <1>3, <1>6, <1>9, <1>10, <1>11

\* Only the amounts of the set count.
LEMMA SumOfSame ==
    ASSUME NEW f, NEW g, NEW S, IsFiniteSet(S), \A x \in S : f[x] = g[x]
    PROVE  SumOf(f, S) = SumOf(g, S)
<1> DEFINE Z == {T \in SUBSET S : SumOf(f, T) # SumOf(g, T)}
<1>1. SUFFICES ASSUME Z # {} PROVE FALSE
  OBVIOUS
<1>2. PICK T \in Z : \A U \in Z : U \subseteq T => U = T
  <2>1. Z \subseteq SUBSET S
    OBVIOUS
  <2> HIDE DEF Z
  <2>2. QED
    BY <1>1, <2>1, Smallest
<1>3. IsFiniteSet(T)
  BY FS_Subset
<1>4. T # {}
  BY <1>3, SumUnfolds
<1>5. Chosen(T) \in T /\ f[Chosen(T)] = g[Chosen(T)]
  BY <1>4, ChosenFrom
<1>6. SumOf(f, T \ {Chosen(T)}) = SumOf(g, T \ {Chosen(T)})
  BY <1>2, <1>5
<1>7. QED
  BY <1>3, <1>4, <1>5, <1>6, SumUnfolds

\* The bytes of the requests, which WithinBudget compares totalBytes with.
BytesOf == [r \in Requests |-> requests[r].bytes]

LEMMA SumIs == MapThenSumSet(LAMBDA r : requests[r].bytes, Requests) = SumOf(BytesOf, Requests)
  BY DEF MapThenSumSet, MapThenFoldSet, SumOf, SumsOf, Chosen, BytesOf

-----------------------------------------------------------------------------
(* Requests that change their stage.                                       *)

LEMMA RequestsDomain == ASSUME RequestsOK PROVE Requests = 1 .. Len(requests)
  BY LenProperties DEF RequestsOK, Requests

LEMMA FiniteWoken == ASSUME RequestsOK PROVE IsFiniteSet(Woken)
<1>1. Woken \subseteq 1 .. Len(requests)
  BY RequestsDomain DEF Woken, At
<1>2. Len(requests) \in Nat
  BY LenProperties DEF RequestsOK
<1>3. IsFiniteSet(1 .. Len(requests))
  BY <1>2, FS_Interval
<1>4. QED
  BY <1>1, <1>3, FS_Subset

\* The requests when one of them has become another.
LEMMA Replaced ==
    ASSUME RequestsOK, NEW r \in Requests, NEW e \in Request
    PROVE  /\ [requests EXCEPT ![r] = e] \in Seq(Request)
           /\ DOMAIN [requests EXCEPT ![r] = e] = Requests
           /\ [requests EXCEPT ![r] = e][r] = e
           /\ \A s \in Requests \ {r} : [requests EXCEPT ![r] = e][s] = requests[s]
  BY RequestsDomain, ExceptSeq, LenProperties DEF RequestsOK, Requests

LEMMA MovedTo ==
    ASSUME RequestsOK, NEW r \in Requests, NEW stage \in Stages
    PROVE  /\ Moved(r, stage) \in Seq(Request)
           /\ DOMAIN Moved(r, stage) = Requests
           /\ Moved(r, stage)[r].stage = stage
           /\ Moved(r, stage)[r].href = requests[r].href
           /\ Moved(r, stage)[r].bytes = requests[r].bytes
           /\ \A s \in Requests \ {r} : Moved(r, stage)[s] = requests[s]
<1> DEFINE e == [requests[r] EXCEPT !.stage = stage]
<1>1. requests[r] \in Request
  BY RequestsDomain, ElementOfSeq DEF RequestsOK
<1>2. /\ e \in Request
      /\ e.stage = stage /\ e.href = requests[r].href /\ e.bytes = requests[r].bytes
  BY <1>1 DEF Request
<1>3. Moved(r, stage) = [requests EXCEPT ![r] = e]
  BY DEF Moved
<1>4. QED
  BY <1>2, <1>3, Replaced

\* A text is accounted or refused.
LEMMA Accounted ==
    ASSUME RequestsOK, NEW r \in Requests, NEW n \in Sizes, Sizes \subseteq Nat,
           NEW accepted \in Stages, NEW refused \in Stages,
           AccountResource(r, n, accepted, refused)
    PROVE  /\ requests' \in Seq(Request)
           /\ DOMAIN requests' = Requests
           /\ requests'[r].stage \in {accepted, refused}
           /\ requests'[r].href = requests[r].href
           /\ \/ /\ requests'[r].stage = accepted /\ requests'[r].bytes = n
                 /\ totalBytes' = totalBytes + n /\ totalBytes' <= MaxTotalBytes
              \/ /\ requests'[r].stage = refused /\ requests'[r].bytes = requests[r].bytes
                 /\ UNCHANGED totalBytes
           /\ \A s \in Requests \ {r} : requests'[s] = requests[s]
<1> DEFINE e == [requests[r] EXCEPT !.stage = accepted, !.bytes = n]
<1>1. requests[r] \in Request
  BY RequestsDomain, ElementOfSeq DEF RequestsOK
<1>2. /\ e \in Request
      /\ e.stage = accepted /\ e.href = requests[r].href /\ e.bytes = n
  BY <1>1 DEF Request
<1>3. \/ /\ requests' = [requests EXCEPT ![r].stage = accepted, ![r].bytes = n]
         /\ totalBytes' = totalBytes + n /\ totalBytes' <= MaxTotalBytes
      \/ requests' = Moved(r, refused) /\ UNCHANGED totalBytes
  BY DEF AccountResource
<1>4. CASE /\ requests' = [requests EXCEPT ![r].stage = accepted, ![r].bytes = n]
           /\ totalBytes' = totalBytes + n /\ totalBytes' <= MaxTotalBytes
  <2>1. requests' = [requests EXCEPT ![r] = e]
    BY <1>4, RequestsDomain, LenProperties DEF RequestsOK, Requests
  <2> HIDE DEF e
  <2>2. QED
    BY <1>2, <1>4, <2>1, Replaced
<1>5. CASE requests' = Moved(r, refused) /\ UNCHANGED totalBytes
  BY <1>5, MovedTo
<1>6. QED
  BY <1>3, <1>4, <1>5

\* A request that was neither awake nor in the queue, and is neither now,
\* leaves both as they are.
LEMMA Elsewhere ==
    ASSUME PermitInv, NEW r \in Requests,
           requests' \in Seq(Request), DOMAIN requests' = Requests,
           \A s \in Requests \ {r} : requests'[s] = requests[s],
           requests[r].stage \notin {"woken", "waiting"},
           requests'[r].stage # "woken",
           UNCHANGED permitWaiters
    PROVE  RequestsOK' /\ QueueOK' /\ Woken' = Woken
<1>1. RequestsOK' /\ Requests' = Requests
  BY DEF RequestsOK, Requests
<1>2. Woken' = Woken
  BY <1>1 DEF Woken, At
<1>3. \A k \in 1 .. Len(permitWaiters) : permitWaiters[k] \in Requests \ {r}
  BY ElementOfSeq DEF PermitInv, QueueOK
<1>4. QueueOK'
  BY <1>1, <1>3 DEF PermitInv, QueueOK
<1>5. QED
  BY <1>1, <1>2, <1>4

-----------------------------------------------------------------------------
(* The actions.                                                            *)

\* A first call for a text: who waits finds every permit taken.
LEMMA ResolveKeeps ==
    ASSUME PermitInv, ResolverAssumption, NEW h \in Hrefs, Resolve(h)
    PROVE  PermitInv'
<1> DEFINE r == Len(requests) + 1
           Made(stage) == [href |-> h, stage |-> stage, bytes |-> 0]
<1>1. PICK stage \in {"ready", "waiting", "fetching"} :
          /\ requests' = Append(requests, Made(stage))
          /\ \/ /\ stage = "waiting"
                /\ activeRequests >= Concurrency
                /\ permitWaiters' = Append(permitWaiters, r)
                /\ UNCHANGED activeRequests
             \/ /\ stage # "waiting"
                /\ activeRequests' \in {activeRequests, activeRequests + 1}
                /\ UNCHANGED permitWaiters
  BY DEF Resolve
<1>2. Made(stage) \in Request
  BY DEF Request, Stages
<1>3. /\ RequestsOK'
      /\ Len(requests') = r
      /\ \A s \in Requests : requests'[s] = requests[s]
      /\ requests'[r].stage = stage
  BY <1>1, <1>2, RequestsDomain, AppendProperties DEF PermitInv, RequestsOK
<1>4. Len(requests) \in Nat /\ Requests = 1 .. Len(requests) /\ Requests' = Requests \cup {r}
  BY <1>3, RequestsDomain, LenProperties DEF PermitInv, RequestsOK, Requests
<1>5. Woken' = Woken
  BY <1>1, <1>3, <1>4 DEF Woken, At
<1>6. activeRequests' \in Int /\ Concurrency \in Nat /\ Cardinality(Woken) \in Nat
  BY <1>1, FiniteWoken, FS_CardinalityType DEF PermitInv, ResolverAssumption
<1>7. CASE UNCHANGED permitWaiters
  <2>1. QueueOK'
    <3>1. permitWaiters' \in Seq(Requests')
      BY <1>4, <1>7, SeqMonotonic DEF PermitInv, QueueOK
    <3>2. \A k \in 1 .. Len(permitWaiters) : permitWaiters[k] \in Requests
      BY ElementOfSeq DEF PermitInv, QueueOK
    <3>3. QED
      BY <1>3, <1>7, <3>1, <3>2 DEF PermitInv, QueueOK
  <2>2. NoIdlePermit'
    BY <1>1, <1>5, <1>6, <1>7 DEF PermitInv, NoIdlePermit, Woken
  <2>3. QED
    BY <1>3, <1>6, <2>1, <2>2 DEF PermitInv
<1>8. CASE /\ stage = "waiting"
           /\ activeRequests >= Concurrency
           /\ permitWaiters' = Append(permitWaiters, r)
           /\ UNCHANGED activeRequests
  <2>1. permitWaiters \in Seq(Requests') /\ r \in Requests'
    BY <1>4, SeqMonotonic DEF PermitInv, QueueOK
  <2>2. /\ permitWaiters' \in Seq(Requests')
        /\ Len(permitWaiters') = Len(permitWaiters) + 1
        /\ Len(permitWaiters) \in Nat
        /\ \A k \in 1 .. Len(permitWaiters) : permitWaiters'[k] = permitWaiters[k]
        /\ permitWaiters'[Len(permitWaiters) + 1] = r
    BY <1>8, <2>1, AppendProperties, LenProperties
  <2>3. \A k \in 1 .. Len(permitWaiters) : permitWaiters[k] \in Requests /\ permitWaiters[k] # r
    BY <1>4, ElementOfSeq DEF PermitInv, QueueOK
  <2>4. QueueOK'
    <3>1. \A k \in 1 .. Len(permitWaiters') :
             \/ k \in 1 .. Len(permitWaiters) /\ permitWaiters'[k] = permitWaiters[k]
             \/ k = Len(permitWaiters) + 1 /\ permitWaiters'[k] = r
      BY <2>2
    <3>2. \A k \in 1 .. Len(permitWaiters') : requests'[permitWaiters'[k]].stage = "waiting"
      BY <1>3, <1>8, <2>3, <3>1 DEF PermitInv, QueueOK
    <3>3. \A j, k \in 1 .. Len(permitWaiters') :
             permitWaiters'[j] = permitWaiters'[k] => j = k
      BY <2>3, <3>1 DEF PermitInv, QueueOK
    <3>4. QED
      BY <2>2, <3>2, <3>3 DEF QueueOK
  <2>5. NoIdlePermit'
    BY <1>5, <1>6, <1>8 DEF PermitInv, NoIdlePermit, Woken
  <2>6. QED
    BY <1>3, <1>6, <2>4, <2>5 DEF PermitInv
<1>9. QED
  BY <1>1, <1>7, <1>8

\* A waiter that resumes takes the permit it was woken for.
LEMMA TakePermitKeeps ==
    ASSUME PermitInv, ResolverAssumption, NEW r \in Requests, TakePermit(r)
    PROVE  PermitInv'
<1>1. /\ RequestsOK' /\ Requests' = Requests
      /\ requests'[r].stage = "fetching"
      /\ \A s \in Requests \ {r} : requests'[s] = requests[s]
  BY MovedTo DEF PermitInv, RequestsOK, Requests, TakePermit, Stages
<1>2. Woken' = Woken \ {r} /\ r \in Woken
  BY <1>1 DEF Woken, At, TakePermit
<1>3. /\ Cardinality(Woken') = Cardinality(Woken) - 1
      /\ Cardinality(Woken) \in Nat
  BY <1>2, FiniteWoken, FS_RemoveElement, FS_CardinalityType DEF PermitInv
<1>4. \A k \in 1 .. Len(permitWaiters) : permitWaiters[k] \in Requests \ {r}
  BY ElementOfSeq DEF PermitInv, QueueOK, TakePermit
<1>5. QueueOK'
  BY <1>1, <1>4 DEF PermitInv, QueueOK, TakePermit
<1>6. activeRequests' = activeRequests + 1 /\ UNCHANGED permitWaiters
  BY DEF TakePermit
<1>7. NoIdlePermit'
  BY <1>3, <1>6 DEF PermitInv, NoIdlePermit, Woken, ResolverAssumption
<1>8. QED
  BY <1>1, <1>5, <1>6, <1>7 DEF PermitInv

\* A permit that is returned goes to the first who waits, if anyone does.
LEMMA ReleaseKeeps ==
    ASSUME PermitInv, ResolverAssumption, NEW r \in Requests, Release(r)
    PROVE  PermitInv'
<1> DEFINE settled == Moved(r, IF requests[r].stage = "fetched" THEN "fulfilled" ELSE "rejected")
<1>1. /\ settled \in Seq(Request) /\ DOMAIN settled = Requests
      /\ settled[r].stage \in {"fulfilled", "rejected"}
      /\ \A s \in Requests \ {r} : settled[s] = requests[s]
  BY MovedTo DEF PermitInv, Stages
<1>2. requests[r].stage \in {"fetched", "failed"} /\ activeRequests' = activeRequests - 1
  BY DEF Release
<1>3. activeRequests' \in Int /\ Concurrency \in Nat /\ Cardinality(Woken) \in Nat
  BY <1>2, FiniteWoken, FS_CardinalityType DEF PermitInv, ResolverAssumption
<1>4. CASE permitWaiters = <<>>
  <2>1. requests' = settled /\ UNCHANGED permitWaiters
    BY <1>4 DEF Release
  <2>2. RequestsOK' /\ QueueOK'
    BY <1>1, <1>2, <2>1, Elsewhere
  <2>3. NoIdlePermit'
    BY <1>4, <2>1 DEF NoIdlePermit
  <2>4. QED
    BY <1>3, <2>2, <2>3 DEF PermitInv
<1>5. CASE permitWaiters # <<>>
  <2> DEFINE w == Head(permitWaiters)
             e == [settled[w] EXCEPT !.stage = "woken"]
  <2>1. /\ requests' = [settled EXCEPT ![w] = e]
        /\ permitWaiters' = Tail(permitWaiters)
    BY <1>5 DEF Release
  <2>2. /\ Len(permitWaiters) \in Nat /\ Len(permitWaiters) >= 1
        /\ w = permitWaiters[1]
        /\ permitWaiters' \in Seq(Requests)
        /\ Len(permitWaiters') = Len(permitWaiters) - 1
        /\ \A k \in 1 .. Len(permitWaiters') : permitWaiters'[k] = permitWaiters[k + 1]
    BY <1>5, <2>1, HeadTailProperties, EmptySeq, LenProperties DEF PermitInv, QueueOK
  <2>3. w \in Requests /\ requests[w].stage = "waiting" /\ w # r
    BY <1>2, <2>2, ElementOfSeq DEF PermitInv, QueueOK
  <2>4. settled[w] \in Request
    BY <1>1, <2>3, ElementOfSeq, LenProperties
  <2>5. e \in Request /\ e.stage = "woken"
    BY <2>4 DEF Request, Stages
  <2>6. /\ requests' \in Seq(Request)
        /\ DOMAIN requests' = Requests
        /\ requests'[w] = e
        /\ \A s \in Requests \ {w} : requests'[s] = settled[s]
    <3> HIDE DEF e, settled, w
    <3> QED
      BY <1>1, <2>1, <2>3, <2>5, ExceptSeq, LenProperties
  <2>7. RequestsOK' /\ Requests' = Requests
    BY <2>6 DEF RequestsOK, Requests
  <2>8. Woken' = Woken \cup {w} /\ w \notin Woken
    <3>1. \A s \in Requests \ {w} : requests'[s].stage = "woken" <=> requests[s].stage = "woken"
      BY <1>1, <1>2, <2>6
    <3>2. QED
      BY <2>3, <2>5, <2>6, <2>7, <3>1 DEF Woken, At
  <2>9. Cardinality(Woken') = Cardinality(Woken) + 1
    BY <2>8, FiniteWoken, FS_AddElement DEF PermitInv
  <2>10. \A k \in 2 .. Len(permitWaiters) : permitWaiters[k] \in Requests \ {r, w}
    BY <1>2, <2>2, ElementOfSeq DEF PermitInv, QueueOK
  <2>11. \A k \in 1 .. Len(permitWaiters') :
             requests'[permitWaiters'[k]] = requests[permitWaiters[k + 1]]
    <3> TAKE k \in 1 .. Len(permitWaiters')
    <3>1. permitWaiters'[k] = permitWaiters[k + 1] /\ k + 1 \in 2 .. Len(permitWaiters)
      BY <2>2
    <3>2. permitWaiters[k + 1] \in Requests \ {r, w}
      BY <2>10, <3>1
    <3>3. QED
      BY <1>1, <2>6, <3>1, <3>2
  <2>12. QueueOK'
    BY <2>2, <2>7, <2>11 DEF PermitInv, QueueOK
  <2>13. NoIdlePermit'
    BY <1>2, <1>3, <1>5, <2>9 DEF PermitInv, NoIdlePermit, Woken
  <2>14. QED
    BY <1>3, <2>7, <2>12, <2>13 DEF PermitInv
<1>6. QED
  BY <1>4, <1>5

\* Whatever else happens to a request happens away from the queue.
LEMMA OthersKeep ==
    ASSUME PermitInv, ResolverAssumption, NEW r \in Requests,
           AccountSupplied(r) \/ Fetch(r) \/ FetchFails(r) \/ Forget(r)
    PROVE  PermitInv'
<1>1. UNCHANGED <<activeRequests, permitWaiters>>
  BY DEF AccountSupplied, Fetch, FetchFails, Forget
<1>2. requests[r].stage \notin {"woken", "waiting"}
  BY DEF AccountSupplied, Fetch, FetchFails, Forget
<1>3. /\ requests' \in Seq(Request)
      /\ DOMAIN requests' = Requests
      /\ requests'[r].stage # "woken"
      /\ \A s \in Requests \ {r} : requests'[s] = requests[s]
  <2>1. CASE AccountSupplied(r)
    BY <2>1, Accounted DEF PermitInv, ResolverAssumption, AccountSupplied, Stages
  <2>2. CASE Fetch(r)
    BY <2>2, Accounted DEF PermitInv, ResolverAssumption, Fetch, Stages
  <2>3. CASE FetchFails(r)
    BY <2>3, MovedTo DEF PermitInv, FetchFails, Stages
  <2>4. CASE Forget(r)
    BY <2>4, MovedTo DEF PermitInv, Forget, Stages
  <2>5. QED
    BY <2>1, <2>2, <2>3, <2>4
<1>4. RequestsOK' /\ QueueOK' /\ Woken' = Woken
  BY <1>1, <1>2, <1>3, Elsewhere
<1>5. NoIdlePermit'
  BY <1>1, <1>4 DEF PermitInv, NoIdlePermit, Woken
<1>6. QED
  BY <1>1, <1>4, <1>5 DEF PermitInv

LEMMA PermitStep ==
    ASSUME ResolverAssumption
    PROVE  PermitInv /\ [ResolverNext]_resolverVars => PermitInv'
<1> SUFFICES ASSUME PermitInv, [ResolverNext]_resolverVars
             PROVE  PermitInv'
  OBVIOUS
<1>1. ASSUME NEW h \in Hrefs, Resolve(h) PROVE PermitInv'
  BY <1>1, ResolveKeeps
<1>2. ASSUME NEW r \in Requests, TakePermit(r) PROVE PermitInv'
  BY <1>2, TakePermitKeeps
<1>3. ASSUME NEW r \in Requests, Release(r) PROVE PermitInv'
  BY <1>3, ReleaseKeeps
<1>4. ASSUME NEW r \in Requests,
             AccountSupplied(r) \/ Fetch(r) \/ FetchFails(r) \/ Forget(r)
      PROVE  PermitInv'
  BY <1>4, OthersKeep
<1>5. CASE UNCHANGED resolverVars
  BY <1>5 DEF resolverVars, PermitInv, RequestsOK, QueueOK, NoIdlePermit, At, Requests
<1>6. QED
  BY <1>1, <1>2, <1>3, <1>4, <1>5 DEF ResolverNext

\* Nobody waits while a permit is free, for any number of texts and permits:
\* also when a call takes the permit that a woken waiter is about to take, and
\* when the requests ahead of it fail.
THEOREM NoIdlePermitCorrect == ResolverSpec => []NoIdlePermit
<1> USE ResolverAssumption
<1>1. ResolverInit => PermitInv
  BY EmptySeq DEF ResolverInit, PermitInv, RequestsOK, QueueOK, NoIdlePermit
<1>2. PermitInv /\ [ResolverNext]_resolverVars => PermitInv'
  BY PermitStep
<1>3. PermitInv => NoIdlePermit
  BY DEF PermitInv
<1>4. QED
  BY <1>1, <1>2, <1>3, PTL DEF ResolverSpec

-----------------------------------------------------------------------------
(* The counts and the budget.                                              *)

Held == At({"fetching", "fetched", "failed"})
Waiting == At({"waiting"})

CountsOK ==
    /\ Len(requests) <= MaxItems
    /\ cache \in [Hrefs -> Requests \cup {NoRequest}]
    /\ activeRequests = Cardinality(Held)
    /\ {permitWaiters[k] : k \in DOMAIN permitWaiters} = Waiting
    /\ Len(permitWaiters) = Cardinality(Waiting)

\* A text counts while it is accepted, and a request that is not forgotten is
\* the one that the cache has for its text.
BudgetOK ==
    /\ totalBytes \in 0 .. MaxTotalBytes
    /\ totalBytes = SumOf(BytesOf, Requests)
    /\ \A r \in Requests :
          /\ requests[r].bytes > 0 => requests[r].stage \in {"fetched", "fulfilled"}
          /\ requests[r].stage # "gone" => cache[requests[r].href] = r

ResolverInv == PermitInv /\ CountsOK /\ BudgetOK

LEMMA FieldsOf ==
    ASSUME NEW e \in Request, ResolverAssumption
    PROVE  /\ e.href \in Hrefs /\ e.stage \in Stages
           /\ e.bytes \in Sizes \cup {0} /\ e.bytes \in Nat
<1>1. e.href \in Hrefs /\ e.stage \in Stages /\ e.bytes \in Sizes \cup {0}
  BY DEF Request
<1>2. Sizes \cup {0} \subseteq Nat
  BY DEF ResolverAssumption
<1>3. QED
  BY <1>1, <1>2

LEMMA RequestFields ==
    ASSUME RequestsOK, ResolverAssumption, NEW r \in Requests
    PROVE  /\ requests[r].href \in Hrefs /\ requests[r].stage \in Stages
           /\ requests[r].bytes \in Sizes \cup {0} /\ requests[r].bytes \in Nat
<1>1. requests[r] \in Request
  BY RequestsDomain, ElementOfSeq DEF RequestsOK
<1>2. QED
  BY <1>1, FieldsOf

LEMMA FiniteRequests ==
    ASSUME RequestsOK
    PROVE  IsFiniteSet(Requests) /\ \A stages : IsFiniteSet(At(stages))
<1>1. IsFiniteSet(Requests)
  BY RequestsDomain, LenProperties, FS_Interval DEF RequestsOK
<1>2. \A stages : At(stages) \subseteq Requests
  BY DEF At
<1>3. QED
  BY <1>1, <1>2, FS_Subset

LEMMA PrimedSum == SumOf(BytesOf, Requests)' = SumOf(BytesOf', Requests')
  BY DEF SumOf, SumsOf, Chosen

\* The sum after a step that gives one request its bytes.
LEMMA SumAfter ==
    ASSUME RequestsOK, ResolverAssumption, RequestsOK', Requests' = Requests,
           NEW r \in Requests, \A s \in Requests \ {r} : requests'[s].bytes = requests[s].bytes
    PROVE  SumOf(BytesOf, Requests)' =
               SumOf(BytesOf, Requests) + requests'[r].bytes - requests[r].bytes
<1> DEFINE f == BytesOf
           e == BytesOf'
           R == Requests
<1>1. \A s \in R : f[s] = requests[s].bytes /\ e[s] = requests'[s].bytes
  BY DEF BytesOf
<1>2. Amounts(f, R) /\ Amounts(e, R)
  <2>1. \A s \in R : requests[s].bytes \in Nat
    BY RequestFields
  <2>2. \A s \in R : requests'[s].bytes \in Nat
    <3>1. \A s \in R : requests'[s] \in Request
      BY RequestsDomain, ElementOfSeq, LenProperties DEF RequestsOK, Requests
    <3>2. QED
      BY <3>1, FieldsOf
  <2>3. QED
    BY <1>1, <2>1, <2>2 DEF Amounts
<1>3. IsFiniteSet(R) /\ IsFiniteSet(R \ {r})
  BY FiniteRequests, FS_Subset
<1>4. \A s \in R \ {r} : f[s] = e[s]
  BY <1>1
<1>5. f[r] \in Nat /\ e[r] \in Nat /\ Amounts(f, R \ {r})
  BY <1>2 DEF Amounts
<1>6. SumOf(BytesOf, Requests)' = SumOf(e, R)
  BY PrimedSum
<1>7. f[r] = requests[r].bytes /\ e[r] = requests'[r].bytes
  BY <1>1
<1> HIDE DEF e, f, R
<1>8. r \in R
  BY DEF R
<1>9. /\ SumOf(f, R) = f[r] + SumOf(f, R \ {r})
      /\ SumOf(e, R) = e[r] + SumOf(e, R \ {r})
      /\ SumOf(f, R \ {r}) = SumOf(e, R \ {r})
      /\ SumOf(f, R \ {r}) \in Nat
  BY <1>2, <1>3, <1>4, <1>5, <1>8, SumOfRest, SumOfSame, SumType
<1>10. SumOf(BytesOf, Requests) = SumOf(f, R)
  BY DEF f, R
<1>11. QED
  BY <1>5, <1>6, <1>7, <1>9, <1>10

\* What a set of stages holds after a step that changes one request.
LEMMA AtAfter ==
    ASSUME Requests' = Requests, NEW r \in Requests,
           \A s \in Requests \ {r} : requests'[s] = requests[s], NEW stages
    PROVE  /\ requests[r].stage \in stages /\ requests'[r].stage \in stages =>
                 At(stages)' = At(stages)
           /\ requests[r].stage \notin stages /\ requests'[r].stage \notin stages =>
                 At(stages)' = At(stages)
           /\ requests[r].stage \notin stages /\ requests'[r].stage \in stages =>
                 r \notin At(stages) /\ At(stages)' = At(stages) \cup {r}
           /\ requests[r].stage \in stages /\ requests'[r].stage \notin stages =>
                 r \in At(stages) /\ At(stages)' = At(stages) \ {r}
  BY DEF At

\* A first call: the request is new, has no bytes, and is what the cache has.
LEMMA ResolveCounts ==
    ASSUME ResolverInv, ResolverAssumption, NEW h \in Hrefs, Resolve(h)
    PROVE  CountsOK' /\ BudgetOK'
<1> DEFINE r == Len(requests) + 1
           Made(stage) == [href |-> h, stage |-> stage, bytes |-> 0]
<1>1. PICK stage \in {"ready", "waiting", "fetching"} :
          /\ requests' = Append(requests, Made(stage))
          /\ \/ /\ stage = "waiting"
                /\ permitWaiters' = Append(permitWaiters, r)
                /\ UNCHANGED activeRequests
             \/ /\ stage = "ready"
                /\ UNCHANGED <<activeRequests, permitWaiters>>
             \/ /\ stage = "fetching"
                /\ activeRequests' = activeRequests + 1
                /\ UNCHANGED permitWaiters
  BY DEF Resolve
<1>2. /\ cache[h] = NoRequest /\ Len(requests) < MaxItems
      /\ cache' = [cache EXCEPT ![h] = r] /\ totalBytes' = totalBytes
  BY DEF Resolve
<1>3. Made(stage) \in Request
  BY DEF Request, Stages
<1>4. /\ RequestsOK /\ RequestsOK'
      /\ Len(requests') = r
      /\ \A s \in Requests : requests'[s] = requests[s]
      /\ requests'[r] = Made(stage)
  BY <1>1, <1>3, RequestsDomain, AppendProperties DEF ResolverInv, PermitInv, RequestsOK
<1>5. /\ Len(requests) \in Nat /\ Requests = 1 .. Len(requests)
      /\ Requests' = Requests \cup {r} /\ r \notin Requests /\ r # NoRequest
  BY <1>4, RequestsDomain, LenProperties DEF RequestsOK, Requests, NoRequest
<1>6. \A stages : /\ stage \in stages => At(stages)' = At(stages) \cup {r}
                  /\ stage \notin stages => At(stages)' = At(stages)
                  /\ r \notin At(stages) /\ IsFiniteSet(At(stages))
                  /\ Cardinality(At(stages) \cup {r}) = Cardinality(At(stages)) + 1
  <2> TAKE stages
  <2>1. /\ stage \in stages => At(stages)' = At(stages) \cup {r}
        /\ stage \notin stages => At(stages)' = At(stages)
        /\ r \notin At(stages)
    BY <1>4, <1>5 DEF At
  <2>2. IsFiniteSet(At(stages))
    BY <1>4, FiniteRequests
  <2>3. QED
    BY <2>1, <2>2, FS_AddElement
<1>7. CountsOK'
  <2>1. Len(requests') <= MaxItems /\ cache' \in [Hrefs -> Requests' \cup {NoRequest}]
    BY <1>2, <1>4, <1>5 DEF ResolverInv, CountsOK, ResolverAssumption
  <2>2. activeRequests' = Cardinality(Held')
    BY <1>1, <1>6 DEF Held, ResolverInv, CountsOK
  <2>3. /\ Len(permitWaiters) \in Nat /\ DOMAIN permitWaiters = 1 .. Len(permitWaiters)
        /\ permitWaiters \in Seq(Requests)
    BY LenProperties DEF ResolverInv, PermitInv, QueueOK
  <2>4. CASE stage # "waiting"
    <3>1. Waiting' = Waiting /\ UNCHANGED permitWaiters
      BY <1>1, <1>6, <2>4 DEF Waiting
    <3>2. QED
      BY <2>1, <2>2, <3>1 DEF ResolverInv, CountsOK
  <2>5. CASE stage = "waiting"
    <3>1. Waiting' = Waiting \cup {r} /\ Cardinality(Waiting') = Cardinality(Waiting) + 1
      BY <1>6, <2>5 DEF Waiting
    <3>2. permitWaiters' = Append(permitWaiters, r)
      BY <1>1, <2>5
    <3>3. permitWaiters \in Seq(Requests \cup {r})
      BY <2>3, SeqMonotonic
    <3>4. /\ Len(permitWaiters') = Len(permitWaiters) + 1
          /\ DOMAIN permitWaiters' = 1 .. Len(permitWaiters) + 1
          /\ \A k \in 1 .. Len(permitWaiters) : permitWaiters'[k] = permitWaiters[k]
          /\ permitWaiters'[Len(permitWaiters) + 1] = r
      BY <2>3, <3>2, <3>3, AppendProperties
    <3>5. {permitWaiters'[k] : k \in DOMAIN permitWaiters'} =
              {permitWaiters[k] : k \in DOMAIN permitWaiters} \cup {r}
      BY <2>3, <3>4
    <3>6. QED
      BY <2>1, <2>2, <3>1, <3>4, <3>5 DEF ResolverInv, CountsOK
  <2>6. QED
    BY <2>4, <2>5
<1>8. BudgetOK'
  <2>1. SumOf(BytesOf, Requests)' = SumOf(BytesOf, Requests)
    <3> DEFINE f == BytesOf
               e == BytesOf'
               R == Requests
               R1 == Requests'
    <3>1. /\ \A s \in R1 : e[s] = requests'[s].bytes
          /\ \A s \in R : f[s] = requests[s].bytes
      BY DEF BytesOf
    <3>2. e[r] = 0 /\ \A s \in R : f[s] = e[s] /\ f[s] \in Nat
      BY <1>4, <1>5, <3>1, RequestFields
    <3>3. IsFiniteSet(R) /\ IsFiniteSet(R1)
      BY <1>4, <1>5, FiniteRequests, FS_AddElement
    <3>4. r \in R1 /\ R1 \ {r} = R
      BY <1>5
    <3>5. SumOf(BytesOf, Requests)' = SumOf(e, R1) /\ SumOf(BytesOf, Requests) = SumOf(f, R)
      BY PrimedSum
    <3> HIDE DEF f, e, R, R1
    <3>6. Amounts(f, R) /\ Amounts(e, R1)
      BY <3>2, <3>4 DEF Amounts
    <3>7. /\ SumOf(e, R1) = e[r] + SumOf(e, R1 \ {r})
          /\ SumOf(f, R) = SumOf(e, R)
          /\ SumOf(f, R) \in Nat
      BY <3>2, <3>3, <3>4, <3>6, SumOfRest, SumOfSame, SumType
    <3>8. SumOf(e, R1) = SumOf(f, R)
      <4>1. SumOf(e, R1 \ {r}) = SumOf(f, R)
        BY <3>4, <3>7
      <4>2. SumOf(e, R1) = 0 + SumOf(f, R)
        BY <3>2, <3>7, <4>1
      <4>3. QED
        BY <3>7, <4>2
    <3>9. QED
      BY <3>5, <3>8
  <2>2. ASSUME NEW s \in Requests'
        PROVE  /\ requests'[s].bytes > 0 => requests'[s].stage \in {"fetched", "fulfilled"}
               /\ requests'[s].stage # "gone" => cache'[requests'[s].href] = s
    <3>1. CASE s = r
      BY <1>1, <1>2, <1>4, <3>1 DEF ResolverInv, CountsOK
    <3>2. CASE s # r
      <4>1. s \in Requests /\ requests'[s] = requests[s] /\ s # NoRequest
        BY <1>4, <1>5, <3>2 DEF NoRequest
      <4>2. requests[s].href \in Hrefs
        BY <1>4, <4>1, RequestFields
      <4>3. requests[s].stage # "gone" => requests[s].href # h
        BY <1>2, <4>1 DEF ResolverInv, BudgetOK
      <4>4. QED
        BY <1>2, <4>1, <4>2, <4>3 DEF ResolverInv, BudgetOK, CountsOK
    <3>3. QED
      BY <3>1, <3>2
  <2>3. QED
    BY <1>2, <2>1, <2>2 DEF ResolverInv, BudgetOK
<1>9. QED
  BY <1>7, <1>8

\* The budget after a step that leaves the cache and gives one request its bytes.
LEMMA BudgetAfter ==
    ASSUME ResolverInv, ResolverAssumption, RequestsOK', Requests' = Requests,
           UNCHANGED cache, NEW r \in Requests,
           \A s \in Requests : /\ requests'[s].href = requests[s].href
                               /\ requests'[s].stage # "gone" => requests[s].stage # "gone"
                               /\ requests'[s].bytes > 0 =>
                                     requests'[s].stage \in {"fetched", "fulfilled"},
           \A s \in Requests \ {r} : requests'[s].bytes = requests[s].bytes,
           \/ requests'[r].bytes = requests[r].bytes /\ UNCHANGED totalBytes
           \/ /\ requests[r].bytes = 0 /\ requests'[r].bytes \in Nat
              /\ totalBytes' = totalBytes + requests'[r].bytes /\ totalBytes' <= MaxTotalBytes
    PROVE  BudgetOK'
<1>1. RequestsOK /\ requests[r].bytes \in Nat /\ totalBytes \in 0 .. MaxTotalBytes
  BY RequestFields DEF ResolverInv, PermitInv, BudgetOK
<1>2. totalBytes = SumOf(BytesOf, Requests)
  BY DEF ResolverInv, BudgetOK
<1>3. SumOf(BytesOf, Requests)' = totalBytes + requests'[r].bytes - requests[r].bytes
  BY <1>1, <1>2, SumAfter
<1>4. totalBytes' = SumOf(BytesOf, Requests)' /\ totalBytes' \in 0 .. MaxTotalBytes
  BY <1>1, <1>3 DEF ResolverAssumption
<1>5. QED
  BY <1>4 DEF ResolverInv, BudgetOK

\* A waiter that resumes holds the permit it takes.
LEMMA TakePermitCounts ==
    ASSUME ResolverInv, ResolverAssumption, NEW r \in Requests, TakePermit(r)
    PROVE  CountsOK' /\ BudgetOK'
<1>1. /\ requests' \in Seq(Request) /\ Requests' = Requests
      /\ requests'[r].stage = "fetching" /\ requests[r].stage = "woken"
      /\ requests'[r].href = requests[r].href /\ requests'[r].bytes = requests[r].bytes
      /\ \A s \in Requests \ {r} : requests'[s] = requests[s]
  BY MovedTo DEF ResolverInv, PermitInv, Requests, TakePermit, Stages
<1>2. RequestsOK /\ RequestsOK' /\ Len(requests') = Len(requests)
  BY <1>1, RequestsDomain, LenProperties DEF ResolverInv, PermitInv, RequestsOK, Requests
<1>3. UNCHANGED <<cache, totalBytes, permitWaiters>> /\ activeRequests' = activeRequests + 1
  BY DEF TakePermit
<1>4. Waiting' = Waiting
  BY <1>1, AtAfter DEF Waiting
<1>5. r \notin Held /\ Held' = Held \cup {r} /\ IsFiniteSet(Held)
  BY <1>1, <1>2, AtAfter, FiniteRequests DEF Held
<1>6. Cardinality(Held') = Cardinality(Held) + 1
  BY <1>5, FS_AddElement
<1>7. CountsOK'
  BY <1>1, <1>2, <1>3, <1>4, <1>6 DEF ResolverInv, CountsOK
<1>8. BudgetOK'
  <2>1. \A s \in Requests : requests[s].bytes > 0 => requests[s].stage \in {"fetched", "fulfilled"}
    BY DEF ResolverInv, BudgetOK
  <2>2. \A s \in Requests :
            /\ requests'[s].href = requests[s].href
            /\ requests'[s].stage # "gone" => requests[s].stage # "gone"
            /\ requests'[s].bytes > 0 => requests'[s].stage \in {"fetched", "fulfilled"}
    BY <1>1, <2>1
  <2>3. QED
    BY <1>1, <1>2, <1>3, <2>2, BudgetAfter
<1>9. QED
  BY <1>7, <1>8

\* A permit that is returned is no longer held, and who is woken no longer waits.
LEMMA ReleaseCounts ==
    ASSUME ResolverInv, ResolverAssumption, NEW r \in Requests, Release(r)
    PROVE  CountsOK' /\ BudgetOK'
<1> DEFINE settled == Moved(r, IF requests[r].stage = "fetched" THEN "fulfilled" ELSE "rejected")
<1>1. /\ settled \in Seq(Request) /\ DOMAIN settled = Requests
      /\ settled[r].stage = IF requests[r].stage = "fetched" THEN "fulfilled" ELSE "rejected"
      /\ settled[r].href = requests[r].href /\ settled[r].bytes = requests[r].bytes
      /\ \A s \in Requests \ {r} : settled[s] = requests[s]
  BY MovedTo DEF ResolverInv, PermitInv, Stages
<1>2. /\ requests[r].stage \in {"fetched", "failed"} /\ activeRequests' = activeRequests - 1
      /\ UNCHANGED <<cache, totalBytes>>
  BY DEF Release
<1>3. PermitInv' /\ RequestsOK' /\ RequestsOK
  BY ReleaseKeeps DEF ResolverInv, PermitInv
<1>4. /\ Len(permitWaiters) \in Nat /\ DOMAIN permitWaiters = 1 .. Len(permitWaiters)
      /\ permitWaiters \in Seq(Requests)
      /\ \A k \in 1 .. Len(permitWaiters) : permitWaiters[k] \in Requests
  BY LenProperties, ElementOfSeq DEF ResolverInv, PermitInv, QueueOK
<1>5. /\ Requests' = Requests /\ Len(requests') = Len(requests)
      /\ requests'[r] = settled[r]
      /\ \/ /\ permitWaiters = <<>> /\ UNCHANGED permitWaiters
            /\ \A s \in Requests \ {r} : requests'[s] = requests[s]
         \/ /\ permitWaiters # <<>> /\ permitWaiters' = Tail(permitWaiters)
            /\ permitWaiters[1] \in Requests \ {r}
            /\ requests'[permitWaiters[1]].stage = "woken"
            /\ requests'[permitWaiters[1]].href = requests[permitWaiters[1]].href
            /\ requests'[permitWaiters[1]].bytes = requests[permitWaiters[1]].bytes
            /\ \A s \in Requests \ {r, permitWaiters[1]} : requests'[s] = requests[s]
  <2>1. CASE permitWaiters = <<>>
    <3>1. requests' = settled /\ UNCHANGED permitWaiters
      BY <2>1 DEF Release
    <3> HIDE DEF settled
    <3>2. QED
      BY <1>1, <1>3, <2>1, <3>1, RequestsDomain, LenProperties DEF Requests, RequestsOK
  <2>2. CASE permitWaiters # <<>>
    <3> DEFINE w == Head(permitWaiters)
               e == [settled[w] EXCEPT !.stage = "woken"]
    <3>1. requests' = [settled EXCEPT ![w] = e] /\ permitWaiters' = Tail(permitWaiters)
      BY <2>2 DEF Release
    <3>2. w = permitWaiters[1] /\ 1 \in 1 .. Len(permitWaiters)
      BY <1>4, <2>2, HeadTailProperties, EmptySeq
    <3>3. w \in Requests \ {r} /\ requests[w].stage = "waiting"
      BY <1>2, <1>4, <3>2 DEF ResolverInv, PermitInv, QueueOK
    <3>4. settled[w] \in Request /\ settled[w] = requests[w]
      BY <1>1, <3>3, ElementOfSeq, LenProperties
    <3>5. e.stage = "woken" /\ e.href = requests[w].href /\ e.bytes = requests[w].bytes
      BY <3>4 DEF Request
    <3> HIDE DEF e, w, settled
    <3>6. /\ requests'[w] = e /\ DOMAIN requests' = Requests
          /\ \A s \in Requests \ {w} : requests'[s] = settled[s]
      BY <1>1, <3>1, <3>3
    <3>7. Requests' = Requests /\ Len(requests') = Len(requests)
      BY <1>3, <3>6, RequestsDomain, LenProperties DEF Requests, RequestsOK
    <3>8. QED
      BY <1>1, <2>2, <3>1, <3>2, <3>3, <3>5, <3>6, <3>7
  <2>3. QED
    BY <2>1, <2>2
<1>6. \A s \in Requests : requests'[s].stage \in {"fetching", "fetched", "failed"} <=>
                          s # r /\ requests[s].stage \in {"fetching", "fetched", "failed"}
  <2>1. permitWaiters # <<>> => requests[permitWaiters[1]].stage = "waiting"
    <3>1. permitWaiters # <<>> => 1 \in 1 .. Len(permitWaiters)
      BY <1>4, EmptySeq
    <3>2. QED
      BY <3>1 DEF ResolverInv, PermitInv, QueueOK
  <2>2. QED
    BY <1>1, <1>5, <2>1
<1>7. Held' = Held \ {r} /\ r \in Held /\ IsFiniteSet(Held)
  BY <1>2, <1>3, <1>5, <1>6, FiniteRequests DEF Held, At
<1>8. /\ Cardinality(Held') = Cardinality(Held) - 1
      /\ activeRequests' = Cardinality(Held')
  BY <1>2, <1>7, FS_RemoveElement DEF ResolverInv, CountsOK
<1>9. /\ {permitWaiters'[k] : k \in DOMAIN permitWaiters'} = Waiting'
      /\ Len(permitWaiters') = Cardinality(Waiting')
  <2>1. CASE permitWaiters = <<>>
    <3>1. Waiting' = Waiting /\ UNCHANGED permitWaiters
      BY <1>1, <1>2, <1>5, <2>1 DEF Waiting, At
    <3>2. QED
      BY <3>1 DEF ResolverInv, CountsOK
  <2>2. CASE permitWaiters # <<>>
    <3> DEFINE w == permitWaiters[1]
    <3>1. /\ Len(permitWaiters) >= 1 /\ Len(permitWaiters') = Len(permitWaiters) - 1
          /\ DOMAIN permitWaiters' = 1 .. Len(permitWaiters) - 1
          /\ \A k \in 1 .. Len(permitWaiters) - 1 : permitWaiters'[k] = permitWaiters[k + 1]
      <4>1. permitWaiters' = Tail(permitWaiters)
        BY <1>5, <2>2
      <4>2. /\ Len(permitWaiters) >= 1 /\ permitWaiters' \in Seq(Requests)
            /\ Len(permitWaiters') = Len(permitWaiters) - 1
            /\ \A k \in 1 .. Len(permitWaiters') : permitWaiters'[k] = permitWaiters[k + 1]
        BY <1>4, <2>2, <4>1, HeadTailProperties, EmptySeq
      <4>3. DOMAIN permitWaiters' = 1 .. Len(permitWaiters')
        BY <4>2, LenProperties
      <4>4. QED
        BY <4>2, <4>3
    <3>2. \A k \in 1 .. Len(permitWaiters) : permitWaiters[k] = w => k = 1
      BY <3>1 DEF ResolverInv, PermitInv, QueueOK
    <3>3. w \in Waiting
      BY <1>4, <3>1 DEF Waiting, At, ResolverInv, PermitInv, QueueOK
    <3>4. Waiting' = Waiting \ {w}
      BY <1>1, <1>2, <1>5, <2>2 DEF Waiting, At
    <3> HIDE DEF w
    <3>5. {permitWaiters'[k] : k \in DOMAIN permitWaiters'} =
              {permitWaiters[k] : k \in DOMAIN permitWaiters} \ {w}
      <4>1. ASSUME NEW k \in 1 .. Len(permitWaiters) - 1
            PROVE  permitWaiters'[k] \in {permitWaiters[j] : j \in DOMAIN permitWaiters} \ {w}
        <5>1. k + 1 \in 1 .. Len(permitWaiters) /\ k + 1 # 1
          BY <1>4
        <5>2. QED
          BY <1>4, <3>1, <3>2, <5>1
      <4>2. ASSUME NEW k \in 1 .. Len(permitWaiters), permitWaiters[k] # w
            PROVE  permitWaiters[k] \in {permitWaiters'[j] : j \in DOMAIN permitWaiters'}
        <5>1. k # 1
          BY <4>2 DEF w
        <5>2. k - 1 \in 1 .. Len(permitWaiters) - 1 /\ (k - 1) + 1 = k
          BY <1>4, <5>1
        <5>3. QED
          BY <3>1, <5>2
      <4>3. QED
        BY <1>4, <3>1, <4>1, <4>2
    <3>6. IsFiniteSet(Waiting)
      BY <1>3, FiniteRequests DEF Waiting
    <3>7. Cardinality(Waiting') = Cardinality(Waiting) - 1
      BY <3>3, <3>4, <3>6, FS_RemoveElement
    <3>8. QED
      BY <3>1, <3>4, <3>5, <3>7 DEF ResolverInv, CountsOK
  <2>3. QED
    BY <2>1, <2>2
<1>10. CountsOK'
  BY <1>2, <1>5, <1>8, <1>9 DEF ResolverInv, CountsOK
<1>11. BudgetOK'
  <2>1. \A s \in Requests : /\ requests[s].bytes > 0 => requests[s].stage \in {"fetched", "fulfilled"}
                            /\ requests[s].bytes \in Nat
    BY <1>3, RequestFields DEF ResolverInv, BudgetOK
  <2>2. \A s \in Requests : /\ requests'[s].href = requests[s].href
                            /\ requests'[s].bytes = requests[s].bytes
    BY <1>1, <1>5
  <2>3. permitWaiters # <<>> => requests[permitWaiters[1]].stage = "waiting"
    <3>1. permitWaiters # <<>> => 1 \in 1 .. Len(permitWaiters)
      BY <1>4, EmptySeq
    <3>2. QED
      BY <3>1 DEF ResolverInv, PermitInv, QueueOK
  <2>4. \A s \in Requests :
            /\ requests'[s].stage # "gone" => requests[s].stage # "gone"
            /\ requests'[s].bytes > 0 => requests'[s].stage \in {"fetched", "fulfilled"}
    BY <1>1, <1>2, <1>5, <2>1, <2>2, <2>3
  <2>5. QED
    BY <1>2, <1>3, <1>5, <2>2, <2>4, BudgetAfter
<1>12. QED
  BY <1>10, <1>11

\* Whatever else happens to a request: it holds its permit as before, or has none.
LEMMA OthersCount ==
    ASSUME ResolverInv, ResolverAssumption, NEW r \in Requests,
           AccountSupplied(r) \/ Fetch(r) \/ FetchFails(r)
    PROVE  CountsOK' /\ BudgetOK'
<1>1. UNCHANGED <<cache, activeRequests, permitWaiters>>
  BY DEF AccountSupplied, Fetch, FetchFails
<1>2. RequestsOK /\ Sizes \subseteq Nat
  BY DEF ResolverInv, PermitInv, ResolverAssumption
<1>3. /\ requests' \in Seq(Request) /\ DOMAIN requests' = Requests
      /\ requests'[r].href = requests[r].href
      /\ \A s \in Requests \ {r} : requests'[s] = requests[s]
      /\ \/ /\ requests[r].stage = "ready"
            /\ requests'[r].stage \in {"fulfilled", "rejected"}
         \/ /\ requests[r].stage = "fetching"
            /\ requests'[r].stage \in {"fetched", "failed"}
      /\ \/ /\ requests'[r].stage \in {"fetched", "fulfilled"}
            /\ requests'[r].bytes \in Sizes
            /\ totalBytes' = totalBytes + requests'[r].bytes /\ totalBytes' <= MaxTotalBytes
         \/ requests'[r].bytes = requests[r].bytes /\ UNCHANGED totalBytes
  <2>1. CASE AccountSupplied(r)
    <3>1. PICK n \in Sizes : AccountResource(r, n, "fulfilled", "rejected")
      BY <2>1 DEF AccountSupplied
    <3>2. requests[r].stage = "ready"
      BY <2>1 DEF AccountSupplied
    <3>3. "fulfilled" \in Stages /\ "rejected" \in Stages
      BY DEF Stages
    <3>4. QED
      BY <1>2, <3>1, <3>2, <3>3, Accounted
  <2>2. CASE Fetch(r)
    <3>1. PICK n \in Sizes : AccountResource(r, n, "fetched", "failed")
      BY <2>2 DEF Fetch
    <3>2. requests[r].stage = "fetching"
      BY <2>2 DEF Fetch
    <3>3. "fetched" \in Stages /\ "failed" \in Stages
      BY DEF Stages
    <3>4. QED
      BY <1>2, <3>1, <3>2, <3>3, Accounted
  <2>3. CASE FetchFails(r)
    BY <1>2, <2>3, MovedTo DEF FetchFails, Stages
  <2>4. QED
    BY <2>1, <2>2, <2>3
<1>4. RequestsOK' /\ Requests' = Requests /\ Len(requests') = Len(requests)
  BY <1>2, <1>3, RequestsDomain, LenProperties DEF RequestsOK, Requests
<1>5. Held' = Held /\ Waiting' = Waiting
  BY <1>3, <1>4, AtAfter DEF Held, Waiting
<1>6. CountsOK'
  BY <1>1, <1>4, <1>5 DEF ResolverInv, CountsOK
<1>7. BudgetOK'
  <2>1. \A s \in Requests : /\ requests[s].bytes > 0 => requests[s].stage \in {"fetched", "fulfilled"}
                            /\ requests[s].bytes \in Nat
    BY <1>2, RequestFields DEF ResolverInv, BudgetOK
  <2>2. requests[r].bytes = 0
    BY <1>3, <2>1
  <2>3. \A s \in Requests :
            /\ requests'[s].href = requests[s].href
            /\ requests'[s].stage # "gone" => requests[s].stage # "gone"
            /\ requests'[s].bytes > 0 => requests'[s].stage \in {"fetched", "fulfilled"}
    BY <1>3, <2>1, <2>2
  <2>4. \/ requests'[r].bytes = requests[r].bytes /\ UNCHANGED totalBytes
        \/ /\ requests'[r].bytes \in Nat
           /\ totalBytes' = totalBytes + requests'[r].bytes /\ totalBytes' <= MaxTotalBytes
    BY <1>2, <1>3
  <2>5. \A s \in Requests \ {r} : requests'[s].bytes = requests[s].bytes
    BY <1>3
  <2>6. QED
    BY <1>1, <1>4, <2>2, <2>3, <2>4, <2>5, BudgetAfter
<1>8. QED
  BY <1>6, <1>7

\* A rejected request leaves the cache: it was the one the cache had.
LEMMA ForgetCounts ==
    ASSUME ResolverInv, ResolverAssumption, NEW r \in Requests, Forget(r)
    PROVE  CountsOK' /\ BudgetOK'
<1>1. /\ RequestsOK
      /\ requests' \in Seq(Request) /\ Requests' = Requests
      /\ requests[r].stage = "rejected" /\ requests'[r].stage = "gone"
      /\ requests'[r].href = requests[r].href /\ requests'[r].bytes = requests[r].bytes
      /\ \A s \in Requests \ {r} : requests'[s] = requests[s]
  BY MovedTo DEF ResolverInv, PermitInv, Requests, Forget, Stages
<1>2. RequestsOK' /\ Len(requests') = Len(requests)
  BY <1>1, RequestsDomain, LenProperties DEF RequestsOK, Requests
<1>3. /\ UNCHANGED <<totalBytes, activeRequests, permitWaiters>>
      /\ cache' = [cache EXCEPT ![requests[r].href] = NoRequest]
  BY DEF Forget
<1>4. Held' = Held /\ Waiting' = Waiting
  BY <1>1, AtAfter DEF Held, Waiting
<1>5. CountsOK'
  BY <1>1, <1>2, <1>3, <1>4 DEF ResolverInv, CountsOK
<1>6. \A s \in Requests : /\ requests[s].bytes > 0 => requests[s].stage \in {"fetched", "fulfilled"}
                          /\ requests[s].stage # "gone" => cache[requests[s].href] = s
                          /\ requests[s].bytes \in Nat /\ requests[s].href \in Hrefs
  BY <1>1, RequestFields DEF ResolverInv, BudgetOK
<1>7. requests[r].bytes = 0
  BY <1>1, <1>6
<1>8. SumOf(BytesOf, Requests)' = SumOf(BytesOf, Requests)
  <2>1. SumOf(BytesOf, Requests)' =
            SumOf(BytesOf, Requests) + requests'[r].bytes - requests[r].bytes
    BY <1>1, <1>2, SumAfter
  <2>2. SumOf(BytesOf, Requests) = totalBytes /\ totalBytes \in Nat
    BY DEF ResolverInv, BudgetOK, ResolverAssumption
  <2>3. QED
    BY <1>1, <1>7, <2>1, <2>2
<1>9. \A s \in Requests :
          /\ requests'[s].bytes > 0 => requests'[s].stage \in {"fetched", "fulfilled"}
          /\ requests'[s].stage # "gone" => cache'[requests'[s].href] = s
  <2> TAKE s \in Requests
  <2>1. CASE s = r
    BY <1>1, <1>7, <2>1
  <2>2. CASE s # r
    <3>1. requests'[s] = requests[s]
      BY <1>1, <2>2
    <3>2. requests[s].stage # "gone" => requests[s].href # requests[r].href
      BY <1>1, <1>6, <2>2
    <3>3. QED
      BY <1>3, <1>6, <3>1, <3>2 DEF ResolverInv, CountsOK
  <2>3. QED
    BY <2>1, <2>2
<1>10. QED
  BY <1>1, <1>3, <1>5, <1>8, <1>9 DEF ResolverInv, BudgetOK

\* Invariant: the queue, the counts and the budget, for any texts and sizes.
THEOREM ResolverInvariant == ResolverSpec => []ResolverInv
<1> USE ResolverAssumption
<1>1. ResolverInit => ResolverInv
  <2> SUFFICES ASSUME ResolverInit PROVE ResolverInv
    OBVIOUS
  <2>1. requests = <<>> /\ permitWaiters = <<>> /\ Requests = {}
    BY DEF ResolverInit, Requests
  <2>2. PermitInv
    BY EmptySeq DEF ResolverInit, PermitInv, RequestsOK, QueueOK, NoIdlePermit
  <2>3. Held = {} /\ Waiting = {} /\ Cardinality({}) = 0
    BY <2>1, FS_EmptySet DEF Held, Waiting, At
  <2>4. Len(<<>>) = 0 /\ DOMAIN permitWaiters = {}
    BY <2>1
  <2>5. CountsOK
    BY <2>1, <2>3, <2>4 DEF ResolverInit, CountsOK, ResolverAssumption
  <2>6. SumOf(BytesOf, {}) = 0
    BY FS_EmptySet, SumUnfolds
  <2>7. BudgetOK
    BY <2>1, <2>6 DEF ResolverInit, BudgetOK, ResolverAssumption
  <2>8. QED
    BY <2>2, <2>5, <2>7 DEF ResolverInv
<1>2. ResolverInv /\ [ResolverNext]_resolverVars => CountsOK' /\ BudgetOK'
  <2> SUFFICES ASSUME ResolverInv, [ResolverNext]_resolverVars
               PROVE  CountsOK' /\ BudgetOK'
    OBVIOUS
  <2>1. ASSUME NEW h \in Hrefs, Resolve(h) PROVE CountsOK' /\ BudgetOK'
    BY <2>1, ResolveCounts
  <2>2. ASSUME NEW r \in Requests, TakePermit(r) PROVE CountsOK' /\ BudgetOK'
    BY <2>2, TakePermitCounts
  <2>3. ASSUME NEW r \in Requests, Release(r) PROVE CountsOK' /\ BudgetOK'
    BY <2>3, ReleaseCounts
  <2>4. ASSUME NEW r \in Requests, AccountSupplied(r) \/ Fetch(r) \/ FetchFails(r)
        PROVE  CountsOK' /\ BudgetOK'
    BY <2>4, OthersCount
  <2>5. ASSUME NEW r \in Requests, Forget(r) PROVE CountsOK' /\ BudgetOK'
    BY <2>5, ForgetCounts
  <2>6. CASE UNCHANGED resolverVars
    <3>1. Requests' = Requests /\ Held' = Held /\ Waiting' = Waiting /\ BytesOf' = BytesOf
      BY <2>6 DEF resolverVars, Requests, Held, Waiting, At, BytesOf
    <3>2. SumOf(BytesOf, Requests)' = SumOf(BytesOf, Requests)
      BY <3>1, PrimedSum
    <3>3. QED
      BY <2>6, <3>1, <3>2 DEF resolverVars, ResolverInv, CountsOK, BudgetOK
  <2>7. QED
    BY <2>1, <2>2, <2>3, <2>4, <2>5, <2>6 DEF ResolverNext
<1>3. PermitInv /\ [ResolverNext]_resolverVars => PermitInv'
  BY PermitStep
<1>4. ResolverInv /\ [ResolverNext]_resolverVars => ResolverInv'
  BY <1>2, <1>3 DEF ResolverInv
<1>5. QED
  BY <1>1, <1>4, PTL DEF ResolverSpec

\* The count of permits is that of the requests that hold one and the queue
\* holds those that wait, each once, for any number of texts and permits.
THEOREM ResolverTypeCorrect == ResolverSpec => []ResolverTypeOK
<1>1. ResolverInv => ResolverTypeOK
  <2> SUFFICES ASSUME ResolverInv PROVE ResolverTypeOK
    OBVIOUS
  <2>1. requests \in Seq([href : Hrefs, stage : Stages, bytes : Sizes \cup {0}])
    BY DEF ResolverInv, PermitInv, RequestsOK, Request
  <2>2. QED
    BY <2>1 DEF ResolverInv, PermitInv, QueueOK, CountsOK, BudgetOK, ResolverTypeOK, Held, Waiting
<1>2. QED
  BY <1>1, ResolverInvariant, PTL

\* The bytes accounted are those of the texts accepted, each once: for any
\* texts, sizes and limits, and however often a text is tried again.
THEOREM WithinBudgetCorrect == ResolverSpec => []WithinBudget
<1>1. ResolverInv => WithinBudget
  <2> SUFFICES ASSUME ResolverInv PROVE WithinBudget
    OBVIOUS
  <2>1. totalBytes = MapThenSumSet(LAMBDA r : requests[r].bytes, Requests)
    BY SumIs DEF ResolverInv, BudgetOK
  <2>2. \A r \in Counted : requests[r].stage \in {"fetched", "fulfilled"}
    BY DEF ResolverInv, BudgetOK, Counted
  <2>3. Counted = {r \in At({"fetched", "fulfilled"}) : requests[r].bytes > 0}
    BY <2>2 DEF Counted, At
  <2>4. \A r, s \in Counted : requests[r].href = requests[s].href => r = s
    BY <2>2 DEF ResolverInv, BudgetOK, Counted
  <2>5. QED
    BY <2>1, <2>3, <2>4 DEF WithinBudget
<1>2. QED
  BY <1>1, ResolverInvariant, PTL

-----------------------------------------------------------------------------
(* References of a package.                                                *)

\* The requests that differ in nothing but the file index and the heuristics.
SameReference(q, r) ==
    /\ q.form = r.form /\ q.kind = r.kind
    /\ q.base = r.base /\ q.parts = r.parts /\ q.evidence = r.evidence

LEMMA SameCandidates ==
    ASSUME NEW q, NEW r, SameReference(q, r)
    PROVE  SourceCandidate(q) = SourceCandidate(r) /\ RootCandidate(q) = RootCandidate(r)
BY DEF SameReference, SourceCandidate, RootCandidate

LEMMA SoleIsMember ==
    ASSUME NEW matches, matches # {}
    PROVE  Sole(matches) \in matches
BY DEF Sole

LEMMA HeuristicsAreListed ==
    ASSUME NEW q, ResolveHeuristically(q).status = "resolved"
    PROVE  /\ ResolveHeuristically(q).path \in q.index
           /\ \/ /\ ResolveHeuristically(q).strategy = "unique-suffix"
                 /\ ResolveHeuristically(q).path \in FirstSole(q)
              \/ /\ ResolveHeuristically(q).strategy = "unique-basename"
                 /\ q.kind = "media-asset"
<1>1. FirstSole(q) \subseteq q.index /\ ByBasename(q) \subseteq q.index
    BY DEF FirstSole, ByBasename
<1>2. CASE FirstSole(q) # {}
    <2>1. ResolveHeuristically(q) = Resolved(Sole(FirstSole(q)), "unique-suffix")
        BY <1>2 DEF ResolveHeuristically
    <2>2. QED BY <2>1, <1>1, <1>2, SoleIsMember DEF Resolved
<1>3. CASE FirstSole(q) = {}
    <2>1. /\ ResolveHeuristically(q) = Resolved(Sole(ByBasename(q)), "unique-basename")
          /\ ByBasename(q) # {} /\ q.kind = "media-asset"
        BY <1>3 DEF ResolveHeuristically, Unresolved
    <2>2. QED BY <2>1, <1>1, SoleIsMember DEF Resolved
<1>4. QED BY <1>2, <1>3

\* A reference is resolved to a file of the index only: nothing is guessed.
THEOREM ResolvedIsListed ==
    ASSUME NEW q, ResolvePackageReference(q).status = "resolved"
    PROVE  ResolvePackageReference(q).path \in q.index
<1>1. CASE ResolvePackageReference(q) = ResolveHeuristically(q)
    BY <1>1, HeuristicsAreListed
<1>2. CASE ResolvePackageReference(q) # ResolveHeuristically(q)
    BY <1>2 DEF ResolvePackageReference, Resolved, Unresolved
<1>3. QED BY <1>1, <1>2

\* The heuristics never change what a reference means that resolves without
\* them: qti-heuristics.ts promises to break no valid content.
THEOREM HeuristicsBreakNothing ==
    ASSUME NEW q, NEW r, SameReference(q, r), q.index = r.index, ~q.config.paths,
           ResolvePackageReference(q).status = "resolved"
    PROVE  ResolvePackageReference(r) = ResolvePackageReference(q)
BY SameCandidates DEF ResolvePackageReference, SameReference, Resolved, Unresolved

\* A reference that resolves as written keeps its file when others are added
\* to the package, whatever they are called.
THEOREM AdditionsBreakNothing ==
    ASSUME NEW q, NEW r, SameReference(q, r), q.index \subseteq r.index,
           ResolvePackageReference(q).status = "resolved",
           ResolvePackageReference(q).strategy = "source-relative"
    PROVE  ResolvePackageReference(r) = ResolvePackageReference(q)
<1>1. SourceCandidate(q).path \in q.index
    <2>1. CASE ResolvePackageReference(q) = ResolveHeuristically(q)
        BY <2>1, HeuristicsAreListed
    <2>2. CASE ResolvePackageReference(q) # ResolveHeuristically(q)
        BY <2>2 DEF ResolvePackageReference, Resolved, Unresolved
    <2>3. QED BY <2>1, <2>2
<1>2. q.form # "skipped" /\ q.form # "rooted" /\ ~SourceCandidate(q).unsafe
    BY DEF ResolvePackageReference, Unresolved
<1>3. QED BY <1>1, <1>2, SameCandidates DEF ResolvePackageReference, SameReference

\* Another XML source is found by heuristics only if the manifest names it,
\* and never by its file name alone.
THEOREM SourcesNeedEvidence ==
    ASSUME NEW q, q.kind \in SourceXml, ResolvePackageReference(q).status = "resolved",
           ResolvePackageReference(q).strategy \notin {"source-relative", "package-root"}
    PROVE  ResolvePackageReference(q).path \in q.evidence
<1>1. ResolvePackageReference(q) = ResolveHeuristically(q)
    BY DEF ResolvePackageReference, Resolved, Unresolved
<1>2. ResolvePackageReference(q).path \in FirstSole(q)
    BY <1>1, HeuristicsAreListed DEF SourceXml
<1>3. QED BY <1>2 DEF FirstSole, Eligible
=============================================================================
