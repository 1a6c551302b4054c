---------------------------- MODULE InstallProofs ----------------------------
(***************************************************************************)
(* Proofs about one `gpie install`, for any batches, images, catalogs,     *)
(* flags and failures: what the summary names, in which order the batch is *)
(* worked on, and what the packages of the image are left with.            *)
(***************************************************************************)
EXTENDS InstallRun, DataLemmas, FiniteSetTheorems, FunctionTheorems,
        SequenceTheorems

-----------------------------------------------------------------------------
(* Sets of arguments in order.                                             *)

Ascending(s) == \A i, j \in DOMAIN s : i < j => s[i] < s[j]

\* A set of positions is finite.
LEMMA FinitePositions ==
  ASSUME NEW n \in Nat, NEW S \in SUBSET (1..n)
  PROVE  IsFiniteSet(S) /\ Cardinality(S) \in Nat
<1>1. IsFiniteSet(1..n)
  BY FS_Interval
<1>2. IsFiniteSet(S)
  BY <1>1, FS_Subset
<1> QED
  BY <1>2, FS_CardinalityType

\* The elements of a set of positions can be put in order.
LEMMA OrderExists ==
  ASSUME NEW n \in Nat, NEW S \in SUBSET (1..n)
  PROVE  \E s \in [1..Cardinality(S) -> S] : Ascending(s)
<1> DEFINE Sortable(T) == \E s \in [1..Cardinality(T) -> T] : Ascending(s)
           N == {m \in Nat : \A T \in SUBSET (1..m) : Sortable(T)}
<1>1. 0 \in N
  <2>1. ASSUME NEW T \in SUBSET (1..0)
        PROVE  Sortable(T)
    <3>1. T = {}
      OBVIOUS
    <3> Cardinality(T) = 0
      BY <3>1, FS_EmptySet
    <3>2. <<>> \in [1..0 -> {}] /\ Ascending(<<>>)
      BY DEF Ascending
    <3> QED
      BY <3>1, <3>2
  <2> QED
    BY <2>1
<1>2. ASSUME NEW m \in Nat, m \in N, NEW T \in SUBSET (1..m + 1)
      PROVE  Sortable(T)
  <2>1. CASE m + 1 \notin T
    <3>1. T \in SUBSET (1..m)
      BY <2>1
    <3> QED
      BY <1>2, <3>1
  <2>2. CASE m + 1 \in T
    <3> DEFINE R == T \ {m + 1}
    <3>1. R \in SUBSET (1..m)
      OBVIOUS
    <3>2. PICK s \in [1..Cardinality(R) -> R] : Ascending(s)
      BY <1>2, <3>1
    <3>3. IsFiniteSet(R) /\ Cardinality(R) \in Nat
      BY <3>1, FinitePositions
    <3>4. Cardinality(T) = Cardinality(R) + 1
      <4>1. R \cup {m + 1} = T /\ m + 1 \notin R
        BY <2>2
      <4> QED
        BY <3>3, <4>1, FS_AddElement
    <3> DEFINE c == Cardinality(R)
               t == [i \in 1..c + 1 |-> IF i = c + 1 THEN m + 1 ELSE s[i]]
    <3>5. t \in [1..c + 1 -> T]
      <4>1. ASSUME NEW i \in 1..c + 1
            PROVE  (IF i = c + 1 THEN m + 1 ELSE s[i]) \in T
        <5>1. CASE i = c + 1
          BY <2>2, <5>1
        <5>2. CASE i # c + 1
          <6>1. i \in 1..c
            BY <3>3, <5>2
          <6>2. s[i] \in R
            BY <3>2, <6>1
          <6> QED
            BY <5>2, <6>2
        <5> QED
          BY <5>1, <5>2
      <4> QED
        BY <4>1
    <3>6. Ascending(t)
      <4>1. ASSUME NEW i \in 1..c + 1, NEW j \in 1..c + 1, i < j
            PROVE  t[i] < t[j]
        <5>0. i \in 1..c /\ i # c + 1
          BY <3>3, <4>1
        <5>1. i \in 1..c /\ s[i] \in R /\ t[i] = s[i] /\ s[i] \in 1..m
          BY <3>1, <3>2, <5>0
        <5>2. CASE j = c + 1
          BY <5>1, <5>2
        <5>3. CASE j # c + 1
          <6>1. j \in 1..c /\ t[j] = s[j]
            BY <3>3, <5>3
          <6> QED
            BY <3>2, <4>1, <5>1, <6>1 DEF Ascending
        <5> QED
          BY <5>2, <5>3
      <4>2. DOMAIN t = 1..c + 1
        OBVIOUS
      <4> HIDE DEF t
      <4> QED
        BY <4>1, <4>2 DEF Ascending
    <3> HIDE DEF t
    <3> QED
      BY <3>4, <3>5, <3>6
  <2> QED
    BY <2>1, <2>2
<1>3. \A m \in Nat : m \in N => m + 1 \in N
  <2> HIDE DEF Sortable
  <2> QED
    BY <1>2
<1>4. n \in N
  <2> HIDE DEF N
  <2> QED
    BY <1>1, <1>3, NatSetInduction
<1> QED
  BY <1>4

\* What InOrder returns.
LEMMA InOrderSorts ==
  ASSUME NEW n \in Nat, NEW S \in SUBSET (1..n)
  PROVE  /\ Cardinality(S) \in Nat
         /\ InOrder(S) \in [1..Cardinality(S) -> S]
         /\ InOrder(S) \in Seq(S)
         /\ Ascending(InOrder(S))
         /\ \A x \in S : \E i \in 1..Cardinality(S) : InOrder(S)[i] = x
<1> DEFINE c == Cardinality(S)
           s == InOrder(S)
<1>1. s \in [1..c -> S] /\ Ascending(s)
  BY OrderExists DEF InOrder, Ascending
<1>2. IsFiniteSet(S) /\ c \in Nat
  BY FinitePositions
<1> HIDE DEF s, c
<1>3. ASSUME NEW i \in 1..c, NEW j \in 1..c, s[i] = s[j], i # j
      PROVE  FALSE
  <2>1. s[i] \in S /\ s[j] \in S /\ S \subseteq Nat /\ DOMAIN s = 1..c
    BY <1>1
  <2>2. i < j \/ j < i
    BY <1>2, <1>3
  <2>3. s[i] < s[j] \/ s[j] < s[i]
    BY <1>1, <2>1, <2>2 DEF Ascending
  <2>4. s[i] \in Nat
    BY <2>1
  <2> QED
    BY <1>3, <2>3, <2>4
<1>4. s \in Injection(1..c, S)
  <2>1. \A i, j \in 1..c : s[i] = s[j] => i = j
    BY <1>3
  <2> QED
    BY <1>1, <2>1 DEF Injection, IsInjective
<1>5. s \in Surjection(1..c, S)
  <2>1. Cardinality(1..c) = c
    BY <1>2, FS_Interval
  <2> QED
    BY <1>2, <1>4, <2>1, FS_Injection DEF c
<1>6. \A x \in S : \E i \in 1..c : s[i] = x
  BY <1>5 DEF Surjection
<1>7. s \in Seq(S)
  BY <1>1, <1>2, SeqDef
<1> QED
  BY <1>1, <1>2, <1>6, <1>7 DEF s, c

\* There is one way to put a set in order.
LEMMA OrderUnique ==
  ASSUME NEW c \in Nat, NEW S \in SUBSET Nat,
         NEW s \in [1..c -> S], Ascending(s),
         NEW t \in [1..c -> S], Ascending(t),
         \A x \in S : \E i \in 1..c : s[i] = x,
         \A x \in S : \E i \in 1..c : t[i] = x
  PROVE  s = t
<1> SUFFICES ASSUME s # t PROVE FALSE
  OBVIOUS
<1> DEFINE D == {k \in 1..c : s[k] # t[k]}
<1>1. PICK k \in D : \A j \in D : k <= j
  <2>1. D \subseteq Nat /\ D # {}
    OBVIOUS
  <2> HIDE DEF D
  <2> QED
    BY <2>1, LeastNumber
<1>2. ASSUME NEW u \in [1..c -> S], Ascending(u), NEW v \in [1..c -> S], Ascending(v),
             \A x \in S : \E i \in 1..c : v[i] = x, NEW l \in 1..c,
             \A j \in 1..c : j < l => u[j] = v[j], u[l] < v[l]
      PROVE  FALSE
  <2>0. DOMAIN u = 1..c /\ DOMAIN v = 1..c
    OBVIOUS
  <2>1. PICK j \in 1..c : v[j] = u[l]
    BY <1>2
  <2>2. u[l] \in Nat /\ v[l] \in Nat /\ u[j] \in Nat
    OBVIOUS
  <2>3. CASE j < l
    <3>1. u[j] < u[l]
      BY <1>2, <2>0, <2>3 DEF Ascending
    <3> QED
      BY <1>2, <2>1, <2>2, <2>3, <3>1
  <2>4. CASE j = l
    BY <1>2, <2>1, <2>2, <2>4
  <2>5. CASE l < j
    <3>1. v[l] < v[j]
      BY <1>2, <2>0, <2>5 DEF Ascending
    <3> QED
      BY <1>2, <2>1, <2>2, <3>1
  <2> QED
    BY <2>3, <2>4, <2>5
<1>3. k \in 1..c /\ s[k] # t[k] /\ \A j \in 1..c : j < k => s[j] = t[j]
  BY <1>1
<1>4. s[k] \in Nat /\ t[k] \in Nat
  BY <1>3
<1>5. s[k] < t[k] \/ t[k] < s[k]
  BY <1>3, <1>4
<1> HIDE DEF D
<1> QED
  BY <1>2, <1>3, <1>5

\* What is in order is what InOrder returns.
LEMMA InOrderIs ==
  ASSUME NEW n \in Nat, NEW S \in SUBSET (1..n), NEW c \in Nat,
         NEW s \in [1..c -> S], Ascending(s),
         \A x \in S : \E i \in 1..c : s[i] = x
  PROVE  InOrder(S) = s
<1>1. ASSUME NEW i \in 1..c, NEW j \in 1..c, s[i] = s[j], i # j
      PROVE  FALSE
  <2>1. s[i] \in Nat /\ DOMAIN s = 1..c
    <3>1. s[i] \in S /\ S \in SUBSET Nat
      OBVIOUS
    <3> QED
      BY <3>1
  <2>2. i < j \/ j < i
    BY <1>1
  <2>3. s[i] < s[j] \/ s[j] < s[i]
    BY <2>1, <2>2 DEF Ascending
  <2> QED
    BY <1>1, <2>1, <2>3
<1>2. s \in Bijection(1..c, S)
  <2>1. \A i, j \in 1..c : s[i] = s[j] => i = j
    BY <1>1
  <2> QED
    BY <2>1, Fun_IsBij
<1>3. Cardinality(S) = c
  BY <1>2, Fun_ExistsBij, FS_CountingElements
<1>4. S \in SUBSET Nat
  OBVIOUS
<1>5. /\ InOrder(S) \in [1..c -> S] /\ Ascending(InOrder(S))
      /\ \A x \in S : \E i \in 1..c : InOrder(S)[i] = x
  BY <1>3, InOrderSorts
<1> QED
  BY <1>4, <1>5, OrderUnique

\* Nothing to put in order.
LEMMA InOrderEmpty == InOrder({}) = <<>>
<1>1. {} \in SUBSET (1..0)
  OBVIOUS
<1>2. <<>> \in [1..0 -> {}] /\ Ascending(<<>>)
  BY DEF Ascending
<1> QED
  BY <1>1, <1>2, InOrderIs

\* A later argument goes behind the others.
LEMMA InOrderAppend ==
  ASSUME NEW n \in Nat, NEW S \in SUBSET (1..n), NEW x \in 1..n,
         \A y \in S : y < x
  PROVE  InOrder(S \cup {x}) = Append(InOrder(S), x)
<1> DEFINE s == InOrder(S)
           c == Cardinality(S)
           t == Append(s, x)
           R == S \cup {x}
<1>1. /\ c \in Nat /\ s \in [1..c -> S] /\ s \in Seq(S) /\ Ascending(s)
      /\ \A y \in S : \E i \in 1..c : s[i] = y
  BY InOrderSorts
<1> HIDE DEF s, c
<1>2. s \in Seq(R) /\ Len(s) = c /\ x \in R
  BY <1>1, SeqMonotonic
<1> HIDE DEF R
<1>3. t \in Seq(R) /\ Len(t) = c + 1 /\ t[c + 1] = x
      /\ \A i \in 1..c : t[i] = s[i]
  BY <1>2, AppendProperties
<1>4. t \in [1..c + 1 -> R]
  BY <1>3, LenProperties
<1> HIDE DEF t
<1>5. \A y \in R : \E i \in 1..c + 1 : t[i] = y
  <2>1. ASSUME NEW y \in S
        PROVE  \E i \in 1..c + 1 : t[i] = y
    <3>1. PICK i \in 1..c : s[i] = y
      BY <1>1
    <3>2. i \in 1..c + 1
      BY <1>1
    <3> QED
      BY <1>3, <3>1, <3>2
  <2>2. c + 1 \in 1..c + 1
    BY <1>1
  <2> QED
    BY <1>3, <2>1, <2>2 DEF R
<1>6. Ascending(t)
  <2>1. ASSUME NEW i \in 1..c + 1, NEW j \in 1..c + 1, i < j
        PROVE  t[i] < t[j]
    <3>1. i \in 1..c
      BY <1>1, <2>1
    <3>2. t[i] = s[i] /\ s[i] \in S
      BY <1>1, <1>3, <3>1
    <3>3. CASE j = c + 1
      BY <1>3, <3>2, <3>3
    <3>4. CASE j # c + 1
      <4>1. j \in 1..c
        BY <1>1, <3>4
      <4>2. s[i] < s[j]
        BY <1>1, <2>1, <3>1, <4>1 DEF Ascending
      <4> QED
        BY <1>3, <3>2, <4>1, <4>2
    <3> QED
      BY <3>3, <3>4
  <2>2. DOMAIN t = 1..c + 1
    BY <1>4
  <2> QED
    BY <2>1, <2>2 DEF Ascending
<1>7. R \in SUBSET (1..n) /\ c + 1 \in Nat
  BY <1>1 DEF R
<1> QED
  BY <1>4, <1>5, <1>6, <1>7, InOrderIs DEF R, t, s
-----------------------------------------------------------------------------
(* The inductive invariant, in named parts.                                *)

Settled == {"ok"} \cup Failed

\* How far the batch is in each phase: nothing runs before the sequential loop,
\* the pool starts when that is over, and ends with every argument settled.
BatchInPhase ==
  /\ phase \in {"classify", "lookup", "provision"} =>
       \A i \in Item : outcome[i] \in {"queued", "rejected"}
  /\ phase = "classify" => \A i \in Item : i >= next => outcome[i] = "queued"
  /\ phase = "sequential" =>
       \A i \in Item : ~Sequential(i) => outcome[i] \in {"queued", "rejected"}
  /\ phase \in {"pool", "cleanup", "done"} =>
       \A i \in Item : Sequential(i) => outcome[i] \in Settled
  /\ phase \in {"cleanup", "done"} => \A i \in Item : outcome[i] \in Settled

\* The sequential loop goes through its targets in order.
SequentialInOrder ==
  \A i, j \in Item :
    j < i /\ Sequential(i) /\ Sequential(j) /\ outcome[i] \notin {"queued", "rejected"}
      => outcome[j] \in Settled

\* Every target of the pool is waited for: it is in the channel once, in the
\* hands of a worker, or among the results.
PoolBooks ==
  /\ phase \in {"classify", "lookup", "provision", "sequential"} =>
       queue = <<>> /\ results = <<>>
  /\ Ascending(queue)
  /\ phase = "pool" =>
       /\ \A k \in DOMAIN queue : outcome[queue[k]] = "queued" /\ ~Sequential(queue[k])
       /\ \A i \in Item : outcome[i] = "queued" => \E k \in DOMAIN queue : queue[k] = i
       /\ \A k \in DOMAIN results :
            outcome[results[k]] \in Settled \ {"rejected"} /\ ~Sequential(results[k])
       /\ \A i \in Item :
            ~Sequential(i) /\ outcome[i] \in Settled \ {"rejected"} =>
              \E k \in DOMAIN results : results[k] = i

\* What the summary would say now.
Rejected == {i \in Item : outcome[i] = "rejected"}
Broken == {i \in Item : outcome[i] \in Failed \ {"rejected"}}
SequentialBroken == {i \in Broken : Sequential(i)}
PoolBroken == {i \in Broken : ~Sequential(i)}
FailuresSoFar ==
  /\ phase \notin {"cleanup", "done"} =>
       failures = InOrder(Rejected) \o InOrder(SequentialBroken)
  /\ phase \in {"cleanup", "done"} =>
       failures = (InOrder(Rejected) \o InOrder(SequentialBroken)) \o InOrder(PoolBroken)

\* What the image had is installed and, for apk, asked for; nothing of it is to
\* be removed.  Before the package transaction nothing has changed.
PackagesKept ==
  /\ image.installed \subseteq installed
  /\ image.installed \subseteq world
  /\ buildDeps \cap image.installed = {}
  /\ phase \in {"classify", "lookup", "provision"} =>
       installed = image.installed /\ buildDeps = {} /\ deps = "none"

IInv ==
  /\ TypeOK
  /\ BatchInPhase
  /\ SequentialInOrder
  /\ PoolBooks
  /\ FailuresSoFar
  /\ PackagesKept

\* What was provided for the misses, if the transaction succeeded.
MissesProvided ==
  /\ phase \in {"sequential", "pool"} /\ flags.installDeps /\ deps # "failed" =>
       \A i \in Misses : Buildable(i)
  /\ MissesAreBuildable

\* No lookup is under way before or after the phase that waits for them.
LookupsOver == phase # "lookup" => \A i \in Item : prebuilt[i] # "pending"

\* The cleanup takes nothing a target links against.
RemovalSpares ==
  buildDeps # {} =>
    \A i \in Targets : \A p \in Needs(i).links :
      /\ ({p} \cup Depends[p]) \cap buildDeps = {}
      /\ image.family = "alpine" => p \in Closure(world \ buildDeps)

-----------------------------------------------------------------------------
(* Facts every step needs.                                                 *)

\* The arguments are numbered from 1.
LEMMA Items ==
  ASSUME request \in Requests
  PROVE  /\ Len(request) \in Nat /\ Item = 1..Len(request)
         /\ Item \in SUBSET Nat
<1>1. request \in Seq(ToSet(request))
  BY RequestsAssumption
<1> QED
  BY <1>1, LenProperties DEF Item

\* Groups of arguments are put in order, as arguments.
LEMMA Groups ==
  ASSUME request \in Requests, NEW S \in SUBSET Item
  PROVE  /\ Cardinality(S) \in Nat
         /\ InOrder(S) \in [1..Cardinality(S) -> S]
         /\ InOrder(S) \in Seq(Item)
         /\ Ascending(InOrder(S))
         /\ \A x \in S : \E i \in 1..Cardinality(S) : InOrder(S)[i] = x
<1>1. S \in SUBSET (1..Len(request)) /\ Len(request) \in Nat
  BY Items
<1>2. InOrder(S) \in Seq(S)
  BY <1>1, InOrderSorts
<1>3. InOrder(S) \in Seq(Item)
  BY <1>2, SeqMonotonic
<1> QED
  BY <1>1, <1>3, InOrderSorts

\* The start of a run satisfies the invariant.
LEMMA InitEstablishesIInv == Init => IInv
<1> SUFFICES ASSUME Init PROVE IInv
  OBVIOUS
<1> USE DEF Init
<1>1. request \in Requests /\ Len(request) \in Nat /\ Item = 1..Len(request)
  BY Items
<1>2. TypeOK
  <2>1. image.installed \subseteq DOMAIN Depends
    BY PackagesAssumption
  <2>2. <<>> \in Seq(Item)
    OBVIOUS
  <2>3. /\ next \in 1..Len(request) + 1
        /\ prebuilt \in [Item -> {"none", "pending", "hit"}]
        /\ outcome \in [Item -> Outcome]
    BY <1>1 DEF Outcome
  <2> QED
    BY <2>1, <2>2, <2>3 DEF TypeOK, Phase
<1>3. BatchInPhase /\ SequentialInOrder
  BY DEF BatchInPhase, SequentialInOrder
<1>4. PoolBooks
  BY DEF PoolBooks, Ascending
<1>5. FailuresSoFar
  <2>1. Rejected = {} /\ SequentialBroken = {}
    BY DEF Rejected, SequentialBroken, Broken, Failed
  <2>2. failures = <<>> \o <<>>
    OBVIOUS
  <2> QED
    BY <2>1, <2>2, InOrderEmpty DEF FailuresSoFar
<1>6. PackagesKept
  BY DEF PackagesKept
<1> QED
  BY <1>2, <1>3, <1>4, <1>5, <1>6 DEF IInv

\* The summary so far depends on the outcomes and the phase alone.
LEMMA SummaryUnchanged ==
  ASSUME FailuresSoFar, UNCHANGED <<inputs, outcome, failures>>,
         phase' \in {"cleanup", "done"} <=> phase \in {"cleanup", "done"}
  PROVE  FailuresSoFar'
BY DEF FailuresSoFar, Rejected, SequentialBroken, PoolBroken, Broken, inputs,
       Item, Sequential

-----------------------------------------------------------------------------
(* Every action keeps the invariant.                                       *)

\* A signal.
LEMMA CancelKeepsIInv ==
  ASSUME IInv, Cancel
  PROVE  IInv'
<1> USE DEF IInv, Cancel, inputs, batch, packages
<1>1. TypeOK'
  BY DEF TypeOK, Item
<1>2. BatchInPhase' /\ SequentialInOrder'
  BY DEF BatchInPhase, SequentialInOrder, Item, Sequential
<1>3. PoolBooks'
  BY DEF PoolBooks, Item, Sequential, Ascending
<1>4. FailuresSoFar'
  BY SummaryUnchanged
<1>5. PackagesKept'
  BY DEF PackagesKept
<1> QED
  BY <1>1, <1>2, <1>3, <1>4, <1>5

\* One argument is classified, or refused.
LEMMA ClassifyKeepsIInv ==
  ASSUME IInv, Classify
  PROVE  IInv'
<1> USE DEF IInv, Classify, inputs, packages
<1>1. next \in Item /\ Item = 1..Len(request) /\ Len(request) \in Nat
      /\ request \in Requests /\ Item' = Item
  BY Items DEF TypeOK, Item
<1>2. CASE UNCHANGED <<outcome, failures>>
  <2>1. TypeOK'
    BY <1>1, <1>2 DEF TypeOK
  <2>2. BatchInPhase' /\ SequentialInOrder'
    BY <1>1, <1>2 DEF BatchInPhase, SequentialInOrder, Sequential
  <2>3. PoolBooks'
    BY <1>1, <1>2 DEF PoolBooks, Sequential, Ascending
  <2>4. FailuresSoFar'
    BY <1>2, SummaryUnchanged
  <2>5. PackagesKept'
    BY DEF PackagesKept
  <2> QED
    BY <2>1, <2>2, <2>3, <2>4, <2>5
<1>3. CASE Settle(next, "rejected") /\ failures' = Append(failures, next)
  <2>0. outcome \in [Item -> Outcome] /\ outcome' = [outcome EXCEPT ![next] = "rejected"]
    BY <1>3 DEF TypeOK, Settle
  <2>1. TypeOK'
    BY <1>1, <1>3, <2>0 DEF TypeOK, Outcome, Failed
  <2>2. BatchInPhase' /\ SequentialInOrder'
    BY <1>1, <2>0 DEF BatchInPhase, SequentialInOrder, Sequential
  <2>3. PoolBooks'
    BY <1>1 DEF PoolBooks, Sequential, Ascending
  <2>4. FailuresSoFar'
    <3>1. \A i \in Item : outcome[i] \in {"queued", "rejected"}
                          /\ (i >= next => outcome[i] = "queued")
      BY DEF BatchInPhase
    <3>2. Rejected' = Rejected \cup {next} /\ \A i \in Rejected : i < next
      BY <1>1, <2>0, <3>1 DEF Rejected
    <3>3. SequentialBroken = {} /\ SequentialBroken' = {}
      BY <1>1, <2>0, <3>1 DEF SequentialBroken, Broken, Failed
    <3>4. Rejected \in SUBSET (1..Len(request)) /\ next \in 1..Len(request)
      BY <1>1 DEF Rejected
    <3>5. InOrder(Rejected') = Append(InOrder(Rejected), next)
      BY <1>1, <3>2, <3>4, InOrderAppend
    <3>6. InOrder(Rejected) \in Seq(Item) /\ next \in Item
      BY <1>1, Groups DEF Rejected
    <3>7. failures = InOrder(Rejected)
      BY <3>3, <3>6, InOrderEmpty, ConcatEmptySeq DEF FailuresSoFar
    <3>8. Append(InOrder(Rejected), next) \in Seq(Item)
      BY <3>6, AppendProperties
    <3>9. failures' = InOrder(Rejected') \o <<>>
      BY <1>3, <3>5, <3>7, <3>8, ConcatEmptySeq
    <3> QED
      BY <3>3, <3>9, InOrderEmpty DEF FailuresSoFar
  <2>5. PackagesKept'
    BY DEF PackagesKept
  <2> QED
    BY <2>1, <2>2, <2>3, <2>4, <2>5
<1> QED
  BY <1>2, <1>3

\* The lookups: no outcome changes.
LEMMA LookupsKeepIInv ==
  ASSUME IInv, StartLookups \/ EndLookups \/ \E i \in Item : Lookup(i)
  PROVE  IInv'
<1> USE DEF IInv, inputs, packages
<1>1. /\ UNCHANGED <<inputs, cancelled, next, outcome, queue, results, failures, packages>>
      /\ Item' = Item
  BY DEF StartLookups, EndLookups, Lookup, batch, Item
<1>2. prebuilt' \in [Item -> {"none", "pending", "hit"}]
  <2>1. CASE StartLookups
    BY <2>1 DEF StartLookups, TypeOK
  <2>2. CASE EndLookups
    BY <2>2 DEF EndLookups, TypeOK, batch
  <2>3. ASSUME NEW i \in Item, Lookup(i)
        PROVE  prebuilt' \in [Item -> {"none", "pending", "hit"}]
    BY <2>3 DEF Lookup, TypeOK
  <2> QED
    BY <2>1, <2>2, <2>3
<1>3. \/ phase = "classify" /\ next > Len(request) /\ phase' = "lookup"
      \/ phase = "lookup" /\ phase' = "provision"
      \/ phase' = phase
  BY DEF StartLookups, EndLookups, Lookup
<1>4. TypeOK'
  BY <1>1, <1>2, <1>3 DEF TypeOK, Phase
<1>5. BatchInPhase' /\ SequentialInOrder'
  BY <1>1, <1>3 DEF BatchInPhase, SequentialInOrder, Sequential
<1>6. PoolBooks'
  BY <1>1, <1>3 DEF PoolBooks, Sequential, Ascending
<1>7. FailuresSoFar'
  BY <1>1, <1>3, SummaryUnchanged
<1>8. PackagesKept'
  BY <1>1, <1>3 DEF PackagesKept
<1> QED
  BY <1>4, <1>5, <1>6, <1>7, <1>8

\* The names of what is installed are names of packages.
LEMMA InstallTypes ==
  ASSUME TypeOK, NEW wanted, InstallPackages(wanted)
  PROVE  /\ installed' \subseteq DOMAIN Depends /\ world' \subseteq DOMAIN Depends
         /\ installed \subseteq installed' /\ world \subseteq world'
<1>1. image \in Images /\ wanted \subseteq DOMAIN Depends
  BY PackagesAssumption DEF TypeOK, InstallPackages
<1>2. Closure(wanted) \subseteq DOMAIN Depends
  BY <1>1, PackagesAssumption DEF Closure
<1> QED
  BY <1>1, <1>2 DEF TypeOK, InstallPackages

\* Only names of packages are build-only.
LEMMA BuildOnlyTypes ==
  ASSUME TypeOK
  PROVE  BuildOnly \subseteq DOMAIN Depends
<1>1. \A i \in Misses : Needs(i).buildOnly \subseteq DOMAIN Depends
  BY PackagesAssumption DEF TypeOK, Misses, Targets, Item, Needs
<1>2. Phpize \subseteq DOMAIN Depends
  BY PackagesAssumption DEF TypeOK, Phpize
<1> QED
  BY <1>1, <1>2 DEF BuildOnly

\* What provisionSystemDeps does to the packages, whichever way it ends.
LEMMA ProvisionEffect ==
  ASSUME TypeOK, Provision
  PROVE  /\ installed' \subseteq DOMAIN Depends /\ world' \subseteq DOMAIN Depends
         /\ installed \subseteq installed' /\ world \subseteq world'
         /\ deps' \in {"none", "installed", "failed"}
         /\ buildDeps' = buildDeps \/ buildDeps' = BuildOnly \ installed
<1>1. CASE UNCHANGED packages
  BY <1>1 DEF packages, TypeOK
<1>2. ASSUME NEW wanted, InstallPackages(wanted), deps' = "installed",
             buildDeps' = BuildOnly \ installed \/ UNCHANGED buildDeps
      PROVE  /\ installed' \subseteq DOMAIN Depends /\ world' \subseteq DOMAIN Depends
             /\ installed \subseteq installed' /\ world \subseteq world'
             /\ deps' \in {"none", "installed", "failed"}
             /\ buildDeps' = buildDeps \/ buildDeps' = BuildOnly \ installed
  BY <1>2, InstallTypes
<1>3. CASE deps' = "failed" /\ UNCHANGED <<installed, world, buildDeps>>
  BY <1>3 DEF TypeOK
<1> QED
  BY <1>1, <1>2, <1>3 DEF Provision, Missing

\* The package transaction.
LEMMA ProvisionKeepsIInv ==
  ASSUME IInv, Provision
  PROVE  IInv'
<1> USE DEF IInv, inputs, batch
<1>1. /\ Item' = Item /\ UNCHANGED <<inputs, cancelled, batch>>
      /\ phase = "provision" /\ phase' = "sequential"
  BY DEF Item, Provision
<1>2. TypeOK'
  <2>1. buildDeps' \subseteq DOMAIN Depends
    BY ProvisionEffect, BuildOnlyTypes DEF TypeOK
  <2> QED
    BY <1>1, <2>1, ProvisionEffect DEF TypeOK, Phase
<1>3. BatchInPhase' /\ SequentialInOrder'
  BY <1>1 DEF BatchInPhase, SequentialInOrder, Sequential
<1>4. PoolBooks'
  BY <1>1 DEF PoolBooks, Sequential, Ascending
<1>5. FailuresSoFar'
  BY <1>1, SummaryUnchanged
<1>6. PackagesKept'
  BY <1>1, ProvisionEffect DEF PackagesKept
<1> QED
  BY <1>2, <1>3, <1>4, <1>5, <1>6

-----------------------------------------------------------------------------
(* The installs.                                                           *)

\* What a success rests on: a load check, if the module is to be enabled, or the
\* helper scripts.
Vouched(i) ==
  flags.enable => (Loadable(i) \/ (request[i].bundled /\ Buildable(i)))

\* An install settles its target.
LEMMA InstallOutcome ==
  ASSUME NEW i, FromPrebuilt(i) \/ FromSource(i)
  PROVE  \E o \in Settled \ {"rejected"} :
           /\ Settle(i, o)
           /\ o = "unbuildable" => ~Buildable(i)
           /\ o = "ok" => Vouched(i)
<1> DEFINE Ends(o) == /\ Settle(i, o)
                      /\ o = "unbuildable" => ~Buildable(i)
                      /\ o = "ok" => Vouched(i)
<1>1. CASE FromPrebuilt(i)
  <2>1. Ends("ok")
    BY <1>1 DEF FromPrebuilt, LoadCheck, Vouched
  <2> QED
    BY <2>1 DEF Settled
<1>2. CASE FromSource(i)
  <2>1. \/ ~Buildable(i) /\ Settle(i, "unbuildable")
        \/ Settle(i, "unloadable") \/ Settle(i, "faulty")
        \/ Buildable(i) /\ (request[i].bundled \/ LoadCheck(i)) /\ Settle(i, "ok")
    BY <1>2 DEF FromSource
  <2>2. Ends("unbuildable") \/ Ends("unloadable") \/ Ends("faulty") \/ Ends("ok")
    BY <2>1 DEF LoadCheck, Vouched
  <2> QED
    BY <2>2 DEF Settled, Failed
<1> QED
  BY <1>1, <1>2

\* The sequential loop goes on to its next target.
LEMMA StartSequentialKeepsIInv ==
  ASSUME IInv, NEW i \in Item, StartSequential(i)
  PROVE  IInv'
<1> USE DEF IInv, StartSequential, inputs, packages
<1>1. Item' = Item /\ outcome \in [Item -> Outcome] /\ Item \in SUBSET Nat
      /\ outcome' = [outcome EXCEPT ![i] = "running"]
  BY Items DEF Item, TypeOK, Settle
<1>2. TypeOK'
  BY <1>1 DEF TypeOK, Outcome
<1>3. BatchInPhase'
  BY <1>1 DEF BatchInPhase, Sequential
<1>4. SequentialInOrder'
  <2>1. ASSUME NEW k \in Item, NEW j \in Item, j < k, Sequential(k), Sequential(j),
               outcome'[k] \notin {"queued", "rejected"}
        PROVE  outcome'[j] \in Settled
    <3>1. CASE k = i
      <4>1. outcome[j] # "queued" /\ outcome[j] # "running" /\ j # i
        BY <1>1, <2>1, <3>1 DEF Running
      <4> QED
        BY <1>1, <4>1 DEF Outcome, Settled
    <3>2. CASE k # i
      <4>1. outcome[j] \in Settled
        BY <1>1, <2>1, <3>2 DEF SequentialInOrder
      <4> QED
        BY <1>1, <4>1 DEF Settled, Failed
    <3> QED
      BY <3>1, <3>2
  <2> QED
    BY <1>1, <2>1 DEF SequentialInOrder, Sequential
<1>5. PoolBooks'
  BY <1>1 DEF PoolBooks, Sequential, Ascending
<1>6. FailuresSoFar'
  <2>1. Rejected' = Rejected /\ SequentialBroken' = SequentialBroken
    BY <1>1 DEF Rejected, SequentialBroken, Broken, Sequential, Failed
  <2> QED
    BY <2>1 DEF FailuresSoFar
<1>7. PackagesKept'
  BY DEF PackagesKept
<1> QED
  BY <1>2, <1>3, <1>4, <1>5, <1>6, <1>7

\* The target of the sequential loop ends; it comes after all that have failed.
LEMMA EndSequentialKeepsIInv ==
  ASSUME IInv, NEW i \in Item, EndSequential(i)
  PROVE  IInv'
<1> USE DEF IInv, EndSequential, inputs, packages
<1>1. PICK o \in Settled \ {"rejected"} : Settle(i, o)
  BY InstallOutcome
<1>2. Item' = Item /\ outcome \in [Item -> Outcome]
      /\ outcome' = [outcome EXCEPT ![i] = o] /\ outcome'[i] = o
  BY <1>1 DEF Item, TypeOK, Settle
<1>3. Item = 1..Len(request) /\ Len(request) \in Nat /\ request \in Requests
  BY Items DEF TypeOK
<1>4. Sequential(i) /\ outcome[i] = "running" /\ phase = "sequential"
  BY <1>2 DEF BatchInPhase
<1>5. TypeOK'
  <2>1. failures' \in Seq(Item)
    BY AppendProperties DEF TypeOK
  <2> QED
    BY <1>2, <2>1 DEF TypeOK, Outcome, Settled, Failed
<1>6. BatchInPhase'
  BY <1>2, <1>4 DEF BatchInPhase, Sequential
<1>7. SequentialInOrder'
  <2>1. ASSUME NEW k \in Item, NEW j \in Item, j < k, Sequential(k), Sequential(j),
               outcome'[k] \notin {"queued", "rejected"}
        PROVE  outcome'[j] \in Settled
    <3>1. outcome[k] \notin {"queued", "rejected"}
      BY <1>2, <1>4, <2>1
    <3>2. outcome[j] \in Settled
      BY <2>1, <3>1 DEF SequentialInOrder
    <3> QED
      BY <1>2, <3>2
  <2> QED
    BY <1>2, <2>1 DEF SequentialInOrder, Sequential
<1>8. PoolBooks'
  BY <1>2, <1>4 DEF PoolBooks, Sequential, Ascending
<1>9. FailuresSoFar'
  <2>1. Rejected' = Rejected
    BY <1>2, <1>4 DEF Rejected
  <2>2. CASE o = "ok"
    <3>1. SequentialBroken' = SequentialBroken
      BY <1>2, <1>4, <2>2 DEF SequentialBroken, Broken, Sequential, Failed
    <3> QED
      BY <1>2, <2>1, <2>2, <3>1 DEF FailuresSoFar
  <2>3. CASE o # "ok"
    <3>1. SequentialBroken' = SequentialBroken \cup {i}
      BY <1>2, <1>4, <2>3 DEF SequentialBroken, Broken, Sequential, Settled
    <3>2. \A k \in SequentialBroken : k < i
      <4>1. ASSUME NEW k \in SequentialBroken, ~(k < i)
            PROVE  FALSE
        <5>1. k \in Item /\ Sequential(k) /\ outcome[k] \in Failed \ {"rejected"}
          BY DEF SequentialBroken, Broken
        <5>2. k # i /\ i < k /\ outcome[k] \notin {"queued", "rejected"}
          BY <1>3, <1>4, <4>1, <5>1 DEF Failed
        <5>3. outcome[i] \in Settled
          BY <1>4, <5>1, <5>2 DEF SequentialInOrder
        <5> QED
          BY <1>4, <5>3 DEF Settled, Failed
      <4> QED
        BY <4>1
    <3>3. SequentialBroken \in SUBSET (1..Len(request)) /\ i \in 1..Len(request)
      BY <1>3 DEF SequentialBroken, Broken
    <3>4. InOrder(SequentialBroken') = Append(InOrder(SequentialBroken), i)
      BY <1>3, <3>1, <3>2, <3>3, InOrderAppend
    <3>5. InOrder(Rejected) \in Seq(Item) /\ InOrder(SequentialBroken) \in Seq(Item)
      BY <1>3, Groups DEF Rejected, SequentialBroken, Broken
    <3>6. failures = InOrder(Rejected) \o InOrder(SequentialBroken)
      BY <1>4 DEF FailuresSoFar
    <3>7. failures' = Append(failures, i)
      BY <1>2, <2>3
    <3>8. failures' = InOrder(Rejected) \o Append(InOrder(SequentialBroken), i)
      <4> DEFINE r == InOrder(Rejected)
                 q == InOrder(SequentialBroken)
      <4>0. r \in Seq(Item) /\ q \in Seq(Item) /\ i \in Item
        BY <3>5
      <4> HIDE DEF r, q, EndSequential, IInv
      <4>1. Append(r \o q, i) = r \o Append(q, i)
        BY <4>0
      <4> QED
        BY <3>6, <3>7, <4>1 DEF r, q
    <3> QED
      BY <1>4, <2>1, <3>4, <3>8 DEF FailuresSoFar
  <2> QED
    BY <2>2, <2>3
<1>10. PackagesKept'
  BY <1>4 DEF PackagesKept
<1> QED
  BY <1>5, <1>6, <1>7, <1>8, <1>9, <1>10

\* The channel is filled: every target that is still queued, in order.
LEMMA StartPoolKeepsIInv ==
  ASSUME IInv, StartPool
  PROVE  IInv'
<1> USE DEF IInv, StartPool, inputs, packages
<1> DEFINE Q == {i \in Item : outcome[i] = "queued"}
<1>1. /\ Item' = Item /\ UNCHANGED <<inputs, outcome, failures>>
      /\ Item = 1..Len(request) /\ Len(request) \in Nat /\ request \in Requests
  BY Items DEF Item, TypeOK
<1>2. /\ Cardinality(Q) \in Nat /\ queue' \in [1..Cardinality(Q) -> Q]
      /\ Ascending(queue') /\ queue' \in Seq(Item)
      /\ \A x \in Q : \E k \in 1..Cardinality(Q) : queue'[k] = x
  <2>1. Q \in SUBSET Item /\ queue' = InOrder(Q)
    BY <1>1
  <2> HIDE DEF Q
  <2>2. /\ Cardinality(Q) \in Nat /\ InOrder(Q) \in [1..Cardinality(Q) -> Q]
        /\ InOrder(Q) \in Seq(Item) /\ Ascending(InOrder(Q))
        /\ \A x \in Q : \E k \in 1..Cardinality(Q) : InOrder(Q)[k] = x
    BY <1>1, <2>1, Groups
  <2> QED
    BY <2>1, <2>2, Zenon DEF Ascending
<1>3. DOMAIN queue' = 1..Cardinality(Q) /\ results' = results /\ phase' = "pool"
      /\ phase = "sequential"
  BY <1>2
<1>4. TypeOK'
  BY <1>1, <1>2 DEF TypeOK, Phase
<1>5. BatchInPhase'
  <2>1. ASSUME NEW i \in Item, Sequential(i)
        PROVE  outcome[i] \in Settled
    BY <2>1 DEF TypeOK, Outcome, Settled, Failed, Running
  <2> QED
    BY <1>1, <2>1 DEF BatchInPhase, Sequential
<1>6. SequentialInOrder'
  BY <1>1 DEF SequentialInOrder, Sequential
<1>7. PoolBooks'
  <2>1. \A k \in DOMAIN queue' : outcome[queue'[k]] = "queued" /\ ~Sequential(queue'[k])
    BY <1>2, <1>3
  <2>2. \A i \in Item : outcome[i] = "queued" => \E k \in DOMAIN queue' : queue'[k] = i
    BY <1>2, <1>3
  <2>3. results' = <<>> /\ DOMAIN results' = {}
    BY <1>3 DEF PoolBooks
  <2>4. \A i \in Item : ~Sequential(i) => outcome[i] \notin Settled \ {"rejected"}
    BY <1>3 DEF BatchInPhase, Settled, Failed
  <2>5. Ascending(queue)' /\ outcome' = outcome
    BY <1>1, <1>2 DEF Ascending
  <2> HIDE DEF Q, StartPool, IInv
  <2> QED
    BY <1>1, <1>3, <2>1, <2>2, <2>3, <2>4, <2>5 DEF PoolBooks, Sequential
<1>8. FailuresSoFar'
  BY <1>1, <1>3, SummaryUnchanged
<1>9. PackagesKept'
  BY <1>3 DEF PackagesKept
<1> QED
  BY <1>4, <1>5, <1>6, <1>7, <1>8, <1>9

\* A worker takes the first of the channel.
LEMMA TakeKeepsIInv ==
  ASSUME IInv, Take
  PROVE  IInv'
<1> USE DEF IInv, Take, inputs, packages
<1> DEFINE h == Head(queue)
<1>1. /\ queue \in Seq(Item) /\ Len(queue) \in Nat \ {0} /\ h = queue[1] /\ h \in Item
      /\ DOMAIN queue = 1..Len(queue)
      /\ queue' \in Seq(Item) /\ Len(queue') = Len(queue) - 1
      /\ DOMAIN queue' = 1..Len(queue) - 1
      /\ \A k \in 1..Len(queue) - 1 : queue'[k] = queue[k + 1]
  <2>1. queue \in Seq(Item) /\ queue # <<>>
    BY DEF TypeOK
  <2> QED
    BY <2>1, HeadTailProperties, LenProperties, EmptySeq
<1>2. Item' = Item /\ outcome \in [Item -> Outcome]
      /\ outcome' = [outcome EXCEPT ![h] = "running"] /\ phase' = phase
      /\ phase = "pool"
  BY DEF Item, TypeOK, Settle
<1> HIDE DEF h
<1>3. outcome[h] = "queued" /\ ~Sequential(h)
  BY <1>1 DEF PoolBooks
<1>4. TypeOK'
  BY <1>1, <1>2 DEF TypeOK, Outcome
<1>5. BatchInPhase'
  BY <1>1, <1>2, <1>3 DEF BatchInPhase, Sequential
<1>6. SequentialInOrder'
  BY <1>1, <1>2, <1>3 DEF SequentialInOrder, Sequential
<1>7. PoolBooks'
  <2>1. ASSUME NEW k \in 1..Len(queue) - 1
        PROVE  queue'[k] \in Item /\ h < queue'[k]
    <3>1. 1 < k + 1 /\ k + 1 \in DOMAIN queue /\ 1 \in DOMAIN queue
      BY <1>1
    <3>2. queue[1] < queue[k + 1]
      BY <3>1 DEF PoolBooks, Ascending
    <3>3. queue[k + 1] \in Item
      BY <1>1, <3>1
    <3> QED
      BY <1>1, <3>2, <3>3
  <2>2. Ascending(queue')
    <3>1. ASSUME NEW j \in 1..Len(queue) - 1, NEW k \in 1..Len(queue) - 1, j < k
          PROVE  queue'[j] < queue'[k]
      <4>1. j + 1 \in DOMAIN queue /\ k + 1 \in DOMAIN queue /\ j + 1 < k + 1
        BY <1>1, <3>1
      <4>2. queue[j + 1] < queue[k + 1]
        BY <4>1 DEF PoolBooks, Ascending
      <4> QED
        BY <1>1, <4>2
    <3> QED
      BY <1>1, <3>1 DEF Ascending
  <2>3. \A k \in DOMAIN queue' : outcome'[queue'[k]] = "queued" /\ ~Sequential(queue'[k])
    <3>1. ASSUME NEW k \in 1..Len(queue) - 1
          PROVE  outcome'[queue'[k]] = "queued" /\ ~Sequential(queue'[k])
      <4>1. k + 1 \in DOMAIN queue /\ queue'[k] = queue[k + 1]
        BY <1>1
      <4>2. outcome[queue'[k]] = "queued" /\ ~Sequential(queue'[k])
        BY <1>2, <4>1 DEF PoolBooks
      <4>3. queue'[k] # h
        <5>1. queue'[k] \in Nat /\ h \in Nat
          BY <1>1, <2>1, Items DEF TypeOK
        <5> QED
          BY <2>1, <5>1
      <4> QED
        BY <1>2, <2>1, <4>2, <4>3
    <3> QED
      BY <1>1, <3>1
  <2>4. \A i \in Item : outcome'[i] = "queued" => \E k \in DOMAIN queue' : queue'[k] = i
    <3>1. ASSUME NEW i \in Item, outcome'[i] = "queued"
          PROVE  \E k \in 1..Len(queue) - 1 : queue'[k] = i
      <4>1. outcome[i] = "queued" /\ i # h
        BY <1>2, <3>1
      <4>2. PICK k \in 1..Len(queue) : queue[k] = i
        BY <1>1, <1>2, <4>1 DEF PoolBooks
      <4>3. k # 1 /\ k - 1 \in 1..Len(queue) - 1 /\ queue'[k - 1] = queue[(k - 1) + 1]
        BY <1>1, <4>1, <4>2
      <4> QED
        BY <4>2, <4>3
    <3> QED
      BY <1>1, <3>1
  <2>5. \A k \in DOMAIN results :
           outcome'[results[k]] \in Settled \ {"rejected"} /\ ~Sequential(results[k])
    BY <1>1, <1>2, <1>3 DEF PoolBooks, Settled, Failed, TypeOK
  <2>6. \A i \in Item :
           ~Sequential(i) /\ outcome'[i] \in Settled \ {"rejected"} =>
             \E k \in DOMAIN results : results[k] = i
    BY <1>1, <1>2, <1>3 DEF PoolBooks, Settled, Failed
  <2> QED
    BY <1>2, <2>2, <2>3, <2>4, <2>5, <2>6 DEF PoolBooks, Sequential, Ascending
<1>8. FailuresSoFar'
  <2>1. Rejected' = Rejected /\ SequentialBroken' = SequentialBroken
    BY <1>1, <1>2, <1>3 DEF Rejected, SequentialBroken, Broken, Sequential, Failed
  <2> QED
    BY <1>2, <2>1 DEF FailuresSoFar
<1>9. PackagesKept'
  BY <1>2 DEF PackagesKept
<1> QED
  BY <1>4, <1>5, <1>6, <1>7, <1>8, <1>9

\* A worker sends its result.
LEMMA DeliverKeepsIInv ==
  ASSUME IInv, NEW i \in Item, Deliver(i)
  PROVE  IInv'
<1> USE DEF IInv, Deliver, inputs, packages
<1>1. PICK o \in Settled \ {"rejected"} : Settle(i, o)
  BY InstallOutcome
<1>2. Item' = Item /\ outcome \in [Item -> Outcome]
      /\ outcome' = [outcome EXCEPT ![i] = o] /\ outcome'[i] = o
  BY <1>1 DEF Item, TypeOK, Settle
<1>3. ~Sequential(i) /\ outcome[i] = "running" /\ phase = "pool" /\ phase' = "pool"
  BY DEF BatchInPhase, Settled, Failed
<1>4. /\ results \in Seq(Item) /\ Len(results) \in Nat
      /\ DOMAIN results = 1..Len(results)
      /\ results' \in Seq(Item) /\ DOMAIN results' = 1..Len(results) + 1
      /\ results'[Len(results) + 1] = i
      /\ \A k \in 1..Len(results) : results'[k] = results[k]
  <2>1. results \in Seq(Item) /\ results' = Append(results, i)
    BY DEF TypeOK
  <2> QED
    BY <2>1, AppendProperties, LenProperties
<1>5. TypeOK'
  BY <1>2, <1>4 DEF TypeOK, Outcome, Settled, Failed
<1>6. BatchInPhase'
  BY <1>2, <1>3 DEF BatchInPhase, Sequential
<1>7. SequentialInOrder'
  BY <1>2, <1>3 DEF SequentialInOrder, Sequential
<1>8. PoolBooks'
  <2>1. \A k \in DOMAIN queue : outcome'[queue[k]] = "queued" /\ ~Sequential(queue[k])
    <3>1. ASSUME NEW k \in DOMAIN queue
          PROVE  outcome'[queue[k]] = "queued" /\ ~Sequential(queue[k])
      <4>1. outcome[queue[k]] = "queued" /\ ~Sequential(queue[k]) /\ queue[k] \in Item
        BY <1>3 DEF PoolBooks, TypeOK
      <4> QED
        BY <1>2, <1>3, <4>1
    <3> QED
      BY <3>1
  <2>2. \A k \in Item : outcome'[k] = "queued" => \E j \in DOMAIN queue : queue[j] = k
    BY <1>2, <1>3 DEF PoolBooks, Settled, Failed
  <2>3. ASSUME NEW k \in 1..Len(results) + 1
        PROVE  outcome'[results'[k]] \in Settled \ {"rejected"} /\ ~Sequential(results'[k])
    <3>1. CASE k = Len(results) + 1
      BY <1>2, <1>3, <1>4, <3>1
    <3>2. CASE k # Len(results) + 1
      <4>1. k \in 1..Len(results) /\ results[k] \in Item
        BY <1>4, <3>2
      <4>2. outcome[results[k]] \in Settled \ {"rejected"} /\ ~Sequential(results[k])
        BY <1>3, <1>4, <4>1 DEF PoolBooks
      <4>3. results[k] # i
        BY <1>3, <4>2 DEF Settled, Failed
      <4> QED
        BY <1>2, <1>4, <4>1, <4>2, <4>3
    <3> QED
      BY <3>1, <3>2
  <2>4. ASSUME NEW k \in Item, ~Sequential(k), outcome'[k] \in Settled \ {"rejected"}
        PROVE  \E j \in 1..Len(results) + 1 : results'[j] = k
    <3>1. CASE k = i
      <4>1. Len(results) + 1 \in 1..Len(results) + 1
        BY <1>4
      <4> QED
        BY <1>4, <3>1, <4>1
    <3>2. CASE k # i
      <4>1. outcome[k] \in Settled \ {"rejected"}
        BY <1>2, <2>4, <3>2
      <4>2. PICK j \in 1..Len(results) : results[j] = k
        BY <1>3, <1>4, <2>4, <4>1 DEF PoolBooks
      <4>3. j \in 1..Len(results) + 1
        BY <1>4
      <4> QED
        BY <1>4, <4>2, <4>3
    <3> QED
      BY <3>1, <3>2
  <2>5. /\ \A k \in DOMAIN results' :
             outcome'[results'[k]] \in Settled \ {"rejected"} /\ ~Sequential(results'[k])
        /\ \A k \in Item : ~Sequential(k) /\ outcome'[k] \in Settled \ {"rejected"} =>
             \E j \in DOMAIN results' : results'[j] = k
    BY <1>4, <2>3, <2>4
  <2>6. Ascending(queue)' /\ queue' = queue
    BY DEF PoolBooks, Ascending
  <2> HIDE DEF IInv, Deliver
  <2> QED
    BY <1>2, <1>3, <2>1, <2>2, <2>5, <2>6 DEF PoolBooks, Sequential, Deliver
<1>9. FailuresSoFar'
  <2>1. Rejected' = Rejected /\ SequentialBroken' = SequentialBroken
    BY <1>2, <1>3 DEF Rejected, SequentialBroken, Broken, Sequential, Failed
  <2> QED
    BY <1>3, <2>1 DEF FailuresSoFar
<1>10. PackagesKept'
  BY <1>3 DEF PackagesKept
<1> QED
  BY <1>5, <1>6, <1>7, <1>8, <1>9, <1>10

\* The pool is over: its failures are put behind the others, in order.
LEMMA EndPoolKeepsIInv ==
  ASSUME IInv, EndPool
  PROVE  IInv'
<1> USE DEF IInv, EndPool, inputs, packages
<1> DEFINE B == {i \in ToSet(results) : outcome[i] # "ok"}
<1>1. Item' = Item /\ outcome \in [Item -> Outcome] /\ outcome' = outcome
      /\ phase = "pool" /\ phase' = "cleanup" /\ DOMAIN queue = {}
      /\ request \in Requests
  BY DEF Item, TypeOK
<1>2. \A i \in Item : outcome[i] \in Settled
  <2>1. ASSUME NEW i \in Item
        PROVE  outcome[i] \in Settled
    <3>1. outcome[i] # "queued"
      BY <1>1 DEF PoolBooks
    <3>2. outcome[i] # "running"
      BY DEF Running
    <3> QED
      BY <1>1, <3>1, <3>2 DEF Outcome, Settled
  <2> QED
    BY <2>1
<1>3. B = PoolBroken
  <2>1. ASSUME NEW i \in B
        PROVE  i \in PoolBroken
    <3>1. PICK k \in DOMAIN results : results[k] = i
      BY DEF ToSet
    <3>2. i \in Item /\ outcome[i] # "ok"
      BY <3>1 DEF TypeOK
    <3>3. outcome[i] \in Settled \ {"rejected"} /\ ~Sequential(i)
      BY <1>1, <3>1 DEF PoolBooks
    <3> QED
      BY <3>2, <3>3 DEF PoolBroken, Broken, Settled
  <2>2. ASSUME NEW i \in PoolBroken
        PROVE  i \in B
    <3>1. i \in Item /\ ~Sequential(i) /\ outcome[i] \in Failed \ {"rejected"}
      BY DEF PoolBroken, Broken
    <3>2. PICK k \in DOMAIN results : results[k] = i
      BY <1>1, <3>1 DEF PoolBooks, Settled
    <3> QED
      BY <3>1, <3>2 DEF ToSet, Failed
  <2> QED
    BY <2>1, <2>2
<1>4. failures' = failures \o InOrder(PoolBroken)
  BY <1>3
<1>5. InOrder(PoolBroken) \in Seq(Item)
  BY <1>1, Groups DEF PoolBroken, Broken
<1> HIDE DEF B
<1>6. TypeOK'
  <2>1. failures' \in Seq(Item)
    <3> DEFINE b == InOrder(PoolBroken)
    <3>1. failures \in Seq(Item) /\ b \in Seq(Item) /\ failures' = failures \o b
      BY <1>4, <1>5 DEF TypeOK
    <3> HIDE DEF b, EndPool, IInv
    <3> QED
      BY <3>1, ConcatProperties
  <2> QED
    BY <1>1, <2>1 DEF TypeOK, Phase
<1>7. BatchInPhase' /\ SequentialInOrder'
  BY <1>1, <1>2 DEF BatchInPhase, SequentialInOrder, Sequential
<1>8. PoolBooks'
  BY <1>1 DEF PoolBooks, Ascending
<1>9. FailuresSoFar'
  <2>1. Rejected' = Rejected /\ SequentialBroken' = SequentialBroken
        /\ PoolBroken' = PoolBroken
    BY <1>1 DEF Rejected, SequentialBroken, PoolBroken, Broken, Sequential
  <2> QED
    BY <1>1, <1>4, <2>1 DEF FailuresSoFar
<1>10. PackagesKept'
  BY <1>1 DEF PackagesKept
<1> QED
  BY <1>6, <1>7, <1>8, <1>9, <1>10

\* The clean-up leaves what the image had, and names of packages.
LEMMA RemovalKeepsImage ==
  ASSUME TypeOK, PackagesKept, RemovePackages(buildDeps), UNCHANGED <<inputs, buildDeps>>
  PROVE  /\ image.installed \subseteq installed' /\ image.installed \subseteq world'
         /\ installed' \subseteq installed /\ world' \subseteq world
<1> USE DEF RemovePackages
<1>1. image.installed \subseteq world'
  BY DEF PackagesKept
<1>2. CASE image.family = "alpine"
  BY <1>1, <1>2 DEF Closure, PackagesKept
<1>3. CASE image.family # "alpine"
  <2>1. \A p \in image.installed : ({p} \cup Depends[p]) \subseteq image.installed
    BY PackagesAssumption DEF TypeOK
  <2> QED
    BY <1>1, <1>3, <2>1 DEF PackagesKept
<1> QED
  BY <1>2, <1>3

\* The clean-up.
LEMMA CleanupKeepsIInv ==
  ASSUME IInv, Cleanup
  PROVE  IInv'
<1> USE DEF IInv, Cleanup, inputs, batch
<1>1. Item' = Item /\ UNCHANGED <<inputs, cancelled, batch, deps, buildDeps>>
      /\ phase = "cleanup" /\ phase' = "done"
  BY DEF Item
<1>2. /\ image.installed \subseteq installed' /\ image.installed \subseteq world'
      /\ installed' \subseteq installed /\ world' \subseteq world
  BY RemovalKeepsImage DEF PackagesKept
<1>3. TypeOK'
  BY <1>1, <1>2 DEF TypeOK, Phase
<1>4. BatchInPhase' /\ SequentialInOrder'
  BY <1>1 DEF BatchInPhase, SequentialInOrder, Sequential
<1>5. PoolBooks'
  BY <1>1 DEF PoolBooks, Ascending
<1>6. FailuresSoFar'
  BY <1>1, SummaryUnchanged
<1>7. PackagesKept'
  BY <1>1, <1>2 DEF PackagesKept
<1> QED
  BY <1>3, <1>4, <1>5, <1>6, <1>7

\* Nothing happens.
LEMMA StutterKeepsIInv ==
  ASSUME IInv, UNCHANGED vars
  PROVE  IInv'
<1> USE DEF IInv, vars, inputs, batch, packages
<1>1. TypeOK'
  BY DEF TypeOK, Item
<1>2. BatchInPhase' /\ SequentialInOrder'
  BY DEF BatchInPhase, SequentialInOrder, Item, Sequential
<1>3. PoolBooks'
  BY DEF PoolBooks, Item, Sequential, Ascending
<1>4. FailuresSoFar'
  BY SummaryUnchanged
<1>5. PackagesKept'
  BY DEF PackagesKept
<1> QED
  BY <1>1, <1>2, <1>3, <1>4, <1>5

\* The invariant is inductive.
LEMMA StepKeepsIInv == IInv /\ [Next]_vars => IInv'
<1> SUFFICES ASSUME IInv, [Next]_vars PROVE IInv'
  OBVIOUS
<1>1. CASE Step
  BY <1>1, ClassifyKeepsIInv, LookupsKeepIInv, ProvisionKeepsIInv, StartPoolKeepsIInv,
     TakeKeepsIInv, EndPoolKeepsIInv, CleanupKeepsIInv, StartSequentialKeepsIInv,
     EndSequentialKeepsIInv, DeliverKeepsIInv DEF Step
<1>2. CASE Cancel
  BY <1>2, CancelKeepsIInv
<1>3. CASE Done \/ UNCHANGED vars
  BY <1>3, StutterKeepsIInv DEF Done
<1> QED
  BY <1>1, <1>2, <1>3 DEF Next

LEMMA InstallInvariant == Spec => []IInv
<1> QED
  BY InitEstablishesIInv, StepKeepsIInv, PTL DEF Spec

-----------------------------------------------------------------------------
(* Theorems for any catalog.                                               *)

\* Every variable keeps its type.
THEOREM RunIsTyped == Spec => []TypeOK
<1>1. IInv => TypeOK
  BY DEF IInv
<1> QED
  BY <1>1, InstallInvariant, PTL

\* Whatever the batch, the failures and the moment of a signal: the clean-up of
\* build packages leaves everything the image had (packages.go:89-90).
THEOREM ImageIsKept == Spec => []ImageKept
<1>1. IInv => ImageKept
  BY DEF IInv, PackagesKept, ImageKept
<1> QED
  BY <1>1, InstallInvariant, PTL

\* However the builds of the pool interleave, every argument is settled when the
\* run ends, and the summary names those that failed, once and in order.
THEOREM SummaryIsComplete == Spec => []FailuresAreReported
<1>1. ASSUME IInv PROVE FailuresAreReported
  <2> SUFFICES ASSUME phase = "done" PROVE FailuresAreReported
    BY DEF FailuresAreReported
  <2>1. \A i \in Item : outcome[i] \in {"ok"} \cup Failed
    BY <1>1 DEF IInv, BatchInPhase, Settled
  <2>2. /\ {i \in Item \ Targets : outcome[i] \in Failed} = Rejected
        /\ {i \in {j \in Targets : Sequential(j)} : outcome[i] \in Failed}
             = SequentialBroken
        /\ {i \in {j \in Targets : ~Sequential(j)} : outcome[i] \in Failed}
             = PoolBroken
    BY DEF Targets, Rejected, SequentialBroken, PoolBroken, Broken, Failed
  <2>3. failures = (InOrder(Rejected) \o InOrder(SequentialBroken)) \o InOrder(PoolBroken)
    BY <1>1 DEF IInv, FailuresSoFar
  <2> QED
    BY <2>1, <2>2, <2>3 DEF FailuresAreReported, Failing
<1> QED
  BY <1>1, InstallInvariant, PTL

-----------------------------------------------------------------------------
(* Theorems about catalogs that list what their modules need.              *)

LEMMA LookupsOverInvariant == Spec => []LookupsOver
<1>1. Init => LookupsOver
  BY DEF Init, LookupsOver
<1>2. TypeOK /\ LookupsOver /\ [Next]_vars => LookupsOver'
  <2> SUFFICES ASSUME TypeOK, LookupsOver, [Next]_vars PROVE LookupsOver'
    OBVIOUS
  <2> USE DEF LookupsOver, Item, inputs, batch
  <2>1. CASE StartLookups \/ EndLookups
    BY <2>1 DEF StartLookups, EndLookups
  <2>2. ASSUME NEW i \in Item, Lookup(i)
        PROVE  LookupsOver'
    BY <2>2 DEF Lookup, TypeOK
  <2>3. CASE Classify \/ Provision \/ StartPool \/ Take \/ EndPool \/ Cleanup
    BY <2>3 DEF Classify, Provision, StartPool, Take, EndPool, Cleanup
  <2>4. ASSUME NEW i \in Item, StartSequential(i) \/ EndSequential(i) \/ Deliver(i)
        PROVE  LookupsOver'
    BY <2>4 DEF StartSequential, EndSequential, Deliver
  <2>5. CASE Cancel \/ Done \/ UNCHANGED vars
    BY <2>5 DEF Cancel, Done, vars
  <2> QED
    BY <2>1, <2>2, <2>3, <2>4, <2>5 DEF Next, Step
<1> QED
  BY <1>1, <1>2, RunIsTyped, PTL DEF Spec

\* What a step may do to the outcomes, the lookups and the packages.
Installs(i, o) ==
  /\ phase \in {"sequential", "pool"} /\ phase' = phase
  /\ Settle(i, o)
  /\ \/ outcome[i] = "queued" /\ o = "running"
     \/ outcome[i] = "running" /\ o # "running"
  /\ o = "unbuildable" => ~Buildable(i)
  /\ o = "ok" => Vouched(i)
  /\ UNCHANGED <<inputs, prebuilt, packages>>

LEMMA StepKinds ==
  ASSUME IInv, LookupsOver, [Next]_vars
  PROVE  \/ phase \in {"classify", "lookup"} /\ UNCHANGED <<inputs, packages>>
            /\ phase' \in {"classify", "lookup", "provision"}
         \/ Provision
         \/ \E i \in Item : \E o \in Outcome \ {"rejected", "queued"} : Installs(i, o)
         \/ UNCHANGED <<inputs, prebuilt, outcome, packages>> /\ phase' = phase
         \/ StartPool \/ EndPool \/ Cleanup
<1> USE DEF IInv, inputs, packages, batch
<1>1. CASE Classify \/ StartLookups \/ EndLookups
  BY <1>1 DEF Classify, StartLookups, EndLookups
<1>2. ASSUME NEW i \in Item, Lookup(i)
      PROVE  phase \in {"classify", "lookup"} /\ UNCHANGED <<inputs, packages>>
             /\ phase' \in {"classify", "lookup", "provision"}
  BY <1>2 DEF Lookup, LookupsOver
<1>4. ASSUME NEW i \in Item, StartSequential(i)
      PROVE  Installs(i, "running")
  BY <1>4 DEF StartSequential, Installs
<1>5. ASSUME NEW i \in Item, EndSequential(i) \/ Deliver(i)
      PROVE  \E o \in Outcome \ {"rejected", "queued"} : Installs(i, o)
  <2>1. PICK o \in Settled \ {"rejected"} :
          /\ Settle(i, o)
          /\ o = "unbuildable" => ~Buildable(i)
          /\ o = "ok" => Vouched(i)
    BY <1>5, InstallOutcome DEF EndSequential, Deliver
  <2>2. Installs(i, o)
    BY <1>5, <2>1 DEF EndSequential, Deliver, Installs, Settled, Failed
  <2>3. o \in Outcome \ {"rejected", "queued"}
    BY DEF Outcome, Settled, Failed
  <2> QED
    BY <2>2, <2>3
<1>6. ASSUME Take
      PROVE  \E i \in Item : Installs(i, "running")
  <2>1. queue \in Seq(Item) /\ queue # <<>>
    BY <1>6 DEF Take, TypeOK
  <2>2. Head(queue) \in Item /\ 1 \in DOMAIN queue /\ Head(queue) = queue[1]
    BY <2>1, HeadTailProperties, LenProperties, EmptySeq
  <2>3. outcome[Head(queue)] = "queued"
    BY <1>6, <2>2 DEF Take, PoolBooks
  <2> QED
    BY <1>6, <2>2, <2>3 DEF Take, Installs
<1>7. "running" \in Outcome \ {"rejected", "queued"}
  BY DEF Outcome
<1>8. CASE Cancel \/ Done \/ UNCHANGED vars
  BY <1>8 DEF Cancel, Done, vars
<1> QED
  BY <1>1, <1>2, <1>4, <1>5, <1>6, <1>7, <1>8 DEF Next, Step

\* Whatever searches fail, a list resolves to the packages that are certain.
LEMMA CertainIsResolved ==
  ASSUME NEW S, NEW T, S \subseteq T, NEW g, NEW found \in Searches
  PROVE  Certain(S, g) \subseteq Resolved(T, found, g)
<1>1. CASE "search" \in Faults
  BY <1>1 DEF Certain, Resolved
<1>2. CASE "search" \notin Faults
  <2>1. found = DOMAIN Matches
    BY <1>2 DEF Searches
  <2> QED
    BY <1>2, <2>1 DEF Certain, Resolved
<1> QED
  BY <1>1, <1>2

\* More packages pull in more.
LEMMA ClosureGrows ==
  ASSUME NEW S, NEW T, S \subseteq T
  PROVE  Closure(S) \subseteq Closure(T)
BY DEF Closure

\* A transaction that succeeds leaves what every miss needs to be built.
LEMMA ProvisionProvides ==
  ASSUME HeadersAreListed, TypeOK, Provision, flags.installDeps, deps' # "failed",
         NEW i \in Misses
  PROVE  Buildable(i)'
<1> DEFINE n == Needs(i)
<1>1. /\ i \in DOMAIN request /\ request \in Requests /\ image \in Images
      /\ UNCHANGED <<request, image>>
  BY DEF TypeOK, Misses, Targets, Item, Provision, inputs
<1>2. /\ image.autoconf \/ image.phpizeDeps # {}
      /\ image.phpizeDeps \subseteq image.available
      /\ n.headers \subseteq Closure(Certain(n.persistent, image)
                                      \cup (n.buildOnly \cap image.available))
  BY <1>1 DEF HeadersAreListed, Needs
<1>3. /\ \A built : n.persistent \subseteq Persistent(built)
      /\ n.buildOnly \subseteq BuildOnly /\ Phpize \subseteq BuildOnly
  BY DEF Persistent, BuildOnly
<1>4. request[i].bundled \/ image.autoconf \/ Phpize = image.phpizeDeps
  BY DEF Phpize
<1> HIDE DEF n
<1>5. ASSUME NEW built, Persistent(built) \cup BuildOnly = {}
      PROVE  Buildable(i)'
  <2>1. n.persistent = {} /\ n.buildOnly = {}
    BY <1>3, <1>5
  <2>2. n.headers = {}
    BY <1>2, <2>1 DEF Certain, Resolved, Closure
  <2>3. request[i].bundled \/ image.autoconf
    BY <1>2, <1>3, <1>4, <1>5
  <2> QED
    BY <1>1, <2>2, <2>3 DEF Buildable, Toolchain, Needs, n
<1>6. ASSUME NEW built \in Searches, NEW found \in Searches,
             NEW kept \in AvailableBuildPackages(BuildOnly),
             InstallPackages(Resolved(Persistent(built), found, image) \cup kept)
      PROVE  Buildable(i)'
  <2> DEFINE wanted == Resolved(Persistent(built), found, image) \cup kept
  <2>1. Closure(wanted) \subseteq installed'
    BY <1>6 DEF InstallPackages
  <2>2. BuildOnly \cap image.available \subseteq kept
    BY DEF AvailableBuildPackages
  <2>3. Certain(n.persistent, image) \subseteq Resolved(Persistent(built), found, image)
    BY <1>3, CertainIsResolved
  <2>4. Certain(n.persistent, image) \cup (n.buildOnly \cap image.available)
          \subseteq wanted
    BY <1>3, <2>2, <2>3
  <2>5. n.headers \subseteq installed'
    BY <1>2, <2>1, <2>4, ClosureGrows
  <2>6. CASE Phpize = image.phpizeDeps
    <3>1. image.phpizeDeps \subseteq Closure(wanted)
      BY <1>2, <1>3, <2>2, <2>6 DEF Closure
    <3> QED
      BY <1>1, <1>2, <2>1, <2>5, <3>1 DEF Buildable, Toolchain, Needs, n
  <2>7. CASE request[i].bundled \/ image.autoconf
    BY <1>1, <2>5, <2>7 DEF Buildable, Toolchain, Needs, n
  <2> QED
    BY <1>4, <2>6, <2>7
<1> QED
  BY <1>5, <1>6 DEF Provision

\* If the catalog lists what a build needs, filtering package names and leaving
\* the toolchain out for hits never costs a miss its build.
THEOREM MissesCanBeBuilt == HeadersAreListed => (Spec => []MissesAreBuildable)
<1> SUFFICES ASSUME HeadersAreListed PROVE Spec => []MissesAreBuildable
  OBVIOUS
<1>1. Init => MissesProvided
  BY DEF Init, MissesProvided, MissesAreBuildable, Misses, Targets
<1>2. IInv /\ IInv' /\ LookupsOver /\ MissesProvided /\ [Next]_vars => MissesProvided'
  <2> SUFFICES ASSUME IInv, IInv', LookupsOver, MissesProvided, [Next]_vars
               PROVE  MissesProvided'
    OBVIOUS
  <2>1. CASE phase' \in {"classify", "lookup", "provision"}
    <3>1. \A i \in Item' : outcome'[i] \in {"queued", "rejected"}
      BY <2>1 DEF IInv, BatchInPhase
    <3>2. MissesAreBuildable'
      BY <3>1 DEF MissesAreBuildable, Misses, Targets
    <3> QED
      BY <2>1, <3>2 DEF MissesProvided
  <2>2. CASE Provision
    <3>1. UNCHANGED <<inputs, outcome, prebuilt>> /\ phase = "provision"
      BY <2>2 DEF Provision, batch
    <3>2. Misses' = Misses /\ flags' = flags
      BY <3>1 DEF Misses, Hits, Targets, Item, inputs
    <3>3. \A i \in Misses : outcome[i] # "unbuildable"
      BY <3>1 DEF IInv, BatchInPhase, Misses, Targets
    <3>4. flags.installDeps /\ deps' # "failed" => \A i \in Misses : Buildable(i)'
      BY <2>2, ProvisionProvides DEF IInv
    <3> QED
      BY <3>1, <3>2, <3>3, <3>4 DEF MissesProvided, MissesAreBuildable
  <2>3. ASSUME NEW i \in Item, NEW o \in Outcome \ {"rejected", "queued"}, Installs(i, o)
        PROVE  MissesProvided'
    <3>1. /\ UNCHANGED <<inputs, prebuilt, packages, phase>>
          /\ Item' = Item /\ outcome \in [Item -> Outcome]
          /\ outcome' = [outcome EXCEPT ![i] = o]
          /\ phase \in {"sequential", "pool"}
          /\ outcome[i] # "rejected" /\ o # "rejected"
      BY <2>3 DEF Installs, IInv, TypeOK, Item, inputs, Settle
    <3>2. Targets' = Targets
      BY <3>1 DEF Targets
    <3>3. Misses' = Misses /\ flags' = flags /\ deps' = deps
      BY <3>1, <3>2 DEF Misses, Hits, inputs, packages
    <3>4. \A k : Buildable(k)' = Buildable(k)
      BY <3>1 DEF Buildable, Toolchain, Needs, inputs, packages
    <3>5. ASSUME flags.installDeps, deps # "failed", NEW k \in Misses
          PROVE  outcome'[k] # "unbuildable" /\ Buildable(k)
      <4>1. Buildable(k) /\ outcome[k] # "unbuildable" /\ k \in Item
        BY <3>1, <3>5 DEF MissesProvided, MissesAreBuildable, Misses, Targets
      <4> QED
        BY <2>3, <3>1, <4>1 DEF Installs
    <3> QED
      BY <3>3, <3>4, <3>5 DEF MissesProvided, MissesAreBuildable
  <2>4. CASE UNCHANGED <<inputs, prebuilt, outcome, packages>> /\ phase' = phase
    BY <2>4 DEF MissesProvided, MissesAreBuildable, Misses, Hits, Targets, Item,
       Buildable, Toolchain, Needs, inputs, packages
  <2>5. CASE StartPool
    BY <2>5 DEF StartPool, MissesProvided, MissesAreBuildable, Misses, Hits, Targets,
       Item, Buildable, Toolchain, Needs, inputs, packages
  <2>6. CASE EndPool \/ Cleanup
    <3>1. UNCHANGED <<request, flags, prebuilt, outcome, deps>>
          /\ phase' \in {"cleanup", "done"}
      BY <2>6 DEF EndPool, Cleanup, inputs, packages, batch
    <3> QED
      BY <3>1 DEF MissesProvided, MissesAreBuildable, Misses, Hits, Targets, Item
  <2> QED
    BY <2>1, <2>2, <2>3, <2>4, <2>5, <2>6, StepKinds
<1>3. MissesProvided => MissesAreBuildable
  BY DEF MissesProvided
<1> QED
  BY <1>1, <1>2, <1>3, InstallInvariant, LookupsOverInvariant, PTL DEF Spec

\* The packages marked for removal spare what the targets link against, and on
\* Alpine something that was asked for keeps it.
LEMMA ProvisionSpares ==
  ASSUME RuntimeIsPersistent, TypeOK, PackagesKept, Provision, buildDeps' # {},
         NEW i \in Targets, NEW p \in Needs(i).links
  PROVE  /\ ({p} \cup Depends[p]) \cap buildDeps' = {}
         /\ image.family = "alpine" => p \in Closure(world' \ buildDeps')
<1> DEFINE n == Needs(i)
           only == image.phpizeDeps
                     \cup UNION {request[j].needs[image.family].buildOnly : j \in DOMAIN request}
<1>1. i \in DOMAIN request /\ request \in Requests /\ image \in Images
  BY DEF TypeOK, Targets, Item
<1>2. /\ ({p} \cup Depends[p]) \cap only = {}
      /\ image.family = "alpine" =>
           \E q \in Certain(n.persistent, image) \ only : p \in {q} \cup Depends[q]
  BY <1>1 DEF RuntimeIsPersistent, Needs
<1>3. BuildOnly \subseteq only
  BY DEF BuildOnly, Phpize, Misses, Targets, Item, Needs
<1>4. PICK built \in Searches, found \in Searches,
           kept \in AvailableBuildPackages(BuildOnly) :
        /\ InstallPackages(Resolved(Persistent(built), found, image) \cup kept)
        /\ buildDeps' = BuildOnly \ installed
  <2>1. buildDeps = {}
    BY DEF PackagesKept, Provision
  <2> QED
    BY <2>1 DEF Provision, Missing, packages
<1> HIDE DEF only, n
<1>5. ASSUME image.family = "alpine"
      PROVE  p \in Closure(world' \ buildDeps')
  <2>1. PICK q \in Certain(n.persistent, image) \ only : p \in {q} \cup Depends[q]
    BY <1>2, <1>5
  <2>2. q \in Resolved(Persistent(built), found, image)
    <3>1. CASE i \in Misses
      <4>1. n.persistent \subseteq Persistent(built)
        BY <3>1 DEF Persistent, n
      <4> QED
        BY <2>1, <4>1, CertainIsResolved
    <3>2. CASE i \notin Misses
      <4>1. i \in Hits
        BY <3>2 DEF Misses
      <4>2. q \in Resolved(n.persistent, built, image)
        BY <2>1, CertainIsResolved
      <4>3. q \in Persistent(built)
        BY <4>1, <4>2 DEF Persistent, n
      <4>4. image.available \cap DOMAIN Matches = {}
        BY <1>1, PackagesAssumption
      <4>5. q \notin DOMAIN Matches
        BY <4>2, <4>4 DEF Resolved
      <4> QED
        BY <4>3, <4>5 DEF Resolved
    <3> QED
      BY <3>1, <3>2
  <2>3. q \in world' \ buildDeps'
    BY <1>3, <1>4, <2>1, <2>2 DEF InstallPackages
  <2> QED
    BY <2>1, <2>3 DEF Closure
<1> QED
  BY <1>2, <1>3, <1>4, <1>5

\* The clean-up takes nothing a target links against out of the image.
LEMMA RemovalKeepsLibraries ==
  ASSUME RemovalSpares, RemovePackages(buildDeps), buildDeps # {},
         NEW i \in Targets, Loadable(i)
  PROVE  Needs(i).links \subseteq installed'
<1> SUFFICES ASSUME NEW p \in Needs(i).links PROVE p \in installed'
  OBVIOUS
<1>1. /\ p \in installed /\ ({p} \cup Depends[p]) \cap buildDeps = {}
      /\ image.family = "alpine" => p \in Closure(world \ buildDeps)
  BY DEF RemovalSpares, Loadable
<1> QED
  BY <1>1 DEF RemovePackages

\* Until the clean-up the package database is complete.
PackagesClosed ==
  phase \notin {"cleanup", "done"} => \A p \in installed : Depends[p] \subseteq installed

\* What is installed brings along what it pulls in.
LEMMA InstallKeepsClosed ==
  ASSUME TypeOK, NEW wanted, InstallPackages(wanted),
         \A p \in installed : Depends[p] \subseteq installed
  PROVE  \A p \in installed' : Depends[p] \subseteq installed'
<1>1. wanted \subseteq DOMAIN Depends
  BY PackagesAssumption DEF TypeOK, InstallPackages
<1>2. \A p \in Closure(wanted) : Depends[p] \subseteq Closure(wanted)
  BY <1>1, PackagesAssumption DEF Closure
<1> QED
  BY <1>2 DEF InstallPackages

\* A bundled extension that could be built has its libraries.
LEMMA VouchedIsLoadable ==
  ASSUME RuntimeIsPersistent, TypeOK, flags.enable, NEW i \in Item, Vouched(i),
         \A p \in installed : Depends[p] \subseteq installed
  PROVE  Loadable(i)
<1> SUFFICES ASSUME request[i].bundled, Buildable(i) PROVE Loadable(i)
  BY DEF Vouched
<1>1. Needs(i).links \subseteq Closure(Needs(i).headers)
  BY DEF RuntimeIsPersistent, TypeOK, Item, Needs
<1>2. Closure(Needs(i).headers) \subseteq installed
  BY DEF Buildable, Closure
<1> QED
  BY <1>1, <1>2 DEF Loadable

\* If no library of a module is build-only, every module that was installed keeps
\* its libraries, also after --cleanup-build-deps.
THEOREM LibrariesAreKept == RuntimeIsPersistent => (Spec => []RuntimeLibrariesKept)
<1> SUFFICES ASSUME RuntimeIsPersistent PROVE Spec => []RuntimeLibrariesKept
  OBVIOUS
<1> DEFINE LInv == RemovalSpares /\ PackagesClosed /\ RuntimeLibrariesKept
<1>1. Init => LInv
  BY PackagesAssumption DEF Init, RemovalSpares, PackagesClosed, RuntimeLibrariesKept
<1>2. IInv /\ IInv' /\ LookupsOver /\ LInv /\ [Next]_vars => LInv'
  <2> SUFFICES ASSUME IInv, IInv', LookupsOver, LInv, [Next]_vars
               PROVE  LInv'
    OBVIOUS
  <2>1. CASE phase' \in {"classify", "lookup", "provision"}
    <3>1. /\ buildDeps' = {} /\ \A i \in Item' : outcome'[i] # "ok"
          /\ installed' = image'.installed /\ image' \in Images
      BY <2>1 DEF IInv, BatchInPhase, PackagesKept, TypeOK
    <3> QED
      BY <3>1, PackagesAssumption DEF RemovalSpares, PackagesClosed, RuntimeLibrariesKept
  <2>2. CASE Provision
    <3>1. UNCHANGED <<inputs, outcome>> /\ phase = "provision" /\ TypeOK /\ PackagesKept
      BY <2>2 DEF Provision, batch, IInv
    <3>2. Targets' = Targets /\ Item' = Item /\ image' = image
          /\ \A i : Needs(i)' = Needs(i)
      BY <3>1 DEF Targets, Item, inputs, Needs
    <3>3. RemovalSpares'
      BY <2>2, <3>1, <3>2, ProvisionSpares DEF RemovalSpares, Closure
    <3>4. \A i \in Item : outcome[i] # "ok"
      BY <3>1 DEF IInv, BatchInPhase
    <3>5. PackagesClosed'
      <4>1. \A p \in installed : Depends[p] \subseteq installed
        BY <3>1 DEF PackagesClosed
      <4>2. ASSUME NEW wanted, InstallPackages(wanted)
            PROVE  PackagesClosed'
        BY <3>1, <4>1, <4>2, InstallKeepsClosed DEF PackagesClosed
      <4>3. CASE UNCHANGED installed
        BY <4>1, <4>3 DEF PackagesClosed
      <4> QED
        BY <2>2, <4>2, <4>3 DEF Provision, packages
    <3> QED
      BY <3>1, <3>2, <3>3, <3>4, <3>5 DEF RuntimeLibrariesKept
  <2>3. ASSUME NEW i \in Item, NEW o \in Outcome \ {"rejected", "queued"}, Installs(i, o)
        PROVE  LInv'
    <3>1. /\ UNCHANGED <<inputs, packages>>
          /\ Item' = Item /\ outcome \in [Item -> Outcome]
          /\ outcome' = [outcome EXCEPT ![i] = o]
          /\ outcome[i] # "rejected" /\ o # "rejected"
          /\ phase' = phase /\ phase \in {"sequential", "pool"} /\ TypeOK
      BY <2>3 DEF Installs, IInv, TypeOK, Item, inputs, Settle
    <3>2. Targets' = Targets
      BY <3>1 DEF Targets
    <3>3. \A k : Loadable(k)' = Loadable(k) /\ Needs(k)' = Needs(k)
      BY <3>1 DEF Loadable, Needs, inputs, packages
    <3>4. RemovalSpares'
      BY <3>1, <3>2, <3>3 DEF RemovalSpares, Closure, inputs, packages
    <3>5. PackagesClosed' /\ \A p \in installed : Depends[p] \subseteq installed
      BY <3>1 DEF PackagesClosed, packages
    <3>6. ASSUME flags.enable, NEW k \in Item, outcome'[k] = "ok"
          PROVE  Loadable(k)
      <4>1. CASE outcome[k] = "ok"
        BY <3>6, <4>1 DEF RuntimeLibrariesKept
      <4>2. CASE outcome[k] # "ok"
        <5>1. k = i /\ o = "ok"
          BY <3>1, <3>6, <4>2
        <5>2. Vouched(k)
          BY <2>3, <5>1 DEF Installs
        <5> QED
          BY <3>1, <3>5, <3>6, <5>2, VouchedIsLoadable
      <4> QED
        BY <4>1, <4>2
    <3> QED
      BY <3>1, <3>3, <3>4, <3>5, <3>6 DEF RuntimeLibrariesKept, inputs
  <2>4. CASE UNCHANGED <<inputs, prebuilt, outcome, packages>> /\ phase' = phase
    BY <2>4 DEF RemovalSpares, PackagesClosed, RuntimeLibrariesKept, Targets, Item,
       Closure, Needs, Loadable, inputs, packages
  <2>5. CASE StartPool \/ EndPool
    <3>1. /\ UNCHANGED <<inputs, outcome, packages>>
          /\ phase \notin {"cleanup", "done"}
      BY <2>5 DEF StartPool, EndPool
    <3> QED
      BY <3>1 DEF RemovalSpares, PackagesClosed, RuntimeLibrariesKept, Targets, Item,
         Closure, Needs, Loadable, inputs, packages
  <2>6. CASE Cleanup
    <3>1. /\ UNCHANGED <<inputs, outcome, buildDeps>> /\ phase' = "done"
          /\ \/ buildDeps # {} /\ RemovePackages(buildDeps)
             \/ UNCHANGED <<installed, world>>
      BY <2>6 DEF Cleanup, batch
    <3>2. Targets' = Targets /\ Item' = Item /\ image' = image
          /\ \A i : Needs(i)' = Needs(i)
      BY <3>1 DEF Targets, Item, inputs, Needs
    <3>3. world' \ buildDeps' = world \ buildDeps
      BY <3>1 DEF RemovePackages
    <3>4. RemovalSpares'
      BY <3>1, <3>2, <3>3 DEF RemovalSpares, Closure
    <3>5. ASSUME flags.enable, NEW i \in Item, outcome[i] = "ok"
          PROVE  Needs(i).links \subseteq installed'
      <4>1. i \in Targets /\ Loadable(i)
        BY <3>5 DEF Targets, RuntimeLibrariesKept
      <4> QED
        BY <3>1, <4>1, RemovalKeepsLibraries DEF Loadable
    <3> QED
      BY <3>1, <3>2, <3>4, <3>5 DEF PackagesClosed, RuntimeLibrariesKept, Loadable, inputs
  <2> HIDE DEF LInv
  <2> QED
    BY <2>1, <2>2, <2>3, <2>4, <2>5, <2>6, StepKinds
<1>3. LInv => RuntimeLibrariesKept
  OBVIOUS
<1> QED
  BY <1>1, <1>2, <1>3, InstallInvariant, LookupsOverInvariant, PTL DEF Spec
-----------------------------------------------------------------------------
(* The batch runs as BatchSchedule promises.                               *)

\* What BatchSchedule sees of the outcomes.
Seen(o) == IF o \in Failed THEN "failed" ELSE o
Shown == [i \in Item |-> IF outcome[i] \in Failed THEN "failed" ELSE outcome[i]]

\* One outcome changes.
LEMMA ShownSettles ==
  ASSUME TypeOK, Item' = Item, NEW i \in Item, NEW o, Settle(i, o)
  PROVE  Shown' = [Shown EXCEPT ![i] = Seen(o)] /\ Shown[i] = Seen(outcome[i])
<1>1. outcome \in [Item -> Outcome] /\ outcome' = [outcome EXCEPT ![i] = o]
  BY DEF TypeOK, Settle
<1> QED
  BY <1>1 DEF Shown, Seen

\* The detailed run implements the schedule: targets that must run alone do,
\* before the pool starts, and the pool keeps to its width.
THEOREM RunKeepsSchedule == Spec => KeepsSchedule
<1>1. Init => Schedule!Init
  BY DEF Init, Schedule!Init, Failed
<1>2. IInv /\ [Next]_vars => [Schedule!Next]_(Schedule!vars)
  <2> DEFINE Goal == Schedule!Next \/ UNCHANGED Schedule!vars
  <2> SUFFICES ASSUME IInv, [Next]_vars PROVE Goal
    OBVIOUS
  <2>0. TypeOK /\ BatchInPhase /\ PoolBooks /\ outcome \in [Item -> Outcome]
    BY DEF IInv, TypeOK
  <2> DEFINE Alone == {i \in Item : Sequential(i)}
  <2>1. inputs' = inputs
    BY DEF Next, Step, vars, Classify, StartLookups, EndLookups, Provision, StartPool,
       Take, EndPool, Cleanup, Lookup, StartSequential, EndSequential, Deliver, Cancel,
       Done
  <2>2. Item' = Item /\ flags' = flags /\ Alone' = Alone
    BY <2>1 DEF Item, Sequential, inputs
  <2>4. Running = Schedule!Running /\ DOMAIN Shown = Item
    BY DEF Running, Schedule!Running, Failed, Shown
  <2>5. ASSUME NEW i \in Item, Schedule!Reject(i) \/ Schedule!Start(i) \/ Schedule!Settle(i)
        PROVE  Goal
    BY <2>2, <2>5 DEF Schedule!Next
  <2>6. CASE UNCHANGED outcome
    BY <2>2, <2>6 DEF Schedule!vars
  <2> HIDE DEF Goal
  <2>7. ASSUME Classify, Settle(next, "rejected")
        PROVE  Goal
    <3>1. next \in Item
      BY <2>0, <2>7, Items DEF Classify, TypeOK
    <3>2. PICK i \in Item : i = next
      BY <3>1
    <3>3. Settle(i, "rejected")
      BY <2>7, <3>2 DEF Settle
    <3>4. outcome[i] = "queued" /\ \A j \in Item : outcome[j] \in {"queued", "rejected"}
      <4>1. next >= next
        BY <2>0 DEF TypeOK
      <4> QED
        BY <2>0, <2>7, <3>2, <4>1 DEF Classify, BatchInPhase
    <3>5. \A j \in Item : Shown[j] \in {"queued", "failed"}
      BY <3>4 DEF Shown, Failed
    <3>6. Shown[i] = "queued" /\ Shown' = [Shown EXCEPT ![i] = "failed"]
      BY <2>0, <2>2, <3>3, <3>4, ShownSettles DEF Seen, Failed
    <3>7. Schedule!Reject(i)
      BY <2>4, <3>5, <3>6 DEF Schedule!Reject, Shown
    <3> QED
      BY <2>5, <3>7
  <2>8. ASSUME NEW i \in Item, StartSequential(i)
        PROVE  Schedule!Start(i)
    <3>1. i \in Alone /\ outcome[i] = "queued" /\ Running = {} /\ Settle(i, "running")
      BY <2>8 DEF StartSequential
    <3>2. Shown[i] = "queued" /\ Shown' = [Shown EXCEPT ![i] = "running"]
      BY <2>0, <2>2, <3>1, ShownSettles DEF Seen, Failed
    <3> QED
      BY <2>4, <3>1, <3>2 DEF Schedule!Start, Shown
  <2>9. ASSUME Take
        PROVE  Goal
    <3>1. Head(queue) \in Item /\ 1 \in DOMAIN queue /\ Head(queue) = queue[1]
      <4>1. queue \in Seq(Item) /\ queue # <<>>
        BY <2>0, <2>9 DEF Take, TypeOK
      <4> QED
        BY <4>1, HeadTailProperties, LenProperties, EmptySeq
    <3>2. PICK h \in Item : h = Head(queue)
      BY <3>1
    <3>3. Settle(h, "running") /\ Cardinality(Running) < flags.jobs
      BY <2>9, <3>2 DEF Take, Settle
    <3>4. outcome[h] = "queued" /\ h \notin Alone
      BY <2>0, <2>9, <3>1, <3>2 DEF PoolBooks, Take
    <3>5. \A j \in Alone : Shown[j] \in {"ok", "failed"}
      BY <2>0, <2>9 DEF BatchInPhase, Take, Settled, Shown
    <3>6. Shown[h] = "queued" /\ Shown' = [Shown EXCEPT ![h] = "running"]
      BY <2>0, <2>2, <3>3, <3>4, ShownSettles DEF Seen, Failed
    <3>7. Schedule!Cardinality(Running) = Cardinality(Running)
      BY DEF Schedule!Cardinality, Cardinality
    <3>8. Schedule!Start(h)
      BY <2>4, <3>3, <3>4, <3>5, <3>6, <3>7 DEF Schedule!Start, Shown
    <3> QED
      BY <2>5, <3>8
  <2>10. ASSUME NEW i \in Item, EndSequential(i) \/ Deliver(i)
         PROVE  Schedule!Settle(i)
    <3>1. PICK o \in Settled \ {"rejected"} : Settle(i, o)
      BY <2>10, InstallOutcome DEF EndSequential, Deliver
    <3>2. outcome[i] = "running"
      BY <2>10 DEF EndSequential, Deliver
    <3>3. Shown[i] = "running" /\ Shown' = [Shown EXCEPT ![i] = Seen(o)]
      BY <2>0, <2>2, <3>1, <3>2, ShownSettles DEF Seen, Failed
    <3>4. Seen(o) \in {"ok", "failed"}
      BY DEF Seen, Settled
    <3> QED
      BY <3>3, <3>4 DEF Schedule!Settle, Shown
  <2>11. CASE Step
    <3>1. CASE Classify
      BY <2>6, <2>7, <3>1 DEF Classify
    <3>2. CASE StartLookups \/ EndLookups \/ Provision \/ StartPool \/ EndPool \/ Cleanup
      BY <2>6, <3>2 DEF StartLookups, EndLookups, Provision, StartPool, EndPool, Cleanup,
         batch
    <3>3. ASSUME NEW i \in Item, Lookup(i)
          PROVE  UNCHANGED outcome
      BY <3>3 DEF Lookup
    <3>4. CASE Take
      BY <2>9, <3>4
    <3>5. ASSUME NEW i \in Item, StartSequential(i) \/ EndSequential(i) \/ Deliver(i)
          PROVE  Goal
      BY <2>5, <2>8, <2>10, <3>5
    <3> QED
      BY <2>6, <2>11, <3>1, <3>2, <3>3, <3>4, <3>5 DEF Step
  <2>12. CASE Cancel \/ Done \/ UNCHANGED vars
    BY <2>6, <2>12 DEF Cancel, Done, vars, batch
  <2> QED
    BY <2>11, <2>12 DEF Next
<1> QED
  BY <1>1, <1>2, InstallInvariant, PTL DEF Spec, KeepsSchedule, Schedule!Spec
=============================================================================
