---------------------------- MODULE ThreadProofs ----------------------------
(***************************************************************************)
(* Theorems about the scheduler of module Thread, for every number of      *)
(* threads, wait queues and priorities and every value of its constants.   *)
(*                                                                         *)
(* The inductive invariant IInv joins the type invariant with the three    *)
(* queue invariants and SleepersOf, which says that every sleep timer      *)
(* belongs to a sleeping thread and to no other timer's: without it a      *)
(* timer could make ready a thread that is in the run queue already.  The  *)
(* lemmas before it are about the lists of the kernel; then there is one   *)
(* lemma per group of steps.                                               *)
(***************************************************************************)
EXTENDS Thread, SequenceTheorems, WellFoundedInduction, TLAPS

\* The part of the assumption on the constants that the proofs use.
LEMMA ConstantTypes ==
    /\ Idle \in Threads
    /\ None \notin Threads /\ None \notin WaitQueues /\ None \notin WakeLoops
    /\ MaxPriority \in Nat
    /\ Quantum \in Nat /\ Quantum > 0
    /\ Delays \subseteq Nat
    /\ Timeouts \subseteq Nat
    /\ WakeErrors \subseteq Results
    /\ BootQueues \in [Priorities -> Seq(Threads)]
<1>1. \A p \in Priorities : BootQueues[p] \in Seq(Threads \ {Idle})
  BY ThreadAssumption DEF ThreadAssumption
<1>2. \A p \in Priorities : BootQueues[p] \in Seq(Threads)
  BY <1>1, SeqMonotonic
<1>3. BootQueues \in [Priorities -> Seq(Threads)]
  BY <1>2, ThreadAssumption DEF ThreadAssumption
<1> QED BY <1>3, ThreadAssumption DEF ThreadAssumption

\* The descending search of the bitmap finds the highest priority whose bit is
\* set.
LEMMA HighestOfIn ==
    ASSUME NEW bm \in SUBSET Priorities, bm # {}
    PROVE  /\ HighestOf(bm) \in bm
           /\ \A q \in bm : q <= HighestOf(bm)
<1> DEFINE R == OpToRel(<, Nat)
           T == {MaxPriority - q : q \in bm}
<1>1. IsWellFoundedOn(R, Nat)
  BY NatLessThanWellFounded
<1>2. T \subseteq Nat /\ T # {}
  <2> HIDE DEF R
  <2>1. \A q \in bm : MaxPriority - q \in Nat
    BY ConstantTypes DEF Priorities
  <2>2. PICK q \in bm : TRUE
    OBVIOUS
  <2>3. MaxPriority - q \in T
    BY <2>2
  <2> QED BY <2>1, <2>3
<1>3. PICK x \in T : \A y \in T : ~ (<<y, x>> \in R)
  <2> HIDE DEF R, T
  <2> QED BY <1>1, <1>2, WFMin
<1>4. PICK p \in bm : x = MaxPriority - p
  OBVIOUS
<1>5. \A q \in bm : q <= p
  <2> SUFFICES ASSUME NEW q \in bm PROVE q <= p
    OBVIOUS
  <2>1. MaxPriority - q \in T
    OBVIOUS
  <2>2. ~ (MaxPriority - q < MaxPriority - p)
    BY <2>1, <1>2, <1>3, <1>4 DEF OpToRel
  <2> QED BY <2>2, ConstantTypes DEF Priorities
<1> QED BY <1>5 DEF HighestOf

-----------------------------------------------------------------------------
(* Queues as sequences without repetition, and the sets of their elements  *)

\* insert_in_run_queue_head on one list: a new element goes in front,
\* the others keep their order, and no element is in twice.
LEMMA PushFront ==
    ASSUME NEW S, NEW s \in Seq(S), NEW e \in S,
           IsInjective(s), e \notin ToSet(s)
    PROVE  /\ <<e>> \o s \in Seq(S)
           /\ <<e>> \o s # <<>>
           /\ IsInjective(<<e>> \o s)
           /\ ToSet(<<e>> \o s) = ToSet(s) \cup {e}
<1> DEFINE r == <<e>> \o s
<1>1. /\ Len(s) \in Nat
      /\ DOMAIN s = 1 .. Len(s)
      /\ DOMAIN r = 1 .. Len(s) + 1
      /\ r[1] = e
      /\ \A i \in 2 .. Len(s) + 1 : r[i] = s[i - 1]
      /\ \A i \in 1 .. Len(s) : r[i + 1] = s[i]
      /\ r \in Seq(S) /\ r # <<>>
  OBVIOUS
<1> HIDE DEF r
<1>2. \A k \in DOMAIN r : \/ k = 1 /\ r[k] = e
                          \/ k - 1 \in DOMAIN s /\ r[k] = s[k - 1]
  <2> TAKE k \in DOMAIN r
  <2>1. k = 1 \/ (k \in 2 .. Len(s) + 1 /\ k - 1 \in 1 .. Len(s))
    BY <1>1
  <2> QED BY <2>1, <1>1
<1>3. IsInjective(r)
  <2> SUFFICES ASSUME NEW a \in DOMAIN r, NEW b \in DOMAIN r, r[a] = r[b]
               PROVE  a = b
    BY DEF IsInjective
  <2>1. a \in Int /\ b \in Int
    BY <1>1
  <2>2. CASE r[a] = e
    BY <2>2, <1>2 DEF ToSet
  <2>3. CASE r[a] # e
    <3>1. /\ a - 1 \in DOMAIN s /\ r[a] = s[a - 1]
          /\ b - 1 \in DOMAIN s /\ r[b] = s[b - 1]
      BY <2>3, <1>2
    <3>2. a - 1 = b - 1
      BY <3>1 DEF IsInjective
    <3> QED BY <3>2, <2>1
  <2> QED BY <2>2, <2>3
<1>4. ToSet(r) = ToSet(s) \cup {e}
  <2>1. \A x \in ToSet(r) : x = e \/ x \in ToSet(s)
    BY <1>2 DEF ToSet
  <2>2. \A x \in ToSet(s) : x \in ToSet(r)
    <3> TAKE x \in ToSet(s)
    <3>1. PICK i \in DOMAIN s : x = s[i]
      BY DEF ToSet
    <3>2. i + 1 \in DOMAIN r /\ r[i + 1] = x
      BY <3>1, <1>1
    <3> QED BY <3>2 DEF ToSet
  <2>3. e \in ToSet(r)
    <3>1. 1 \in DOMAIN r
      BY <1>1
    <3> QED BY <3>1, <1>1 DEF ToSet
  <2> QED BY <2>1, <2>2, <2>3
<1> QED BY <1>1, <1>3, <1>4 DEF r

\* insert_in_run_queue_tail and list_add_tail: a new element goes behind the
\* others, and no element is in twice.
LEMMA PushBack ==
    ASSUME NEW S, NEW s \in Seq(S), NEW e \in S,
           IsInjective(s), e \notin ToSet(s)
    PROVE  /\ Append(s, e) \in Seq(S)
           /\ Append(s, e) # <<>>
           /\ Len(Append(s, e)) = Len(s) + 1
           /\ IsInjective(Append(s, e))
           /\ ToSet(Append(s, e)) = ToSet(s) \cup {e}
<1> DEFINE r == Append(s, e)
<1>1. /\ Len(s) \in Nat
      /\ DOMAIN s = 1 .. Len(s)
      /\ DOMAIN r = 1 .. Len(s) + 1
      /\ Len(r) = Len(s) + 1
      /\ r[Len(s) + 1] = e
      /\ \A i \in 1 .. Len(s) : r[i] = s[i]
      /\ r \in Seq(S) /\ r # <<>>
  OBVIOUS
<1> HIDE DEF r
<1>2. \A k \in DOMAIN r : \/ k = Len(s) + 1 /\ r[k] = e
                          \/ k \in DOMAIN s /\ r[k] = s[k]
  BY <1>1
<1>3. IsInjective(r)
  <2> SUFFICES ASSUME NEW a \in DOMAIN r, NEW b \in DOMAIN r, r[a] = r[b]
               PROVE  a = b
    BY DEF IsInjective
  <2> QED BY <1>2 DEF ToSet, IsInjective
<1>4. ToSet(r) = ToSet(s) \cup {e}
  <2>1. \A x \in ToSet(r) : x = e \/ x \in ToSet(s)
    BY <1>2 DEF ToSet
  <2>2. \A x \in ToSet(s) : x \in ToSet(r)
    <3> TAKE x \in ToSet(s)
    <3>1. PICK i \in DOMAIN s : x = s[i]
      BY DEF ToSet
    <3>2. i \in DOMAIN r /\ r[i] = x
      BY <3>1, <1>1
    <3> QED BY <3>2 DEF ToSet
  <2>3. e \in ToSet(r)
    <3>1. Len(s) + 1 \in DOMAIN r
      BY <1>1
    <3> QED BY <3>1, <1>1 DEF ToSet
  <2> QED BY <2>1, <2>2, <2>3
<1> QED BY <1>1, <1>3, <1>4 DEF r

\* list_remove_head_type: the head leaves, and is in the rest no more.
LEMMA PopFront ==
    ASSUME NEW S, NEW s \in Seq(S), s # <<>>, IsInjective(s)
    PROVE  /\ Head(s) \in S /\ Head(s) \in ToSet(s)
           /\ Tail(s) \in Seq(S)
           /\ Len(Tail(s)) = Len(s) - 1
           /\ IsInjective(Tail(s))
           /\ ToSet(Tail(s)) = ToSet(s) \ {Head(s)}
<1> DEFINE r == Tail(s)
<1>1. /\ Len(s) \in Nat /\ Len(s) > 0
      /\ DOMAIN s = 1 .. Len(s)
      /\ DOMAIN r = 1 .. Len(s) - 1
      /\ Len(r) = Len(s) - 1
      /\ Head(s) = s[1] /\ Head(s) \in S
      /\ \A i \in 1 .. Len(s) - 1 : r[i] = s[i + 1]
      /\ r \in Seq(S)
  OBVIOUS
<1> HIDE DEF r
<1>2. 1 \in DOMAIN s
  BY <1>1
<1>3. \A k \in DOMAIN r : k \in Int /\ k + 1 \in DOMAIN s /\ k + 1 # 1 /\ r[k] = s[k + 1]
  BY <1>1
<1>4. IsInjective(r)
  <2> SUFFICES ASSUME NEW a \in DOMAIN r, NEW b \in DOMAIN r, r[a] = r[b]
               PROVE  a = b
    BY DEF IsInjective
  <2>1. a + 1 = b + 1
    BY <1>3 DEF IsInjective
  <2> QED BY <2>1, <1>3
<1>5. ToSet(r) = ToSet(s) \ {Head(s)}
  <2>1. \A x \in ToSet(r) : x \in ToSet(s) /\ x # Head(s)
    BY <1>1, <1>2, <1>3 DEF ToSet, IsInjective
  <2>2. ASSUME NEW x \in ToSet(s), x # Head(s) PROVE x \in ToSet(r)
    <3>1. PICK i \in DOMAIN s : x = s[i]
      BY DEF ToSet
    <3>2. i - 1 \in DOMAIN r /\ (i - 1) + 1 = i
      BY <3>1, <2>2, <1>1
    <3>3. r[i - 1] = x
      BY <3>1, <3>2, <1>3
    <3> QED BY <3>2, <3>3 DEF ToSet
  <2> QED BY <2>1, <2>2
<1> QED BY <1>1, <1>2, <1>4, <1>5 DEF r, ToSet

\* list_delete in the middle of a queue: what is left is what was there but
\* for the element cut out.
LEMMA CutElements ==
    ASSUME NEW S, NEW s \in Seq(S), NEW n \in 1 .. Len(s)
    PROVE  /\ RemoveAt(s, n) \in Seq(S)
           /\ Len(RemoveAt(s, n)) = Len(s) - 1
           /\ \A k \in 1 .. Len(s) - 1 :
                 RemoveAt(s, n)[k] = IF k < n THEN s[k] ELSE s[k + 1]
<1> DEFINE a == SubSeq(s, 1, n - 1)
           b == SubSeq(s, n + 1, Len(s))
<1>1. /\ a \in Seq(S) /\ Len(a) = n - 1
      /\ \A k \in 1 .. n - 1 : a[k] = s[k]
  <2>1. \A i \in 1 .. n - 1 : s[i] \in S
    OBVIOUS
  <2>2. 1 \in Int /\ n - 1 \in Int
    OBVIOUS
  <2> QED BY <2>1, <2>2, SubSeqProperties
<1>2. /\ b \in Seq(S) /\ Len(b) = Len(s) - n
      /\ \A k \in 1 .. Len(s) - n : b[k] = s[n + k]
  <2>1. \A i \in n + 1 .. Len(s) : s[i] \in S
    OBVIOUS
  <2>2. Len(s) \in Int /\ n + 1 \in Int
    OBVIOUS
  <2>3. /\ b \in Seq(S)
        /\ Len(b) = IF n + 1 <= Len(s) THEN Len(s) - (n + 1) + 1 ELSE 0
        /\ \A i \in 1 .. Len(s) - (n + 1) + 1 : b[i] = s[(n + 1) + i - 1]
    BY <2>1, <2>2, SubSeqProperties
  <2> QED BY <2>3
<1>3. RemoveAt(s, n) = a \o b
  BY DEF RemoveAt
<1> HIDE DEF a, b
<1>4. /\ a \o b \in Seq(S)
      /\ Len(a \o b) = Len(a) + Len(b)
      /\ \A i \in 1 .. Len(a) + Len(b) :
            (a \o b)[i] = IF i <= Len(a) THEN a[i] ELSE b[i - Len(a)]
  BY <1>1, <1>2, ConcatProperties
<1>5. ASSUME NEW k \in 1 .. Len(s) - 1
      PROVE  (a \o b)[k] = IF k < n THEN s[k] ELSE s[k + 1]
  <2>1. CASE k < n
    BY <2>1, <1>1, <1>2, <1>4
  <2>2. CASE ~ (k < n)
    <3>1. (a \o b)[k] = b[k - (n - 1)] /\ k - (n - 1) \in 1 .. Len(s) - n
      BY <2>2, <1>1, <1>2, <1>4
    <3>2. b[k - (n - 1)] = s[n + (k - (n - 1))]
      BY <3>1, <1>2
    <3>3. n + (k - (n - 1)) = k + 1
      OBVIOUS
    <3> QED BY <2>2, <3>1, <3>2, <3>3
  <2> QED BY <2>1, <2>2
<1> QED BY <1>1, <1>2, <1>3, <1>4, <1>5

\* A thread that times out is cut out of its queue wherever it stands: the
\* others stay, each once.
LEMMA CutOut ==
    ASSUME NEW S, NEW s \in Seq(S), IsInjective(s), NEW n \in DOMAIN s
    PROVE  /\ RemoveAt(s, n) \in Seq(S)
           /\ Len(RemoveAt(s, n)) = Len(s) - 1
           /\ IsInjective(RemoveAt(s, n))
           /\ ToSet(RemoveAt(s, n)) = ToSet(s) \ {s[n]}
<1> DEFINE r == RemoveAt(s, n)
<1>1. /\ Len(s) \in Nat
      /\ DOMAIN s = 1 .. Len(s)
      /\ n \in 1 .. Len(s)
  OBVIOUS
<1>2. /\ r \in Seq(S)
      /\ Len(r) = Len(s) - 1
      /\ \A k \in 1 .. Len(s) - 1 : r[k] = IF k < n THEN s[k] ELSE s[k + 1]
  BY <1>1, CutElements
<1>3. DOMAIN r = 1 .. Len(s) - 1
  BY <1>1, <1>2
<1> HIDE DEF r
<1>4. \A k \in DOMAIN r : \/ k < n /\ k \in DOMAIN s /\ r[k] = s[k]
                          \/ k >= n /\ k + 1 \in DOMAIN s /\ r[k] = s[k + 1]
  BY <1>1, <1>2, <1>3
<1>5. IsInjective(r)
  <2> SUFFICES ASSUME NEW a \in DOMAIN r, NEW b \in DOMAIN r, r[a] = r[b]
               PROVE  a = b
    BY DEF IsInjective
  <2>1. a \in Int /\ b \in Int /\ n \in Int
    BY <1>1, <1>3
  <2>2. CASE a < n /\ b < n
    BY <2>1, <2>2, <1>4 DEF IsInjective
  <2>3. CASE a >= n /\ b >= n
    <3>1. a + 1 = b + 1
      BY <2>1, <2>3, <1>4 DEF IsInjective
    <3> QED BY <3>1, <2>1
  <2>4. CASE a < n /\ b >= n
    <3>1. a = b + 1
      BY <2>1, <2>4, <1>4 DEF IsInjective
    <3> QED BY <3>1, <2>1, <2>4
  <2>5. CASE a >= n /\ b < n
    <3>1. a + 1 = b
      BY <2>1, <2>5, <1>4 DEF IsInjective
    <3> QED BY <3>1, <2>1, <2>5
  <2> QED BY <2>1, <2>2, <2>3, <2>4, <2>5
<1>6. ToSet(r) = ToSet(s) \ {s[n]}
  <2>1. ASSUME NEW x \in ToSet(r) PROVE x \in ToSet(s) /\ x # s[n]
    <3>1. PICK k \in DOMAIN r : x = r[k]
      BY DEF ToSet
    <3>2. CASE k < n /\ k \in DOMAIN s /\ r[k] = s[k]
      BY <3>1, <3>2, <1>1 DEF ToSet, IsInjective
    <3>3. CASE k >= n /\ k + 1 \in DOMAIN s /\ r[k] = s[k + 1]
      <4>1. k + 1 # n
        BY <3>3, <1>1, <1>3
      <4> QED BY <3>1, <3>3, <4>1 DEF ToSet, IsInjective
    <3> QED BY <3>2, <3>3, <1>4
  <2>2. ASSUME NEW x \in ToSet(s), x # s[n] PROVE x \in ToSet(r)
    <3>1. PICK i \in DOMAIN s : x = s[i]
      BY DEF ToSet
    <3>2. CASE i < n
      <4>1. i \in DOMAIN r /\ r[i] = s[i]
        BY <3>1, <3>2, <1>1, <1>2, <1>3
      <4> QED BY <4>1, <3>1 DEF ToSet
    <3>3. CASE i > n
      <4>1. i - 1 \in DOMAIN r /\ ~ (i - 1 < n) /\ (i - 1) + 1 = i
        BY <3>1, <3>3, <1>1, <1>3
      <4>2. r[i - 1] = s[i]
        BY <4>1, <1>2, <1>3
      <4> QED BY <4>1, <4>2, <3>1 DEF ToSet
    <3> QED BY <3>1, <3>2, <3>3, <2>2, <1>1
  <2> QED BY <2>1, <2>2
<1> QED BY <1>2, <1>5, <1>6 DEF r

-----------------------------------------------------------------------------
(* The run queue                                                           *)

RunQueues == [list : [Priorities -> Seq(Threads)], bitmap : SUBSET Priorities]

\* Only the set of ready threads matters to the run queue.
LEMMA SameReady ==
    ASSUME NEW st, NEW st2, NEW q, RunQueueOK(st, q, priority),
           \A t \in Threads : st[t] = "READY" <=> st2[t] = "READY"
    PROVE  RunQueueOK(st2, q, priority)
BY DEF RunQueueOK

\* A thread that was not ready becomes ready at one end of its list.
LEMMA InsertReady ==
    ASSUME NEW st \in [Threads -> States], NEW q \in RunQueues,
           NEW t \in Threads, priority \in [Threads -> Priorities],
           RunQueueOK(st, q, priority), st[t] # "READY",
           NEW r \in RunQueues,
           r = insert_in_run_queue_head(q, t) \/ r = insert_in_run_queue_tail(q, t)
    PROVE  RunQueueOK([st EXCEPT ![t] = "READY"], r, priority)
<1> DEFINE n == [st EXCEPT ![t] = "READY"]
           m == priority[t]
           old == q.list[m]
<1>1. m \in Priorities /\ old \in Seq(Threads)
  BY DEF RunQueues
<1>2. IsInjective(old) /\ t \notin ToSet(old)
        /\ ToSet(old) = {u \in Threads : st[u] = "READY" /\ priority[u] = m}
  BY <1>1 DEF RunQueueOK
<1>3. PICK new : /\ new = <<t>> \o old \/ new = Append(old, t)
                 /\ r.list = [q.list EXCEPT ![m] = new]
                 /\ r.bitmap = q.bitmap \cup {m}
  <2>1. CASE r = insert_in_run_queue_head(q, t)
    BY <2>1 DEF insert_in_run_queue_head
  <2>2. CASE r = insert_in_run_queue_tail(q, t)
    BY <2>2 DEF insert_in_run_queue_tail
  <2> QED BY <2>1, <2>2
<1>4. /\ IsInjective(new) /\ new # <<>>
      /\ ToSet(new) = ToSet(old) \cup {t}
  <2> HIDE DEF m, old
  <2>1. CASE new = <<t>> \o old
    BY <2>1, <1>1, <1>2, PushFront
  <2>2. CASE new = Append(old, t)
    BY <2>2, <1>1, <1>2, PushBack
  <2> QED BY <2>1, <2>2, <1>3
<1>5. r.list[m] = new /\ \A p \in Priorities : p # m => r.list[p] = q.list[p]
  <2>1. q.list \in [Priorities -> Seq(Threads)]
    BY DEF RunQueues
  <2> HIDE DEF old
  <2> QED BY <1>1, <1>3, <2>1
<1>6. \A u \in Threads : n[u] = IF u = t THEN "READY" ELSE st[u]
  OBVIOUS
<1> HIDE DEF n
<1> SUFFICES ASSUME NEW p \in Priorities
             PROVE  /\ IsInjective(r.list[p])
                    /\ ToSet(r.list[p]) = {u \in Threads : n[u] = "READY" /\ priority[u] = p}
                    /\ p \in r.bitmap <=> r.list[p] # <<>>
  BY DEF RunQueueOK, n
<1>7. CASE p = m
  <2> HIDE DEF old
  <2>1. {u \in Threads : n[u] = "READY" /\ priority[u] = p}
          = {u \in Threads : st[u] = "READY" /\ priority[u] = p} \cup {t}
    BY <1>6, <1>7
  <2> QED BY <2>1, <1>2, <1>3, <1>4, <1>5, <1>7
<1>8. CASE p # m
  <2>1. r.list[p] = q.list[p] /\ (p \in r.bitmap <=> p \in q.bitmap)
    BY <1>3, <1>5, <1>8
  <2>2. {u \in Threads : n[u] = "READY" /\ priority[u] = p}
          = {u \in Threads : st[u] = "READY" /\ priority[u] = p}
    BY <1>6, <1>8
  <2> QED BY <2>1, <2>2 DEF RunQueueOK
<1> QED BY <1>7, <1>8

\* The run queue keeps its shape through an insertion at either end.
LEMMA InsertType ==
    ASSUME NEW q \in RunQueues, NEW t \in Threads,
           priority \in [Threads -> Priorities]
    PROVE  /\ insert_in_run_queue_head(q, t) \in RunQueues
           /\ insert_in_run_queue_tail(q, t) \in RunQueues
<1>1. priority[t] \in Priorities
  OBVIOUS
<1>2. q.list \in [Priorities -> Seq(Threads)] /\ q.bitmap \subseteq Priorities
  BY DEF RunQueues
<1>3. <<t>> \o q.list[priority[t]] \in Seq(Threads)
        /\ Append(q.list[priority[t]], t) \in Seq(Threads)
  BY <1>1, <1>2
<1> QED BY <1>1, <1>2, <1>3
      DEF RunQueues, insert_in_run_queue_head, insert_in_run_queue_tail

\* thread_resched takes a ready thread of the highest priority out of the run
\* queue and makes it the running one.
LEMMA Resched ==
    ASSUME NEW st \in [Threads -> States], NEW q \in RunQueues,
           NEW qn \in [Threads -> 0..Quantum], NEW c \in Int,
           priority \in [Threads -> Priorities],
           saved \in [Threads -> Int], current \in Threads,
           RunQueueOK(st, q, priority),
           NEW r \in Threads, st[r] = "READY",
           thread_resched(st, q, qn, c)
    PROVE  /\ current' \in Threads
           /\ st[current'] = "READY"
           /\ state' = [st EXCEPT ![current'] = "RUNNING"]
           /\ runq' \in RunQueues
           /\ RunQueueOK(state', runq', priority)
           /\ quantum' \in [Threads -> 0..Quantum]
           /\ saved' \in [Threads -> Int]
           /\ csc' \in Int
           /\ \A t \in Threads : st[t] = "READY" => priority[t] <= priority[current']
<1> DEFINE h == HighestOf(q.bitmap)
           l == q.list[h]
<1>0. q.list \in [Priorities -> Seq(Threads)] /\ q.bitmap \subseteq Priorities
  BY DEF RunQueues
<1>1. \A t \in Threads : st[t] = "READY" => priority[t] \in q.bitmap
  <2> SUFFICES ASSUME NEW t \in Threads, st[t] = "READY"
               PROVE  priority[t] \in q.bitmap
    OBVIOUS
  <2>1. t \in ToSet(q.list[priority[t]])
    BY DEF RunQueueOK
  <2>2. q.list[priority[t]] # <<>>
    BY <2>1 DEF ToSet
  <2> QED BY <2>2 DEF RunQueueOK
<1>2. h \in q.bitmap /\ h \in Priorities
  BY <1>0, <1>1, HighestOfIn
<1>3. \A p \in q.bitmap : p <= h
  BY <1>0, <1>1, HighestOfIn
<1>4. /\ l \in Seq(Threads) /\ l # <<>> /\ IsInjective(l)
      /\ ToSet(l) = {t \in Threads : st[t] = "READY" /\ priority[t] = h}
  BY <1>0, <1>2 DEF RunQueueOK
<1>5. /\ current' = Head(l)
      /\ state' = [st EXCEPT ![Head(l)] = "RUNNING"]
      /\ runq' = [list |-> [q.list EXCEPT ![h] = Tail(l)],
                  bitmap |-> IF Tail(l) = <<>> THEN q.bitmap \ {h} ELSE q.bitmap]
      /\ quantum' = IF Head(l) # current /\ qn[Head(l)] <= 0
                    THEN [qn EXCEPT ![Head(l)] = Quantum] ELSE qn
      /\ saved' = IF Head(l) # current THEN [saved EXCEPT ![current] = c] ELSE saved
      /\ csc' = IF Head(l) # current THEN saved[Head(l)] ELSE c
  BY DEF thread_resched
<1> HIDE DEF h, l
<1>6. /\ Head(l) \in Threads /\ Head(l) \in ToSet(l)
      /\ Tail(l) \in Seq(Threads)
      /\ IsInjective(Tail(l))
      /\ ToSet(Tail(l)) = ToSet(l) \ {Head(l)}
  BY <1>4, PopFront
<1>7. current' \in Threads /\ st[current'] = "READY" /\ priority[current'] = h
        /\ state' = [st EXCEPT ![current'] = "RUNNING"]
  BY <1>4, <1>5, <1>6
<1>8. runq' \in RunQueues
  BY <1>0, <1>2, <1>5, <1>6 DEF RunQueues
<1>9. ASSUME NEW p \in Priorities
      PROVE  /\ IsInjective(runq'.list[p])
             /\ ToSet(runq'.list[p]) = {t \in Threads : state'[t] = "READY" /\ priority[t] = p}
             /\ p \in runq'.bitmap <=> runq'.list[p] # <<>>
  <2>1. \A t \in Threads : state'[t] = "READY" <=> st[t] = "READY" /\ t # current'
    BY <1>7
  <2>2. CASE p = h
    <3>1. runq'.list[p] = Tail(l) /\ (p \in runq'.bitmap <=> Tail(l) # <<>>)
      BY <1>0, <1>2, <1>5, <2>2
    <3>2. {t \in Threads : state'[t] = "READY" /\ priority[t] = p} = ToSet(l) \ {Head(l)}
      BY <1>4, <1>5, <2>1, <2>2
    <3> QED BY <3>1, <3>2, <1>6
  <2>3. CASE p # h
    <3>1. runq'.list[p] = q.list[p] /\ (p \in runq'.bitmap <=> p \in q.bitmap)
      BY <1>0, <1>5, <2>3
    <3>2. {t \in Threads : state'[t] = "READY" /\ priority[t] = p}
            = {t \in Threads : st[t] = "READY" /\ priority[t] = p}
      BY <1>7, <2>1, <2>3
    <3> QED BY <3>1, <3>2 DEF RunQueueOK
  <2> QED BY <2>2, <2>3
<1>10. RunQueueOK(state', runq', priority)
  BY <1>9 DEF RunQueueOK
<1>11. quantum' \in [Threads -> 0..Quantum]
  BY <1>5, <1>6, ConstantTypes, SMTT(30)
<1>12. saved' \in [Threads -> Int] /\ csc' \in Int
  BY <1>5, <1>6
<1>13. \A t \in Threads : st[t] = "READY" => priority[t] <= priority[current']
  BY <1>1, <1>3, <1>7
<1> QED BY <1>7, <1>8, <1>10, <1>11, <1>12, <1>13

-----------------------------------------------------------------------------
(* The wait queues                                                         *)

\* Only the set of blocked threads matters to the wait queues.
LEMMA SameBlocked ==
    ASSUME NEW st, NEW st2, NEW wq, NEW wc, NEW on, WaitQueueOK(st, wq, wc, on),
           \A t \in Threads : st[t] = "BLOCKED" <=> st2[t] = "BLOCKED"
    PROVE  WaitQueueOK(st2, wq, wc, on)
<1>1. ASSUME NEW w \in WaitQueues
      PROVE  {t \in Threads : st2[t] = "BLOCKED" /\ on[t] = w}
               = {t \in Threads : st[t] = "BLOCKED" /\ on[t] = w}
  OBVIOUS
<1> QED BY <1>1 DEF WaitQueueOK

\* A thread that was not blocked joins a wait queue at its tail.
LEMMA Enqueue ==
    ASSUME NEW st \in [Threads -> States], NEW wq \in [WaitQueues -> Seq(Threads)],
           NEW wc \in [WaitQueues -> Int],
           NEW on \in [Threads -> WaitQueues \cup {None}],
           WaitQueueOK(st, wq, wc, on),
           NEW t \in Threads, st[t] # "BLOCKED", NEW w \in WaitQueues
    PROVE  /\ WaitQueueOK([st EXCEPT ![t] = "BLOCKED"],
                          [wq EXCEPT ![w] = Append(@, t)],
                          [wc EXCEPT ![w] = @ + 1], [on EXCEPT ![t] = w])
           /\ [wq EXCEPT ![w] = Append(@, t)] \in [WaitQueues -> Seq(Threads)]
<1> DEFINE st2 == [st EXCEPT ![t] = "BLOCKED"]
           on2 == [on EXCEPT ![t] = w]
           wc2 == [wc EXCEPT ![w] = @ + 1]
           old == wq[w]
           new == Append(old, t)
           wq2 == [wq EXCEPT ![w] = new]
<1>1. old \in Seq(Threads) /\ IsInjective(old) /\ t \notin ToSet(old)
        /\ ToSet(old) = {u \in Threads : st[u] = "BLOCKED" /\ on[u] = w}
        /\ wc[w] = Len(old)
  BY DEF WaitQueueOK
<1>2. \A u \in Threads : /\ st2[u] = IF u = t THEN "BLOCKED" ELSE st[u]
                         /\ on2[u] = IF u = t THEN w ELSE on[u]
  OBVIOUS
<1>3. /\ new \in Seq(Threads) /\ IsInjective(new) /\ Len(new) = Len(old) + 1
      /\ ToSet(new) = ToSet(old) \cup {t}
  <2> HIDE DEF old
  <2> QED BY <1>1, PushBack
<1>4. /\ wq2 \in [WaitQueues -> Seq(Threads)]
      /\ wq2[w] = new
      /\ wc2[w] = Len(new)
      /\ \A v \in WaitQueues : v # w => wq2[v] = wq[v] /\ wc2[v] = wc[v]
  <2> HIDE DEF new, old
  <2> QED BY <1>1, <1>3
<1> HIDE DEF st2, on2, wc2, wq2
<1>5. ASSUME NEW v \in WaitQueues
      PROVE  /\ IsInjective(wq2[v])
             /\ ToSet(wq2[v]) = {u \in Threads : st2[u] = "BLOCKED" /\ on2[u] = v}
             /\ wc2[v] = Len(wq2[v])
  <2>1. CASE v = w
    <3> HIDE DEF new, old
    <3>1. {u \in Threads : st2[u] = "BLOCKED" /\ on2[u] = w} = ToSet(old) \cup {t}
      BY <1>1, <1>2
    <3> QED BY <2>1, <3>1, <1>3, <1>4
  <2>2. CASE v # w
    <3> HIDE DEF new, old
    <3>1. {u \in Threads : st2[u] = "BLOCKED" /\ on2[u] = v}
            = {u \in Threads : st[u] = "BLOCKED" /\ on[u] = v}
      BY <1>2, <2>2
    <3> QED BY <2>2, <3>1, <1>4 DEF WaitQueueOK
  <2> QED BY <2>1, <2>2
<1>6. \A u \in Threads : st2[u] = "BLOCKED" => on2[u] \in WaitQueues
  BY <1>2 DEF WaitQueueOK
<1>7. WaitQueueOK(st2, wq2, wc2, on2)
  BY <1>5, <1>6 DEF WaitQueueOK
<1> QED BY <1>4, <1>7 DEF st2, on2, wc2, wq2, new, old

\* A thread leaves the wait queue it is blocked on; rest are the other waiters.
LEMMA Dequeue ==
    ASSUME NEW st \in [Threads -> States], NEW wq \in [WaitQueues -> Seq(Threads)],
           NEW wc \in [WaitQueues -> Int],
           NEW on \in [Threads -> WaitQueues \cup {None}],
           WaitQueueOK(st, wq, wc, on),
           NEW t \in Threads, NEW w \in WaitQueues,
           NEW rest \in Seq(Threads), IsInjective(rest),
           Len(rest) = Len(wq[w]) - 1, ToSet(rest) = ToSet(wq[w]) \ {t},
           st[t] = "BLOCKED", on[t] = w
    PROVE  /\ WaitQueueOK([st EXCEPT ![t] = "READY"],
                          [wq EXCEPT ![w] = rest],
                          [wc EXCEPT ![w] = @ - 1], [on EXCEPT ![t] = None])
           /\ [wq EXCEPT ![w] = rest] \in [WaitQueues -> Seq(Threads)]
<1> DEFINE st2 == [st EXCEPT ![t] = "READY"]
           on2 == [on EXCEPT ![t] = None]
           wc2 == [wc EXCEPT ![w] = @ - 1]
           wq2 == [wq EXCEPT ![w] = rest]
<1>1. ToSet(wq[w]) = {u \in Threads : st[u] = "BLOCKED" /\ on[u] = w}
        /\ wc[w] = Len(wq[w])
  BY DEF WaitQueueOK
<1>2. \A u \in Threads : /\ st2[u] = IF u = t THEN "READY" ELSE st[u]
                         /\ on2[u] = IF u = t THEN None ELSE on[u]
  OBVIOUS
<1>3. /\ wq2 \in [WaitQueues -> Seq(Threads)]
      /\ wq2[w] = rest
      /\ wc2[w] = Len(rest)
      /\ \A v \in WaitQueues : v # w => wq2[v] = wq[v] /\ wc2[v] = wc[v]
  BY <1>1
<1> HIDE DEF st2, on2, wc2, wq2
<1>4. ASSUME NEW v \in WaitQueues
      PROVE  /\ IsInjective(wq2[v])
             /\ ToSet(wq2[v]) = {u \in Threads : st2[u] = "BLOCKED" /\ on2[u] = v}
             /\ wc2[v] = Len(wq2[v])
  <2>1. CASE v = w
    <3>1. {u \in Threads : st2[u] = "BLOCKED" /\ on2[u] = w} = ToSet(wq[w]) \ {t}
      BY <1>1, <1>2
    <3> QED BY <2>1, <3>1, <1>3
  <2>2. CASE v # w
    <3>1. {u \in Threads : st2[u] = "BLOCKED" /\ on2[u] = v}
            = {u \in Threads : st[u] = "BLOCKED" /\ on[u] = v}
      BY <1>2, <2>2
    <3> QED BY <2>2, <3>1, <1>3 DEF WaitQueueOK
  <2> QED BY <2>1, <2>2
<1>5. \A u \in Threads : st2[u] = "BLOCKED" => on2[u] \in WaitQueues
  BY <1>2 DEF WaitQueueOK
<1>6. WaitQueueOK(st2, wq2, wc2, on2)
  BY <1>4, <1>5 DEF WaitQueueOK
<1> QED BY <1>3, <1>6 DEF st2, on2, wc2, wq2

-----------------------------------------------------------------------------
(* The timer queue                                                         *)

\* At most one entry of the timer queue tm wakes each sleeper of st.
SleepersOf(tm, st) ==
    \A i \in DOMAIN tm : tm[i].cb = "sleep" =>
        /\ st[tm[i].thread] = "SLEEPING"
        /\ \A j \in DOMAIN tm :
              tm[j].cb = "sleep" /\ tm[j].thread = tm[i].thread => i = j

\* A nonempty set of naturals has a least element.
LEMMA LeastNat ==
    ASSUME NEW D \in SUBSET Nat, D # {}
    PROVE  \E i \in D : \A j \in D : i <= j
<1> DEFINE R == OpToRel(<, Nat)
<1>1. IsWellFoundedOn(R, Nat)
  BY NatLessThanWellFounded
<1>2. PICK x \in D : \A y \in D : ~ (<<y, x>> \in R)
  <2> HIDE DEF R
  <2> QED BY <1>1, WFMin
<1>3. \A y \in D : x <= y
  <2> SUFFICES ASSUME NEW y \in D PROVE x <= y
    OBVIOUS
  <2>1. x \in Nat /\ y \in Nat
    OBVIOUS
  <2>2. ~ (y < x)
    BY <1>2, <2>1 DEF OpToRel
  <2> QED BY <2>1, <2>2
<1> QED BY <1>3

\* insert_timer_in_queue: the new timer is added to the ones queued, and each
\* of those is still there once.
LEMMA PutIn ==
    ASSUME NEW S, NEW s \in Seq(S), NEW e \in S, NEW n \in 1 .. Len(s) + 1
    PROVE  /\ InsertAt(s, n, e) \in Seq(S)
           /\ Len(InsertAt(s, n, e)) = Len(s) + 1
           /\ \A k \in 1 .. Len(s) + 1 :
                 InsertAt(s, n, e)[k] = IF k < n THEN s[k]
                                        ELSE IF k = n THEN e ELSE s[k - 1]
<1> DEFINE a == SubSeq(s, 1, n - 1)
           b == SubSeq(s, n, Len(s))
           c == a \o <<e>>
<1>1. /\ a \in Seq(S) /\ Len(a) = n - 1
      /\ \A k \in 1 .. n - 1 : a[k] = s[k]
  <2>1. \A i \in 1 .. n - 1 : s[i] \in S
    OBVIOUS
  <2>2. 1 \in Int /\ n - 1 \in Int
    OBVIOUS
  <2> QED BY <2>1, <2>2, SubSeqProperties
<1>2. /\ b \in Seq(S) /\ Len(b) = Len(s) - n + 1
      /\ \A k \in 1 .. Len(s) - n + 1 : b[k] = s[n + k - 1]
  <2>1. \A i \in n .. Len(s) : s[i] \in S
    OBVIOUS
  <2>2. Len(s) \in Int /\ n \in Int
    OBVIOUS
  <2> QED BY <2>1, <2>2, SubSeqProperties
<1>3. InsertAt(s, n, e) = c \o b
  BY DEF InsertAt
<1> HIDE DEF a, b
<1>4. /\ c \in Seq(S) /\ Len(c) = n
      /\ \A k \in 1 .. n : c[k] = IF k < n THEN s[k] ELSE e
  BY <1>1
<1> HIDE DEF c
<1>5. /\ c \o b \in Seq(S)
      /\ Len(c \o b) = Len(c) + Len(b)
      /\ \A i \in 1 .. Len(c) + Len(b) :
            (c \o b)[i] = IF i <= Len(c) THEN c[i] ELSE b[i - Len(c)]
  BY <1>2, <1>4, ConcatProperties
<1>6. ASSUME NEW k \in 1 .. Len(s) + 1
      PROVE  (c \o b)[k] = IF k < n THEN s[k] ELSE IF k = n THEN e ELSE s[k - 1]
  <2>1. CASE k <= n
    BY <2>1, <1>2, <1>4, <1>5
  <2>2. CASE ~ (k <= n)
    <3>1. (c \o b)[k] = b[k - n] /\ k - n \in 1 .. Len(s) - n + 1
      BY <2>2, <1>2, <1>4, <1>5
    <3>2. b[k - n] = s[n + (k - n) - 1]
      BY <3>1, <1>2
    <3>3. n + (k - n) - 1 = k - 1
      OBVIOUS
    <3> QED BY <2>2, <3>1, <3>2, <3>3
  <2> QED BY <2>1, <2>2
<1> QED BY <1>2, <1>3, <1>4, <1>5, <1>6

\* A timer of the current thread is queued; if it is to wake a sleeper, st is
\* the state in which the thread sleeps.
LEMMA QueueTimer ==
    ASSUME timers \in Seq(TimerEntries), NEW e \in TimerEntries,
           SleepersOf(timers, state), state[e.thread] # "SLEEPING",
           NEW st, \A t \in Threads : t # e.thread => (state[t] = "SLEEPING" => st[t] = "SLEEPING"),
           e.cb = "sleep" => st[e.thread] = "SLEEPING",
           insert_timer_in_queue(e)
    PROVE  timers' \in Seq(TimerEntries) /\ SleepersOf(timers', st)
<1> DEFINE later == {i \in DOMAIN timers : timers[i].left > e.left}
<1>1. PICK n \in 1 .. Len(timers) + 1 : timers' = InsertAt(timers, n, e)
  <2>1. CASE later = {}
    <3>1. timers' = InsertAt(timers, Len(timers) + 1, e)
      BY <2>1 DEF insert_timer_in_queue
    <3> QED BY <3>1
  <2>2. CASE later # {}
    <3>1. later \in SUBSET Nat
      OBVIOUS
    <3>2. \E i \in later : \A j \in later : i <= j
      <4> HIDE DEF later
      <4> QED BY <2>2, <3>1, LeastNat
    <3>3. PICK m : m = CHOOSE i \in later : \A j \in later : i <= j
      OBVIOUS
    <3>4. m \in later
      <4> HIDE DEF later
      <4> QED BY <3>2, <3>3
    <3>5. timers' = InsertAt(timers, m, e)
      BY <2>2, <3>3 DEF insert_timer_in_queue
    <3> QED BY <3>4, <3>5
  <2> QED BY <2>1, <2>2
<1> DEFINE r == InsertAt(timers, n, e)
<1>2. /\ r \in Seq(TimerEntries) /\ Len(r) = Len(timers) + 1
      /\ \A k \in 1 .. Len(timers) + 1 :
            r[k] = IF k < n THEN timers[k] ELSE IF k = n THEN e ELSE timers[k - 1]
  BY PutIn
<1> HIDE DEF r
<1> DEFINE f(k) == IF k < n THEN k ELSE k - 1
<1>3. \A k \in DOMAIN r : \/ k = n /\ r[k] = e
                          \/ k # n /\ f(k) \in DOMAIN timers /\ r[k] = timers[f(k)]
  BY <1>2
<1>4. \A j, k \in DOMAIN r : j # n /\ k # n /\ f(j) = f(k) => j = k
  BY <1>2
<1>5. \A i \in DOMAIN timers : timers[i] \in TimerEntries
  OBVIOUS
<1> HIDE DEF f
<1>6. ASSUME NEW k \in DOMAIN r, r[k].cb = "sleep"
      PROVE  /\ st[r[k].thread] = "SLEEPING"
             /\ \A j \in DOMAIN r : r[j].cb = "sleep" /\ r[j].thread = r[k].thread => k = j
  <2>1. CASE k = n
    BY <2>1, <1>3, <1>6 DEF SleepersOf
  <2>2. CASE k # n
    <3>1. f(k) \in DOMAIN timers /\ r[k] = timers[f(k)]
      BY <2>2, <1>3
    <3>2. r[k].thread \in Threads /\ state[r[k].thread] = "SLEEPING"
      BY <3>1, <1>5, <1>6 DEF SleepersOf, TimerEntries
    <3>3. \A j \in DOMAIN r : r[j].cb = "sleep" /\ r[j].thread = r[k].thread => k = j
      BY <2>2, <3>1, <3>2, <1>3, <1>4, <1>6 DEF SleepersOf
    <3> QED BY <3>2, <3>3
  <2> QED BY <2>1, <2>2
<1> QED BY <1>1, <1>2, <1>6 DEF SleepersOf, r

\* The first timer has expired: those that are left still wake each one sleeper.
LEMMA FirstTimer ==
    ASSUME NEW tm \in Seq(TimerEntries), NEW st \in [Threads -> States],
           SleepersOf(tm, st), tm # <<>>
    PROVE  /\ Head(tm) \in TimerEntries
           /\ Tail(tm) \in Seq(TimerEntries)
           /\ SleepersOf(Tail(tm), st)
           /\ Head(tm).cb = "sleep" =>
                /\ st[Head(tm).thread] = "SLEEPING"
                /\ SleepersOf(Tail(tm), [st EXCEPT ![Head(tm).thread] = "READY"])
<1> DEFINE r == Tail(tm)
<1>1. /\ Len(tm) \in Nat /\ Len(tm) > 0 /\ DOMAIN tm = 1 .. Len(tm)
      /\ r \in Seq(TimerEntries) /\ DOMAIN r = 1 .. Len(tm) - 1
      /\ \A i \in 1 .. Len(tm) - 1 : r[i] = tm[i + 1]
      /\ Head(tm) = tm[1] /\ tm[1] \in TimerEntries
  OBVIOUS
<1> HIDE DEF r
<1>2. \A i \in DOMAIN r : i \in Int /\ i + 1 \in DOMAIN tm /\ i + 1 # 1
                            /\ r[i] = tm[i + 1]
  BY <1>1
<1>3. 1 \in DOMAIN tm
  BY <1>1
<1>4. ASSUME NEW i \in DOMAIN r, r[i].cb = "sleep"
      PROVE  /\ st[r[i].thread] = "SLEEPING"
             /\ \A j \in DOMAIN r : r[j].cb = "sleep" /\ r[j].thread = r[i].thread => i = j
             /\ Head(tm).cb = "sleep" => r[i].thread # Head(tm).thread
  <2>1. i + 1 \in DOMAIN tm /\ tm[i + 1].cb = "sleep" /\ i + 1 # 1 /\ r[i] = tm[i + 1]
    BY <1>2, <1>4
  <2>2. \A j \in DOMAIN r : r[j].cb = "sleep" /\ r[j].thread = r[i].thread => i + 1 = j + 1
    BY <1>2, <2>1 DEF SleepersOf
  <2>3. \A j \in DOMAIN r : i + 1 = j + 1 => i = j
    BY <1>2
  <2>4. tm[1].cb = "sleep" => tm[i + 1].thread # tm[1].thread
    BY <1>3, <2>1 DEF SleepersOf
  <2> QED BY <1>1, <2>1, <2>2, <2>3, <2>4 DEF SleepersOf
<1>5. SleepersOf(r, st)
  BY <1>4 DEF SleepersOf
<1>6. ASSUME Head(tm).cb = "sleep"
      PROVE  /\ st[Head(tm).thread] = "SLEEPING"
             /\ SleepersOf(r, [st EXCEPT ![Head(tm).thread] = "READY"])
  <2>1. \A i \in DOMAIN r : r[i].cb = "sleep" =>
           [st EXCEPT ![Head(tm).thread] = "READY"][r[i].thread] = st[r[i].thread]
    <3> SUFFICES ASSUME NEW i \in DOMAIN r, r[i].cb = "sleep"
                 PROVE  [st EXCEPT ![Head(tm).thread] = "READY"][r[i].thread]
                          = st[r[i].thread]
      OBVIOUS
    <3>1. r[i] \in TimerEntries
      BY <1>1
    <3>2. r[i].thread \in Threads
      BY <3>1 DEF TimerEntries
    <3> QED BY <3>2, <1>4, <1>6
  <2> QED BY <2>1, <1>1, <1>3, <1>4, <1>6 DEF SleepersOf
<1> QED BY <1>1, <1>5, <1>6 DEF r

\* Cancelling a timer leaves the others.
LEMMA CancelTimer ==
    ASSUME timers \in Seq(TimerEntries), SleepersOf(timers, state),
           NEW t, timer_cancel(t)
    PROVE  timers' \in Seq(TimerEntries) /\ SleepersOf(timers', state)
<1>1. CASE timers' = timers
  BY <1>1
<1>2. CASE timers' # timers
  <2>1. PICK n \in DOMAIN timers : timers' = RemoveAt(timers, n)
    <3>1. \E i \in DOMAIN timers : timers[i].thread = t
      BY <1>2 DEF timer_cancel
    <3>2. (CHOOSE i \in DOMAIN timers : timers[i].thread = t) \in DOMAIN timers
      BY <3>1
    <3> QED BY <3>1, <3>2 DEF timer_cancel
  <2> DEFINE r == RemoveAt(timers, n)
             f(k) == IF k < n THEN k ELSE k + 1
  <2>2. /\ r \in Seq(TimerEntries)
        /\ Len(r) = Len(timers) - 1
        /\ \A k \in 1 .. Len(timers) - 1 :
              r[k] = IF k < n THEN timers[k] ELSE timers[k + 1]
    <3>1. n \in 1 .. Len(timers)
      OBVIOUS
    <3> QED BY <3>1, CutElements
  <2> HIDE DEF r
  <2>3. \A k \in DOMAIN r : f(k) \in DOMAIN timers /\ r[k] = timers[f(k)]
    BY <2>2
  <2>4. \A j, k \in DOMAIN r : f(j) = f(k) => j = k
    BY <2>2
  <2> HIDE DEF f
  <2>5. SleepersOf(r, state)
    BY <2>3, <2>4 DEF SleepersOf
  <2> QED BY <2>1, <2>2, <2>5 DEF r
<1> QED BY <1>1, <1>2

-----------------------------------------------------------------------------
(* The inductive invariant                                                 *)

IInv == TypeOK /\ RunQueueInv /\ WaitQueueInv /\ CurrentInv
        /\ SleepersOf(timers, state)

\* What a step promises of the thread it switches to: it was waiting for the
\* processor, or the step itself made it ready, and no ready one is above it.
Top == current' # current =>
         /\ state[current'] \in {"READY", "SUSPENDED", "BLOCKED"}
         /\ \A t \in Threads : state'[t] = "READY" => priority'[t] <= priority'[current']

\* The threads a call makes ready are its caller, a suspended or a blocked one.
Readied(st) == \A t \in Threads \ {current} :
                  st[t] = "READY" => state[t] \in {"READY", "SUSPENDED", "BLOCKED"}

\* The parts of the invariant a switch to another thread disturbs, after a
\* switch from the states st.
Switched(st) ==
    /\ current' \in Threads
    /\ state' \in [Threads -> States]
    /\ runq' \in RunQueues
    /\ RunQueueOK(state', runq', priority)
    /\ quantum' \in [Threads -> 0..Quantum]
    /\ saved' \in [Threads -> Int]
    /\ csc' \in Int
    /\ st[current'] = "READY"
    /\ state'[current'] = "RUNNING"
    /\ state'[Idle] \in {"READY", "RUNNING"}
    /\ \A t \in Threads :
          /\ state'[t] = "RUNNING" => t = current'
          /\ state'[t] = "BLOCKED" <=> st[t] = "BLOCKED"
          /\ st[t] = "SLEEPING" => state'[t] = "SLEEPING"
          /\ state'[t] = "READY" => priority[t] <= priority[current']

\* thread_resched never picks a thread below the highest priority that is
\* ready.
LEMMA SwitchStep ==
    ASSUME IInv, NEW st \in [Threads -> States], NEW q \in RunQueues,
           NEW qn \in [Threads -> 0..Quantum], NEW c \in Int,
           RunQueueOK(st, q, priority), thread_resched(st, q, qn, c),
           \A t \in Threads : st[t] # "RUNNING", st[Idle] = "READY"
    PROVE  Switched(st)
<1>1. /\ priority \in [Threads -> Priorities]
      /\ saved \in [Threads -> Int] /\ current \in Threads /\ Idle \in Threads
  BY ConstantTypes DEF IInv, TypeOK
<1>2. /\ current' \in Threads
      /\ st[current'] = "READY"
      /\ state' = [st EXCEPT ![current'] = "RUNNING"]
      /\ runq' \in RunQueues
      /\ RunQueueOK(state', runq', priority)
      /\ quantum' \in [Threads -> 0..Quantum]
      /\ saved' \in [Threads -> Int]
      /\ csc' \in Int
      /\ \A t \in Threads : st[t] = "READY" => priority[t] <= priority[current']
  BY <1>1, Resched
<1>3. \A t \in Threads : state'[t] = IF t = current' THEN "RUNNING" ELSE st[t]
  BY <1>2
<1>4. state' \in [Threads -> States]
  BY <1>2 DEF States
<1> QED BY <1>1, <1>2, <1>3, <1>4 DEF Switched

\* What is known when a thread calls the kernel.
LEMMA CallFacts ==
    ASSUME IInv, Calls
    PROVE  /\ current \in Threads /\ current # Idle /\ Idle \in Threads
           /\ state[current] = "RUNNING" /\ state[Idle] = "READY"
           /\ \A t \in Threads : state[t] = "RUNNING" => t = current
           /\ waking = None
           /\ runq \in RunQueues
           /\ RunQueueOK(state, runq, priority)
BY ConstantTypes DEF IInv, TypeOK, Calls, Interruptible, CurrentInv, RunQueueInv, RunQueues

-----------------------------------------------------------------------------

\* What the kernel's initialisation leaves behind satisfies the invariant.
LEMMA InitIInv == Init => IInv
<1> SUFFICES ASSUME Init PROVE IInv
  OBVIOUS
<1> USE DEF Init
<1>1. \A p \in Priorities : BootQueues[p] \in Seq(Threads \ {Idle})
                              /\ BootQueues[p] \in Seq(Threads)
  BY ThreadAssumption, ConstantTypes DEF ThreadAssumption
<1>2. \A p, q \in Priorities : \A t \in ToSet(BootQueues[p]) :
         t \in ToSet(BootQueues[q]) => p = q
  BY BootAssumption DEF BootAssumption, ToSet
<1>3. \A p \in Priorities : \A t \in ToSet(BootQueues[p]) :
         t \in Threads /\ t # Idle /\ t \in BootThreads
  BY <1>1 DEF ToSet, BootThreads
<1>4. ASSUME NEW t \in BootThreads
      PROVE  priority[t] \in Priorities /\ t \in ToSet(BootQueues[priority[t]])
  <2>1. \E p \in Priorities : t \in ToSet(BootQueues[p])
    BY DEF BootThreads
  <2>2. t \in Threads
    BY <2>1, <1>3
  <2>3. priority[t] = CHOOSE p \in Priorities : t \in ToSet(BootQueues[p])
    BY <2>2
  <2> QED BY <2>1, <2>3
<1>5. priority \in [Threads -> Priorities]
  <2>1. 0 \in Priorities /\ MaxPriority \in Priorities
    BY ConstantTypes DEF Priorities
  <2> QED BY <2>1, <1>4
<1>6. TypeOK
  <2>1. /\ current \in Threads /\ idle \in {None, Idle} /\ waking \in WakeLoops \cup {None}
        /\ csc \in Int /\ irq \in {"none", "tick", "preempt"}
    BY ConstantTypes
  <2>2. state \in [Threads -> States] /\ pc \in [Threads -> Frames]
    BY DEF States, Frames
  <2>3. quantum \in [Threads -> 0..Quantum] /\ saved \in [Threads -> Int]
    BY ConstantTypes
  <2>4. runq \in [list : [Priorities -> Seq(Threads)], bitmap : SUBSET Priorities]
    BY ConstantTypes
  <2>5. /\ waitq \in [WaitQueues -> Seq(Threads)] /\ wcount \in [WaitQueues -> Int]
        /\ blockedOn \in [Threads -> WaitQueues \cup {None}]
        /\ blockRet \in [Threads -> Results] /\ timers \in Seq(TimerEntries)
    BY DEF Results
  <2> QED BY <2>1, <2>2, <2>3, <2>4, <2>5, <1>5 DEF TypeOK
<1>7. RunQueueInv
  <2> SUFFICES ASSUME NEW p \in Priorities
               PROVE  /\ IsInjective(runq.list[p])
                      /\ ToSet(runq.list[p])
                           = {t \in Threads : state[t] = "READY" /\ priority[t] = p}
                      /\ p \in runq.bitmap <=> runq.list[p] # <<>>
    BY DEF RunQueueInv, RunQueueOK
  <2>1. runq.list[p] = BootQueues[p]
    OBVIOUS
  <2>2. IsInjective(BootQueues[p])
    BY BootAssumption DEF BootAssumption, IsInjective
  <2>3. \A t \in Threads : state[t] = "READY" <=> t \in BootThreads
    BY <1>3 DEF BootThreads
  <2>4. ToSet(BootQueues[p]) = {t \in Threads : state[t] = "READY" /\ priority[t] = p}
    <3>1. ASSUME NEW t \in ToSet(BootQueues[p])
          PROVE  t \in Threads /\ state[t] = "READY" /\ priority[t] = p
      <4>1. t \in Threads /\ t \in BootThreads
        BY <1>3
      <4>2. priority[t] \in Priorities /\ t \in ToSet(BootQueues[priority[t]])
        BY <4>1, <1>4
      <4> QED BY <4>1, <4>2, <1>2, <2>3
    <3>2. ASSUME NEW t \in Threads, state[t] = "READY", priority[t] = p
          PROVE  t \in ToSet(BootQueues[p])
      BY <3>2, <2>3, <1>4
    <3> QED BY <3>1, <3>2
  <2> QED BY <2>1, <2>2, <2>4
<1>8. WaitQueueInv
  BY DEF WaitQueueInv, WaitQueueOK, IsInjective, ToSet
<1>9. CurrentInv
  BY ConstantTypes DEF CurrentInv
<1>10. SleepersOf(timers, state)
  BY DEF SleepersOf
<1> QED BY <1>6, <1>7, <1>8, <1>9, <1>10 DEF IInv


\* The caller gives the processor away: it becomes ready in a run queue, or
\* goes to one of the states in which it is in none.
LEMMA CallerReady ==
    ASSUME IInv, Calls, NEW q \in RunQueues,
           q = insert_in_run_queue_head(runq, current)
           \/ q = insert_in_run_queue_tail(runq, current)
    PROVE  /\ RunQueueOK([state EXCEPT ![current] = "READY"], q, priority)
           /\ [state EXCEPT ![current] = "READY"] \in [Threads -> States]
<1>1. state \in [Threads -> States] /\ priority \in [Threads -> Priorities]
  BY DEF IInv, TypeOK
<1> QED BY <1>1, CallFacts, InsertReady DEF States

\* The caller of thread_exit, thread_sleep or wait_queue_block leaves the run
\* queue's business: it was in no list and stays in none.
LEMMA CallerGone ==
    ASSUME IInv, Calls, NEW s \in {"DEATH", "SLEEPING", "BLOCKED"}
    PROVE  /\ RunQueueOK([state EXCEPT ![current] = s], runq, priority)
           /\ [state EXCEPT ![current] = s] \in [Threads -> States]
<1>1. state \in [Threads -> States]
  BY DEF IInv, TypeOK
<1>2. /\ current \in Threads /\ state[current] = "RUNNING"
      /\ RunQueueOK(state, runq, priority)
  BY CallFacts
<1> DEFINE n == [state EXCEPT ![current] = s]
<1>3. \A t \in Threads : state[t] = "READY" <=> n[t] = "READY"
  BY <1>1, <1>2
<1> HIDE DEF n
<1>4. RunQueueOK(n, runq, priority)
  BY <1>2, <1>3, SameReady
<1> QED BY <1>1, <1>4 DEF n, States

\* After a switch the invariant holds if the step kept the rest of it.
LEMMA AfterSwitch ==
    ASSUME IInv, NEW st, Switched(st), Readied(st),
           priority' = priority, idle' = idle, waking' = None,
           irq' \in {"none", "tick", "preempt"},
           pc' \in [Threads -> Frames],
           waitq' \in [WaitQueues -> Seq(Threads)],
           wcount' \in [WaitQueues -> Int],
           blockedOn' \in [Threads -> WaitQueues \cup {None}],
           blockRet' \in [Threads -> Results],
           timers' \in Seq(TimerEntries),
           WaitQueueOK(st, waitq', wcount', blockedOn'),
           SleepersOf(timers', st)
    PROVE  IInv' /\ Top
<1>1. TypeOK'
  BY DEF Switched, RunQueues, IInv, TypeOK
<1>2. RunQueueInv'
  BY DEF Switched, RunQueueInv
<1>3. WaitQueueInv'
  <2>1. \A t \in Threads : st[t] = "BLOCKED" <=> state'[t] = "BLOCKED"
    BY DEF Switched
  <2> QED BY <2>1, SameBlocked DEF WaitQueueInv
<1>4. CurrentInv'
  BY DEF Switched, CurrentInv
<1>5. SleepersOf(timers', state')
  <2>1. \A i \in DOMAIN timers' : timers'[i] \in TimerEntries
    OBVIOUS
  <2>2. \A i \in DOMAIN timers' : timers'[i].thread \in Threads
    BY <2>1 DEF TimerEntries
  <2> QED BY <2>2 DEF SleepersOf, Switched
<1>6. Top
  BY DEF Switched, Top, Readied
<1> QED BY <1>1, <1>2, <1>3, <1>4, <1>5, <1>6 DEF IInv

\* The same for calls that leave the wait queues and the timers alone.
LEMMA KeptAfterSwitch ==
    ASSUME IInv, NEW st \in [Threads -> States], Switched(st), Readied(st),
           \A t \in Threads : state[t] \in {"BLOCKED", "SLEEPING"} => st[t] = state[t],
           \A t \in Threads : st[t] = "BLOCKED" => state[t] = "BLOCKED",
           UNCHANGED <<priority, idle, waitVars>>, waking' = None,
           irq' \in {"none", "tick", "preempt"},
           pc' \in [Threads -> Frames],
           timers' \in Seq(TimerEntries), SleepersOf(timers', st)
    PROVE  IInv' /\ Top
<1>1. WaitQueueOK(st, waitq, wcount, blockedOn)
  <2>1. WaitQueueOK(state, waitq, wcount, blockedOn)
    BY DEF IInv, WaitQueueInv
  <2>2. \A t \in Threads : state[t] = "BLOCKED" <=> st[t] = "BLOCKED"
    OBVIOUS
  <2> QED BY <2>1, <2>2, SameBlocked
<1>2. /\ waitq' = waitq /\ wcount' = wcount
      /\ blockedOn' = blockedOn /\ blockRet' = blockRet
  BY DEF waitVars
<1>3. WaitQueueOK(st, waitq', wcount', blockedOn')
  BY <1>1, <1>2
<1>4. /\ waitq' \in [WaitQueues -> Seq(Threads)]
      /\ wcount' \in [WaitQueues -> Int]
      /\ blockedOn' \in [Threads -> WaitQueues \cup {None}]
      /\ blockRet' \in [Threads -> Results]
  BY <1>2 DEF IInv, TypeOK
<1> QED BY <1>3, <1>4, AfterSwitch

\* Sleepers that stay asleep keep their timers.
LEMMA SameSleepers ==
    ASSUME timers \in Seq(TimerEntries), SleepersOf(timers, state), NEW st,
           \A t \in Threads : state[t] = "SLEEPING" => st[t] = "SLEEPING"
    PROVE  SleepersOf(timers, st)
<1>1. \A i \in DOMAIN timers : timers[i] \in TimerEntries
  OBVIOUS
<1>2. \A i \in DOMAIN timers : timers[i].thread \in Threads
  BY <1>1 DEF TimerEntries
<1> QED BY <1>2 DEF SleepersOf

\* Each call of the thread interface (create, resume, yield, exit, sleep,
\* set_priority, cleanup) keeps the queues in step with the states.
LEMMA ThreadStepKeeps ==
    ASSUME IInv, ThreadStep
    PROVE  IInv' /\ Top
<1>0. /\ state \in [Threads -> States] /\ priority \in [Threads -> Priorities]
      /\ quantum \in [Threads -> 0..Quantum]
      /\ saved \in [Threads -> Int]
      /\ pc \in [Threads -> Frames] /\ timers \in Seq(TimerEntries)
      /\ irq \in {"none", "tick", "preempt"}
      /\ SleepersOf(timers, state)
  BY DEF IInv, TypeOK
<1>1. CASE thread_become_idle
  <2>1. 0 \in Priorities
    BY ConstantTypes DEF Priorities
  <2>2. state[current] = "RUNNING" /\ current = Idle
    BY <1>1 DEF thread_become_idle, IInv, CurrentInv, Interruptible
  <2>3. UNCHANGED <<current, state, quantum, runq, csc, saved, pc, waitq, wcount,
                    blockedOn, blockRet, timers, irq, waking>>
    BY <1>1 DEF thread_become_idle, schedVars, waitVars
  <2>4. idle' = Idle /\ priority' = [priority EXCEPT ![current] = 0]
    BY <1>1, <2>2 DEF thread_become_idle
  <2>5. TypeOK'
    BY <1>0, <2>1, <2>3, <2>4 DEF IInv, TypeOK
  <2>6. RunQueueInv'
    <3>1. RunQueueOK(state, runq, priority')
      <4>1. ASSUME NEW p \in Priorities
            PROVE  {t \in Threads : state[t] = "READY" /\ priority'[t] = p}
                     = {t \in Threads : state[t] = "READY" /\ priority[t] = p}
        BY <1>0, <2>2, <2>4
      <4> QED BY <4>1 DEF IInv, RunQueueInv, RunQueueOK
    <3> QED BY <3>1, <2>3 DEF RunQueueInv
  <2>7. WaitQueueInv' /\ CurrentInv' /\ SleepersOf(timers', state') /\ Top
    BY <2>3 DEF IInv, WaitQueueInv, CurrentInv, Top
  <2> QED BY <2>5, <2>6, <2>7 DEF IInv
<1>2. CASE thread_yield
  <2> DEFINE st == [state EXCEPT ![current] = "READY"]
             q == insert_in_run_queue_tail(runq, current)
             qn == [quantum EXCEPT ![current] = 0]
  <2>1. Calls /\ thread_resched(st, q, qn, 1) /\ pc' = [pc EXCEPT ![current] = "yield"]
        /\ UNCHANGED <<priority, idle, waitVars, timers, irq, waking>>
    BY <1>2 DEF thread_yield
  <2>2. /\ current \in Threads /\ state[current] = "RUNNING"
        /\ state[Idle] = "READY" /\ current # Idle /\ Idle \in Threads
        /\ \A t \in Threads : state[t] = "RUNNING" => t = current
        /\ waking = None /\ runq \in RunQueues
    BY <2>1, CallFacts
  <2>3. q \in RunQueues /\ qn \in [Threads -> 0..Quantum] /\ pc' \in [Threads -> Frames]
    BY <1>0, <2>1, <2>2, InsertType, ConstantTypes DEF Frames
  <2>4. RunQueueOK(st, q, priority) /\ st \in [Threads -> States]
    BY <2>1, <2>3, CallerReady
  <2>5. /\ \A t \in Threads : st[t] # "RUNNING"
        /\ st[Idle] = "READY"
        /\ \A t \in Threads : /\ state[t] \in {"BLOCKED", "SLEEPING"} => st[t] = state[t]
                              /\ st[t] = "BLOCKED" => state[t] = "BLOCKED"
                              /\ state[t] = "SLEEPING" => st[t] = "SLEEPING"
        /\ Readied(st)
    BY <1>0, <2>2 DEF Readied
  <2> HIDE DEF st, q, qn
  <2>6. Switched(st)
    BY <2>1, <2>3, <2>4, <2>5, SwitchStep
  <2>7. SleepersOf(timers, st)
    BY <1>0, <2>5, SameSleepers
  <2> QED BY <1>0, <2>1, <2>2, <2>3, <2>4, <2>5, <2>6, <2>7, KeptAfterSwitch
<1>3. CASE thread_exit
  <2> DEFINE st == [state EXCEPT ![current] = "DEATH"]
  <2>1. Calls /\ thread_resched(st, runq, quantum, 1) /\ pc' = [pc EXCEPT ![current] = "dead"]
        /\ UNCHANGED <<priority, idle, waitVars, timers, irq, waking>>
    BY <1>3 DEF thread_exit
  <2>2. /\ current \in Threads /\ state[current] = "RUNNING"
        /\ state[Idle] = "READY" /\ current # Idle /\ Idle \in Threads
        /\ \A t \in Threads : state[t] = "RUNNING" => t = current
        /\ waking = None /\ runq \in RunQueues
    BY <2>1, CallFacts
  <2>3. pc' \in [Threads -> Frames] /\ quantum \in [Threads -> 0..Quantum]
    BY <1>0, <2>1, <2>2 DEF Frames
  <2>4. RunQueueOK(st, runq, priority) /\ st \in [Threads -> States]
    BY <2>1, CallerGone
  <2>5. /\ \A t \in Threads : st[t] # "RUNNING"
        /\ st[Idle] = "READY"
        /\ \A t \in Threads : /\ state[t] \in {"BLOCKED", "SLEEPING"} => st[t] = state[t]
                              /\ st[t] = "BLOCKED" => state[t] = "BLOCKED"
                              /\ state[t] = "SLEEPING" => st[t] = "SLEEPING"
        /\ Readied(st)
    BY <1>0, <2>2 DEF Readied
  <2> HIDE DEF st
  <2>6. Switched(st)
    BY <2>1, <2>2, <2>3, <2>4, <2>5, SwitchStep
  <2>7. SleepersOf(timers, st)
    BY <1>0, <2>5, SameSleepers
  <2> QED BY <1>0, <2>1, <2>2, <2>3, <2>4, <2>5, <2>6, <2>7, KeptAfterSwitch
<1>4. ASSUME NEW u \in Threads, thread_resume(u) PROVE IInv' /\ Top
  <2> DEFINE s1 == [state EXCEPT ![u] = "READY"]
             st == [state EXCEPT ![u] = "READY", ![current] = "READY"]
             q1 == insert_in_run_queue_head(runq, u)
             q == insert_in_run_queue_tail(q1, current)
             qn == [quantum EXCEPT ![current] = 0]
  <2>1. Calls /\ thread_resched(st, q, qn, 2) /\ pc' = [pc EXCEPT ![current] = "resume"]
        /\ UNCHANGED <<priority, idle, waitVars, timers, irq, waking>>
        /\ state[u] = "SUSPENDED"
    BY <1>4 DEF thread_resume
  <2>2. /\ current \in Threads /\ state[current] = "RUNNING"
        /\ state[Idle] = "READY" /\ current # Idle /\ Idle \in Threads
        /\ \A t \in Threads : state[t] = "RUNNING" => t = current
        /\ waking = None /\ runq \in RunQueues
        /\ RunQueueOK(state, runq, priority)
    BY <2>1, CallFacts
  <2>3. q1 \in RunQueues /\ qn \in [Threads -> 0..Quantum] /\ pc' \in [Threads -> Frames]
    BY <1>0, <2>1, <2>2, InsertType, ConstantTypes DEF Frames
  <2>4. q \in RunQueues
    <3> HIDE DEF q1
    <3> QED BY <1>0, <2>2, <2>3, InsertType
  <2>5. RunQueueOK(s1, q1, priority) /\ s1 \in [Threads -> States]
    BY <1>0, <2>1, <2>2, <2>3, InsertReady DEF States
  <2>6. RunQueueOK(st, q, priority) /\ st \in [Threads -> States]
    <3>1. s1[current] # "READY" /\ st = [s1 EXCEPT ![current] = "READY"]
      BY <1>0, <2>1, <2>2
    <3> HIDE DEF s1, st, q1
    <3>2. RunQueueOK([s1 EXCEPT ![current] = "READY"], q, priority)
      BY <1>0, <2>2, <2>3, <2>4, <2>5, <3>1, InsertReady
    <3> QED BY <2>2, <2>5, <3>1, <3>2 DEF States
  <2>7. /\ \A t \in Threads : st[t] # "RUNNING"
        /\ st[Idle] = "READY"
        /\ \A t \in Threads : /\ state[t] \in {"BLOCKED", "SLEEPING"} => st[t] = state[t]
                              /\ st[t] = "BLOCKED" => state[t] = "BLOCKED"
                              /\ state[t] = "SLEEPING" => st[t] = "SLEEPING"
        /\ Readied(st)
    BY <1>0, <2>1, <2>2 DEF Readied
  <2> HIDE DEF st, q, qn
  <2>8. Switched(st)
    BY <2>1, <2>3, <2>4, <2>6, <2>7, SwitchStep
  <2>9. SleepersOf(timers, st)
    BY <1>0, <2>7, SameSleepers
  <2> QED BY <1>0, <2>1, <2>2, <2>3, <2>6, <2>7, <2>8, <2>9, KeptAfterSwitch
<1>5. ASSUME NEW u \in Threads, thread_cleanup(u) PROVE IInv' /\ Top
  <2>1. Calls /\ state[u] = "DEATH" /\ state' = [state EXCEPT ![u] = "NONE"]
    BY <1>5 DEF thread_cleanup
  <2>2. UNCHANGED <<current, quantum, runq, csc, saved, pc, priority, idle, waitq, wcount,
                    blockedOn, blockRet, timers, irq, waking>>
    BY <1>5 DEF thread_cleanup, waitVars
  <2>3. \A t \in Threads : \/ state'[t] = state[t]
                           \/ state[t] = "DEATH" /\ state'[t] = "NONE"
    BY <1>0, <2>1
  <2>4. TypeOK'
    BY <1>0, <2>1, <2>2 DEF IInv, TypeOK, States
  <2>5. RunQueueInv'
    <3>1. RunQueueOK(state', runq, priority)
      BY <2>3, SameReady DEF IInv, RunQueueInv
    <3> QED BY <3>1, <2>2 DEF RunQueueInv
  <2>6. WaitQueueInv'
    <3>1. WaitQueueOK(state', waitq, wcount, blockedOn)
      BY <2>3, SameBlocked DEF IInv, WaitQueueInv
    <3> QED BY <3>1, <2>2 DEF WaitQueueInv
  <2>7. CurrentInv'
    BY <2>1, <2>2, <2>3, CallFacts, ConstantTypes DEF IInv, CurrentInv
  <2>8. SleepersOf(timers', state') /\ Top
    BY <1>0, <2>2, <2>3, SameSleepers DEF Top
  <2> QED BY <2>4, <2>5, <2>6, <2>7, <2>8 DEF IInv
<1>6. ASSUME NEW u \in Threads, NEW p \in NewPriorities, thread_create(u, p)
      PROVE IInv' /\ Top
  <2>1. Calls /\ state[u] = "NONE" /\ p \in Priorities
        /\ state' = [state EXCEPT ![u] = "SUSPENDED"]
        /\ priority' = [priority EXCEPT ![u] = p]
        /\ quantum' = [quantum EXCEPT ![u] = 0]
        /\ saved' = [saved EXCEPT ![u] = 1]
        /\ pc' = [pc EXCEPT ![u] = "fresh"]
        /\ blockedOn' = [blockedOn EXCEPT ![u] = None]
        /\ blockRet' = [blockRet EXCEPT ![u] = "NO_ERROR"]
        /\ UNCHANGED <<current, runq, csc, idle, waitq, wcount, timers, irq, waking>>
    BY <1>6 DEF thread_create
  <2>2. \A t \in Threads :
           /\ state'[t] = IF t = u THEN "SUSPENDED" ELSE state[t]
           /\ priority'[t] = IF t = u THEN p ELSE priority[t]
           /\ blockedOn'[t] = IF t = u THEN None ELSE blockedOn[t]
    BY <1>0, <2>1 DEF IInv, TypeOK
  <2>3. TypeOK'
    BY <1>0, <2>1, ConstantTypes, SMTT(30) DEF IInv, TypeOK, States, Frames, Results
  <2>4. RunQueueInv'
    <3>1. RunQueueOK(state', runq, priority')
      <4>1. ASSUME NEW m \in Priorities
            PROVE  {t \in Threads : state'[t] = "READY" /\ priority'[t] = m}
                     = {t \in Threads : state[t] = "READY" /\ priority[t] = m}
        BY <2>1, <2>2
      <4> QED BY <4>1 DEF IInv, RunQueueInv, RunQueueOK
    <3> QED BY <3>1, <2>1 DEF RunQueueInv
  <2>5. WaitQueueInv'
    <3>1. WaitQueueOK(state', waitq, wcount, blockedOn')
      <4>1. ASSUME NEW w \in WaitQueues
            PROVE  {t \in Threads : state'[t] = "BLOCKED" /\ blockedOn'[t] = w}
                     = {t \in Threads : state[t] = "BLOCKED" /\ blockedOn[t] = w}
        BY <2>1, <2>2
      <4>2. \A t \in Threads : state'[t] = "BLOCKED" => blockedOn'[t] \in WaitQueues
        BY <2>2 DEF IInv, WaitQueueInv, WaitQueueOK
      <4> QED BY <4>1, <4>2 DEF IInv, WaitQueueInv, WaitQueueOK
    <3> QED BY <3>1, <2>1 DEF WaitQueueInv
  <2>6. CurrentInv'
    BY <2>1, <2>2, CallFacts, ConstantTypes DEF IInv, CurrentInv
  <2>7. SleepersOf(timers', state') /\ Top
    BY <1>0, <2>1, <2>2, SameSleepers DEF Top
  <2> QED BY <2>3, <2>4, <2>5, <2>6, <2>7 DEF IInv
<1>7. ASSUME NEW p \in NewPriorities, thread_set_priority(p) PROVE IInv' /\ Top
  <2>1. Calls /\ \E m \in Priorities : priority' = [priority EXCEPT ![current] = m]
    <3>1. p \in Int /\ MaxPriority \in Nat
      BY ThreadAssumption DEF ThreadAssumption
    <3>2. (IF p < 0 THEN 0 ELSE IF p > MaxPriority THEN MaxPriority ELSE p) \in Priorities
      BY <3>1 DEF Priorities
    <3> QED BY <3>2, <1>7 DEF thread_set_priority
  <2>2. UNCHANGED <<current, state, quantum, runq, csc, saved, pc, idle, waitq, wcount,
                    blockedOn, blockRet, timers, irq, waking>>
    BY <1>7 DEF thread_set_priority, schedVars, waitVars
  <2>3. TypeOK'
    BY <1>0, <2>1, <2>2 DEF IInv, TypeOK
  <2>4. RunQueueInv'
    <3>1. RunQueueOK(state, runq, priority')
      <4>1. ASSUME NEW m \in Priorities
            PROVE  {t \in Threads : state[t] = "READY" /\ priority'[t] = m}
                     = {t \in Threads : state[t] = "READY" /\ priority[t] = m}
        BY <1>0, <2>1, CallFacts
      <4> QED BY <4>1 DEF IInv, RunQueueInv, RunQueueOK
    <3> QED BY <3>1, <2>2 DEF RunQueueInv
  <2>5. WaitQueueInv' /\ CurrentInv' /\ SleepersOf(timers', state') /\ Top
    BY <2>2 DEF IInv, WaitQueueInv, CurrentInv, Top
  <2> QED BY <2>3, <2>4, <2>5 DEF IInv
<1>8. ASSUME NEW d \in Delays, thread_sleep(d) PROVE IInv' /\ Top
  <2> DEFINE st == [state EXCEPT ![current] = "SLEEPING"]
             e == [thread |-> current, left |-> d, cb |-> "sleep"]
  <2>1. Calls /\ thread_resched(st, runq, quantum, 1) /\ pc' = [pc EXCEPT ![current] = "sleep"]
        /\ UNCHANGED <<priority, idle, waitVars, irq, waking>>
        /\ insert_timer_in_queue(e)
    BY <1>8 DEF thread_sleep
  <2>2. /\ current \in Threads /\ state[current] = "RUNNING"
        /\ state[Idle] = "READY" /\ current # Idle /\ Idle \in Threads
        /\ \A t \in Threads : state[t] = "RUNNING" => t = current
        /\ waking = None /\ runq \in RunQueues
    BY <2>1, CallFacts
  <2>3. pc' \in [Threads -> Frames] /\ quantum \in [Threads -> 0..Quantum]
        /\ e \in TimerEntries
    BY <1>0, <2>1, <2>2, ConstantTypes DEF Frames, TimerEntries
  <2>4. RunQueueOK(st, runq, priority) /\ st \in [Threads -> States]
    BY <2>1, CallerGone
  <2>5. /\ \A t \in Threads : st[t] # "RUNNING"
        /\ st[Idle] = "READY"
        /\ \A t \in Threads : /\ state[t] \in {"BLOCKED", "SLEEPING"} => st[t] = state[t]
                              /\ st[t] = "BLOCKED" => state[t] = "BLOCKED"
                              /\ state[t] = "SLEEPING" => st[t] = "SLEEPING"
        /\ st[current] = "SLEEPING"
        /\ Readied(st)
    BY <1>0, <2>2 DEF Readied
  <2>6. e.thread = current
    OBVIOUS
  <2> HIDE DEF st, e
  <2>7. Switched(st)
    BY <2>1, <2>2, <2>3, <2>4, <2>5, SwitchStep
  <2>8. timers' \in Seq(TimerEntries) /\ SleepersOf(timers', st)
    BY <1>0, <2>1, <2>2, <2>3, <2>5, <2>6, QueueTimer
  <2> QED BY <1>0, <2>1, <2>2, <2>3, <2>4, <2>5, <2>7, <2>8, KeptAfterSwitch
<1> QED BY <1>1, <1>2, <1>3, <1>4, <1>5, <1>6, <1>7, <1>8 DEF ThreadStep


-----------------------------------------------------------------------------

\* A blocked thread is woken: it leaves its wait queue and enters the run queue.
LEMMA Woken ==
    ASSUME IInv, NEW t \in Threads, NEW w \in WaitQueues, NEW err \in Results,
           state[t] = "BLOCKED", blockedOn[t] = w,
           NEW rest \in Seq(Threads), IsInjective(rest),
           Len(rest) = Len(waitq[w]) - 1, ToSet(rest) = ToSet(waitq[w]) \ {t},
           Unblock(t, w, rest, err),
           NEW woken, woken = [state EXCEPT ![t] = "READY"]
    PROVE  /\ waitq' \in [WaitQueues -> Seq(Threads)]
           /\ wcount' \in [WaitQueues -> Int]
           /\ blockedOn' \in [Threads -> WaitQueues \cup {None}]
           /\ blockRet' \in [Threads -> Results]
           /\ WaitQueueOK(woken, waitq', wcount', blockedOn')
           /\ woken \in [Threads -> States]
           /\ insert_in_run_queue_head(runq, t) \in RunQueues
           /\ RunQueueOK(woken, insert_in_run_queue_head(runq, t), priority)
           /\ SleepersOf(timers, woken)
           /\ t # current /\ t # Idle
<1>1. /\ state \in [Threads -> States] /\ priority \in [Threads -> Priorities]
      /\ waitq \in [WaitQueues -> Seq(Threads)] /\ wcount \in [WaitQueues -> Int]
      /\ blockedOn \in [Threads -> WaitQueues \cup {None}]
      /\ blockRet \in [Threads -> Results]
      /\ runq \in RunQueues /\ timers \in Seq(TimerEntries)
      /\ RunQueueOK(state, runq, priority)
      /\ WaitQueueOK(state, waitq, wcount, blockedOn)
      /\ SleepersOf(timers, state)
  BY DEF IInv, TypeOK, RunQueues, RunQueueInv, WaitQueueInv
<1>2. t # current /\ t # Idle
  BY DEF IInv, CurrentInv
<1>3. /\ waitq' = [waitq EXCEPT ![w] = rest]
      /\ wcount' = [wcount EXCEPT ![w] = @ - 1]
      /\ blockedOn' = [blockedOn EXCEPT ![t] = None]
      /\ blockRet' = [blockRet EXCEPT ![t] = err]
  BY DEF Unblock
<1>4. /\ wcount' \in [WaitQueues -> Int]
      /\ blockedOn' \in [Threads -> WaitQueues \cup {None}]
      /\ blockRet' \in [Threads -> Results]
  BY <1>1, <1>3
<1>5. WaitQueueOK(woken, waitq', wcount', blockedOn')
        /\ waitq' \in [WaitQueues -> Seq(Threads)]
  BY <1>1, <1>3, Dequeue
<1>6. insert_in_run_queue_head(runq, t) \in RunQueues
  BY <1>1, InsertType
<1>7. RunQueueOK(woken, insert_in_run_queue_head(runq, t), priority)
  BY <1>1, <1>6, InsertReady
<1>8. woken \in [Threads -> States] /\ SleepersOf(timers, woken)
  <2>1. \A u \in Threads : state[u] = "SLEEPING" => woken[u] = "SLEEPING"
    BY <1>1
  <2> QED BY <1>1, <2>1, SameSleepers DEF States
<1> QED BY <1>2, <1>4, <1>5, <1>6, <1>7, <1>8

\* A blocked thread has a place in its queue, where it is cut out.
LEMMA AnyWaiter ==
    ASSUME IInv, NEW t \in Threads, state[t] = "BLOCKED",
           NEW w \in WaitQueues, blockedOn[t] = w,
           NEW rest, rest = RemoveAt(waitq[w], PositionOf(t, waitq[w]))
    PROVE  /\ rest \in Seq(Threads) /\ IsInjective(rest)
           /\ Len(rest) = Len(waitq[w]) - 1
           /\ ToSet(rest) = ToSet(waitq[w]) \ {t}
<1> DEFINE s == waitq[w]
           n == PositionOf(t, s)
<1>1. s \in Seq(Threads) /\ IsInjective(s) /\ t \in ToSet(s)
  BY DEF IInv, TypeOK, WaitQueueInv, WaitQueueOK
<1> HIDE DEF s
<1>2. n \in DOMAIN s /\ s[n] = t
  BY <1>1 DEF PositionOf, ToSet
<1> HIDE DEF n
<1>3. /\ RemoveAt(s, n) \in Seq(Threads)
      /\ Len(RemoveAt(s, n)) = Len(s) - 1
      /\ IsInjective(RemoveAt(s, n))
      /\ ToSet(RemoveAt(s, n)) = ToSet(s) \ {s[n]}
  BY <1>1, <1>2, CutOut
<1> QED BY <1>2, <1>3 DEF s, n

\* The first waiter of a queue is blocked on it.
LEMMA FirstWaiter ==
    ASSUME IInv, NEW w \in WaitQueues, waitq[w] # <<>>
    PROVE  /\ Head(waitq[w]) \in Threads
           /\ state[Head(waitq[w])] = "BLOCKED" /\ blockedOn[Head(waitq[w])] = w
           /\ Tail(waitq[w]) \in Seq(Threads) /\ IsInjective(Tail(waitq[w]))
           /\ Len(Tail(waitq[w])) = Len(waitq[w]) - 1
           /\ ToSet(Tail(waitq[w])) = ToSet(waitq[w]) \ {Head(waitq[w])}
<1> DEFINE s == waitq[w]
<1>1. s \in Seq(Threads) /\ s # <<>> /\ IsInjective(s)
        /\ ToSet(s) = {u \in Threads : state[u] = "BLOCKED" /\ blockedOn[u] = w}
  BY DEF IInv, TypeOK, WaitQueueInv, WaitQueueOK
<1> HIDE DEF s
<1>2. /\ Head(s) \in Threads /\ Head(s) \in ToSet(s)
      /\ Tail(s) \in Seq(Threads)
      /\ Len(Tail(s)) = Len(s) - 1
      /\ IsInjective(Tail(s))
      /\ ToSet(Tail(s)) = ToSet(s) \ {Head(s)}
  BY <1>1, PopFront
<1>3. state[Head(s)] = "BLOCKED" /\ blockedOn[Head(s)] = w
  BY <1>1, <1>2
<1> QED BY <1>2, <1>3 DEF s

\* A thread that was not ready is made ready without a switch.
LEMMA ReadyStays ==
    ASSUME IInv, NEW t \in Threads, state[t] \in {"BLOCKED", "SLEEPING"},
           state' = [state EXCEPT ![t] = "READY"],
           runq' = insert_in_run_queue_head(runq, t),
           runq' \in RunQueues, RunQueueOK(state', runq', priority),
           UNCHANGED <<current, quantum, saved, pc, priority, idle, waking>>,
           csc' \in Int, irq' \in {"none", "tick", "preempt"},
           waitq' \in [WaitQueues -> Seq(Threads)],
           wcount' \in [WaitQueues -> Int],
           blockedOn' \in [Threads -> WaitQueues \cup {None}],
           blockRet' \in [Threads -> Results],
           WaitQueueOK(state', waitq', wcount', blockedOn'),
           timers' \in Seq(TimerEntries), SleepersOf(timers', state')
    PROVE  IInv' /\ Top
<1>1. state \in [Threads -> States]
  BY DEF IInv, TypeOK
<1>2. TypeOK'
  BY <1>1 DEF IInv, TypeOK, States, RunQueues
<1>3. RunQueueInv' /\ WaitQueueInv'
  BY DEF RunQueueInv, WaitQueueInv
<1>4. CurrentInv'
  <2>1. t # current /\ t # Idle
    BY DEF IInv, CurrentInv
  <2> QED BY <1>1, <2>1, ConstantTypes DEF IInv, CurrentInv, TypeOK
<1>5. Top
  BY DEF Top
<1> QED BY <1>2, <1>3, <1>4, <1>5 DEF IInv

\* The wait queue calls, from a thread and from an interrupt handler, with any
\* result a waker may pass: those of its clients, too.
WaitCall ==
    \E w \in WaitQueues :
        \/ \E d \in Timeouts \cup {None} : wait_queue_block(w, d)
        \/ \E r \in BOOLEAN, err \in Results :
               wait_queue_wake_one(w, r, err) \/ wait_queue_wake_all(w, r, err)

IrqCall == \E w \in WaitQueues, err \in Results :
               irq_wake_one(w, err) \/ irq_wake_all(w, err)

\* Every step of the kernel, whoever uses it.
KernelNext == ThreadStep \/ WaitCall \/ ReturnStep \/ IrqCall \/ irq_tick
              \/ HandlerStep \/ stopped

LEMMA NextIsKernelNext == Next => KernelNext
<1>1. WakeErrors \subseteq Results
  BY ConstantTypes
<1> QED BY <1>1 DEF Next, KernelNext, WaitStep, WaitCall, DeviceIrq, IrqCall

\* Blocking and waking, from a thread, keep the wait queues and the run queue
\* in step with the states.
LEMMA WaitCallKeeps ==
    ASSUME IInv, WaitCall
    PROVE  IInv' /\ Top
<1>0. /\ state \in [Threads -> States] /\ priority \in [Threads -> Priorities]
      /\ quantum \in [Threads -> 0..Quantum]
      /\ saved \in [Threads -> Int] /\ csc \in Int
      /\ pc \in [Threads -> Frames] /\ timers \in Seq(TimerEntries)
      /\ irq \in {"none", "tick", "preempt"}
      /\ waitq \in [WaitQueues -> Seq(Threads)] /\ wcount \in [WaitQueues -> Int]
      /\ blockedOn \in [Threads -> WaitQueues \cup {None}]
      /\ blockRet \in [Threads -> Results]
      /\ SleepersOf(timers, state)
      /\ WaitQueueOK(state, waitq, wcount, blockedOn)
  BY DEF IInv, TypeOK, WaitQueueInv
<1>1. ASSUME NEW w \in WaitQueues, NEW d \in Timeouts \cup {None}, wait_queue_block(w, d)
      PROVE  IInv' /\ Top
  <2> DEFINE st == [state EXCEPT ![current] = "BLOCKED"]
             e == [thread |-> current, left |-> d, cb |-> "timeout"]
  <2>1. /\ Calls /\ thread_resched(st, runq, quantum, 2)
        /\ pc' = [pc EXCEPT ![current] = "block"]
        /\ UNCHANGED <<priority, idle, irq, waking>>
        /\ waitq' = [waitq EXCEPT ![w] = Append(@, current)]
        /\ wcount' = [wcount EXCEPT ![w] = @ + 1]
        /\ blockedOn' = [blockedOn EXCEPT ![current] = w]
        /\ blockRet' = [blockRet EXCEPT ![current] = "NO_ERROR"]
        /\ IF d = None THEN UNCHANGED timers ELSE insert_timer_in_queue(e)
    BY <1>1 DEF wait_queue_block
  <2>2. /\ current \in Threads /\ state[current] = "RUNNING"
        /\ state[Idle] = "READY" /\ current # Idle /\ Idle \in Threads
        /\ \A t \in Threads : state[t] = "RUNNING" => t = current
        /\ waking = None /\ runq \in RunQueues
    BY <2>1, CallFacts
  <2>3. pc' \in [Threads -> Frames] /\ quantum \in [Threads -> 0..Quantum]
    BY <1>0, <2>1, <2>2 DEF Frames
  <2>4. RunQueueOK(st, runq, priority) /\ st \in [Threads -> States]
    BY <2>1, CallerGone
  <2>5. WaitQueueOK(st, waitq', wcount', blockedOn')
          /\ waitq' \in [WaitQueues -> Seq(Threads)]
    BY <1>0, <2>1, <2>2, Enqueue
  <2>6. /\ wcount' \in [WaitQueues -> Int]
        /\ blockedOn' \in [Threads -> WaitQueues \cup {None}]
        /\ blockRet' \in [Threads -> Results]
    BY <1>0, <2>1, <2>2 DEF Results
  <2>7. /\ \A t \in Threads : st[t] # "RUNNING"
        /\ st[Idle] = "READY"
        /\ \A t \in Threads : state[t] = "SLEEPING" => st[t] = "SLEEPING"
        /\ Readied(st)
    BY <1>0, <2>2 DEF Readied
  <2>8. timers' \in Seq(TimerEntries) /\ SleepersOf(timers', st)
    <3>1. CASE d = None
      <4> HIDE DEF st
      <4>1. timers' = timers
        BY <2>1, <3>1
      <4>2. SleepersOf(timers, st)
        BY <1>0, <2>7, SameSleepers
      <4> QED BY <1>0, <4>1, <4>2
    <3>2. CASE d # None
      <4>1. d \in Nat
        BY <3>2, ConstantTypes
      <4>2. e \in TimerEntries /\ e.thread = current /\ e.cb # "sleep"
        BY <2>2, <4>1 DEF TimerEntries
      <4>3. insert_timer_in_queue(e)
        BY <2>1, <3>2
      <4> HIDE DEF st, e
      <4> QED BY <1>0, <2>2, <2>7, <4>2, <4>3, QueueTimer
    <3> QED BY <3>1, <3>2
  <2> HIDE DEF st, e
  <2>9. Switched(st)
    <3>1. thread_resched(st, runq, quantum, 2) /\ runq \in RunQueues /\ 2 \in Int
      BY <2>1, <2>2
    <3> QED BY <2>3, <2>4, <2>7, <3>1, SwitchStep
  <2> QED BY <1>0, <2>1, <2>2, <2>3, <2>5, <2>6, <2>7, <2>8, <2>9, AfterSwitch
<1>2. ASSUME NEW w \in WaitQueues, NEW r \in BOOLEAN, NEW err \in Results,
             wait_queue_wake_one(w, r, err)
      PROVE  IInv' /\ Top
  <2> DEFINE t == Head(waitq[w])
             rest == Tail(waitq[w])
             woken == [state EXCEPT ![t] = "READY"]
             q1 == insert_in_run_queue_head(runq, current)
  <2>1. Calls /\ waitq[w] # <<>> /\ Unblock(t, w, rest, err)
        /\ UNCHANGED <<priority, idle, timers, irq, waking>>
    BY <1>2 DEF wait_queue_wake_one
  <2>2. /\ current \in Threads /\ state[current] = "RUNNING"
        /\ state[Idle] = "READY" /\ current # Idle /\ Idle \in Threads
        /\ \A u \in Threads : state[u] = "RUNNING" => u = current
        /\ waking = None /\ runq \in RunQueues
    BY <2>1, CallFacts
  <2>3. /\ t \in Threads /\ state[t] = "BLOCKED" /\ blockedOn[t] = w
        /\ rest \in Seq(Threads) /\ IsInjective(rest)
        /\ Len(rest) = Len(waitq[w]) - 1
        /\ ToSet(rest) = ToSet(waitq[w]) \ {t}
        /\ err \in Results
    <3>1. waitq[w] # <<>> /\ err \in Results
      BY <2>1, ConstantTypes
    <3> QED BY <3>1, FirstWaiter
  <2> HIDE DEF t, rest
  <2>4. /\ waitq' \in [WaitQueues -> Seq(Threads)]
        /\ wcount' \in [WaitQueues -> Int]
        /\ blockedOn' \in [Threads -> WaitQueues \cup {None}]
        /\ blockRet' \in [Threads -> Results]
        /\ WaitQueueOK(woken, waitq', wcount', blockedOn')
        /\ woken \in [Threads -> States]
        /\ insert_in_run_queue_head(runq, t) \in RunQueues
        /\ RunQueueOK(woken, insert_in_run_queue_head(runq, t), priority)
        /\ SleepersOf(timers, woken)
        /\ t # current /\ t # Idle
    BY <2>1, <2>3, Woken
  <2>5. CASE r
    <3> DEFINE st == [woken EXCEPT ![current] = "READY"]
               q == insert_in_run_queue_head(q1, t)
               s1 == [state EXCEPT ![current] = "READY"]
    <3>1. thread_resched(st, q, quantum, 1) /\ pc' = [pc EXCEPT ![current] = "wake"]
      BY <1>2, <2>5 DEF wait_queue_wake_one, t
    <3>2. q1 \in RunQueues
      BY <1>0, <2>2, InsertType
    <3>3. RunQueueOK(s1, q1, priority) /\ s1 \in [Threads -> States]
      BY <2>1, <3>2, CallerReady
    <3>4. q \in RunQueues
      <4> HIDE DEF q1
      <4> QED BY <1>0, <2>3, <3>2, InsertType
    <3>5. /\ st \in [Threads -> States] /\ st = [s1 EXCEPT ![t] = "READY"]
          /\ s1[t] # "READY"
      BY <1>0, <2>2, <2>3, <2>4 DEF States
    <3>6. RunQueueOK(st, q, priority)
      <4> HIDE DEF s1, st, q1
      <4>1. RunQueueOK([s1 EXCEPT ![t] = "READY"], q, priority)
        BY <1>0, <2>3, <3>2, <3>3, <3>4, <3>5, InsertReady
      <4> QED BY <3>5, <4>1
    <3>7. /\ \A u \in Threads : st[u] # "RUNNING"
          /\ st[Idle] = "READY"
          /\ \A u \in Threads : /\ woken[u] = "SLEEPING" => st[u] = "SLEEPING"
                                /\ woken[u] = "BLOCKED" <=> st[u] = "BLOCKED"
                                /\ state[u] = "SLEEPING" => st[u] = "SLEEPING"
          /\ Readied(st)
      BY <1>0, <2>2, <2>3, <2>4 DEF Readied
    <3>8. quantum \in [Threads -> 0..Quantum] /\ pc' \in [Threads -> Frames]
      BY <1>0, <3>1, <2>2 DEF Frames
    <3> HIDE DEF st, woken, q
    <3>9. Switched(st)
      <4>1. thread_resched(st, q, quantum, 1) /\ st \in [Threads -> States] /\ 1 \in Int
        BY <3>1, <3>5
      <4>2. \A u \in Threads : st[u] # "RUNNING"
        BY <3>7
      <4>3. st[Idle] = "READY"
        BY <3>7
      <4> QED BY <3>4, <3>6, <3>8, <4>1, <4>2, <4>3, SwitchStep
    <3>10. SleepersOf(timers, st)
      BY <1>0, <3>7, SameSleepers
    <3>11. WaitQueueOK(st, waitq', wcount', blockedOn')
      BY <2>4, <3>7, SameBlocked
    <3> QED BY <1>0, <2>1, <2>2, <2>4, <3>7, <3>8, <3>9, <3>10, <3>11, AfterSwitch
  <2>6. CASE ~r
    <3>1. /\ state' = woken
          /\ runq' = insert_in_run_queue_head(runq, t)
          /\ UNCHANGED <<current, quantum, csc, saved, pc>>
      BY <1>2, <2>6 DEF wait_queue_wake_one, t
    <3> QED BY <1>0, <2>1, <2>3, <2>4, <3>1, ReadyStays
  <2> QED BY <2>5, <2>6
<1>3. ASSUME NEW w \in WaitQueues, NEW r \in BOOLEAN, NEW err \in Results,
             wait_queue_wake_all(w, r, err)
      PROVE  IInv' /\ Top
  <2>1. /\ Calls /\ csc' = csc + 1
        /\ waking' = [wait |-> w, resched |-> r, err |-> err]
        /\ UNCHANGED <<current, quantum, saved, pc, priority, idle, waitq, wcount,
                       blockedOn, blockRet, timers, irq>>
    BY <1>3 DEF wait_queue_wake_all, waitVars
  <2>2. /\ current \in Threads /\ state[current] = "RUNNING"
        /\ state[Idle] = "READY" /\ current # Idle /\ Idle \in Threads
        /\ \A u \in Threads : state[u] = "RUNNING" => u = current
        /\ waking = None /\ runq \in RunQueues
        /\ RunQueueOK(state, runq, priority)
    BY <2>1, CallFacts
  <2>3. waking' \in WakeLoops /\ waking' # None
    BY <2>1, ConstantTypes DEF WakeLoops
  <2>4. waking'.resched = r
    BY <2>1
  <2>5. /\ state' \in [Threads -> States] /\ runq' \in RunQueues
        /\ RunQueueOK(state', runq', priority)
        /\ state' = [state EXCEPT ![current] = IF r THEN "READY" ELSE "RUNNING"]
    <3>1. CASE r
      <4>1. /\ state' = [state EXCEPT ![current] = "READY"]
            /\ runq' = insert_in_run_queue_head(runq, current)
        BY <1>3, <3>1 DEF wait_queue_wake_all
      <4>2. runq' \in RunQueues
        BY <1>0, <2>2, <4>1, InsertType
      <4> QED BY <2>1, <3>1, <4>1, <4>2, CallerReady
    <3>2. CASE ~r
      <4>1. state' = state /\ runq' = runq
        BY <1>3, <3>2 DEF wait_queue_wake_all
      <4> QED BY <1>0, <2>2, <3>2, <4>1
    <3> QED BY <3>1, <3>2
  <2>6. TypeOK'
    BY <1>0, <2>1, <2>2, <2>3, <2>5 DEF IInv, TypeOK, RunQueues
  <2>7. RunQueueInv'
    BY <2>1, <2>5 DEF RunQueueInv
  <2>8. WaitQueueInv'
    <3>1. \A u \in Threads : state[u] = "BLOCKED" <=> state'[u] = "BLOCKED"
      BY <1>0, <2>2, <2>5
    <3>2. WaitQueueOK(state', waitq, wcount, blockedOn)
      BY <1>0, <3>1, SameBlocked
    <3> QED BY <2>1, <3>2 DEF WaitQueueInv
  <2>9. CurrentInv'
    BY <1>0, <2>1, <2>2, <2>3, <2>4, <2>5 DEF CurrentInv
  <2>10. SleepersOf(timers', state')
    <3>1. \A u \in Threads : state[u] = "SLEEPING" => state'[u] = "SLEEPING"
      BY <1>0, <2>2, <2>5
    <3> QED BY <1>0, <2>1, <3>1, SameSleepers
  <2>11. Top
    BY <2>1 DEF Top
  <2> QED BY <2>6, <2>7, <2>8, <2>9, <2>10, <2>11 DEF IInv
<1> QED BY <1>1, <1>2, <1>3 DEF WaitCall


-----------------------------------------------------------------------------

\* The steps that change neither a thread's state nor any queue of threads.
LEMMA SchedulerKept ==
    ASSUME IInv, UNCHANGED <<current, state, runq, priority, idle, waitVars>>,
           quantum' \in [Threads -> 0..Quantum], csc' \in Int,
           saved' \in [Threads -> Int], pc' \in [Threads -> Frames],
           irq' \in {"none", "tick", "preempt"}, waking' \in WakeLoops \cup {None},
           waking' # None /\ waking'.resched <=> waking # None /\ waking.resched,
           timers' \in Seq(TimerEntries), SleepersOf(timers', state)
    PROVE  IInv' /\ Top
<1>1. /\ waitq' = waitq /\ wcount' = wcount
      /\ blockedOn' = blockedOn /\ blockRet' = blockRet
  BY DEF waitVars
<1>2. TypeOK'
  BY <1>1 DEF IInv, TypeOK
<1>3. RunQueueInv' /\ WaitQueueInv' /\ Top
  BY <1>1 DEF IInv, RunQueueInv, WaitQueueInv, Top
<1>4. CurrentInv'
  BY DEF IInv, CurrentInv
<1> QED BY <1>2, <1>3, <1>4 DEF IInv

\* Coming back from thread_resched, with the timer cancelled, and the loop of
\* wait_queue_wake_all keep the invariant.
LEMMA ReturnStepKeeps ==
    ASSUME IInv, ReturnStep
    PROVE  IInv' /\ Top
<1>0. /\ state \in [Threads -> States] /\ priority \in [Threads -> Priorities]
      /\ quantum \in [Threads -> 0..Quantum] /\ current \in Threads
      /\ saved \in [Threads -> Int] /\ csc \in Int
      /\ pc \in [Threads -> Frames] /\ timers \in Seq(TimerEntries)
      /\ irq \in {"none", "tick", "preempt"} /\ waking \in WakeLoops \cup {None}
      /\ runq \in RunQueues
      /\ waitq \in [WaitQueues -> Seq(Threads)] /\ wcount \in [WaitQueues -> Int]
      /\ blockedOn \in [Threads -> WaitQueues \cup {None}]
      /\ blockRet \in [Threads -> Results]
      /\ SleepersOf(timers, state)
      /\ RunQueueOK(state, runq, priority)
      /\ WaitQueueOK(state, waitq, wcount, blockedOn)
  BY DEF IInv, TypeOK, RunQueues, RunQueueInv, WaitQueueInv
<1>1. ASSUME LeaveCall
      PROVE  /\ UNCHANGED <<current, state, quantum, runq, saved, priority, idle,
                            waitVars, irq, waking>>
             /\ csc' \in Int /\ pc' \in [Threads -> Frames]
  <2>1. csc' = csc - Depth[pc[current]] /\ pc' = [pc EXCEPT ![current] = "run"]
    BY <1>1 DEF LeaveCall
  <2>2. Depth[pc[current]] \in Int
    BY <1>0 DEF Depth, Frames
  <2>3. csc' \in Int /\ pc' \in [Threads -> Frames]
    BY <1>0, <2>1, <2>2 DEF Frames
  <2> QED BY <1>1, <2>3 DEF LeaveCall
<1>2. CASE return_from_resched
  <2>1. LeaveCall /\ timers' = timers
    BY <1>2 DEF return_from_resched
  <2> QED BY <1>0, <1>1, <2>1, SchedulerKept
<1>3. CASE return_from_block
  <2>1. LeaveCall /\ timer_cancel(current)
    BY <1>3 DEF return_from_block
  <2>2. timers' \in Seq(TimerEntries) /\ SleepersOf(timers', state)
    BY <1>0, <2>1, CancelTimer
  <2> QED BY <1>0, <1>1, <2>1, <2>2, SchedulerKept
<1>4. CASE wake_all_next
  <2> DEFINE w == waking.wait
             t == Head(waitq[w])
             rest == Tail(waitq[w])
             woken == [state EXCEPT ![t] = "READY"]
  <2>1. /\ waking # None /\ waitq[w] # <<>>
        /\ Unblock(t, w, rest, waking.err)
        /\ state' = woken
        /\ runq' = insert_in_run_queue_head(runq, t)
        /\ UNCHANGED <<current, quantum, csc, saved, pc, priority, idle, timers, irq, waking>>
    BY <1>4 DEF wake_all_next
  <2>2. w \in WaitQueues /\ waking.err \in Results
    BY <1>0, <2>1 DEF WakeLoops
  <2> HIDE DEF w
  <2>3. /\ t \in Threads /\ state[t] = "BLOCKED" /\ blockedOn[t] = w
        /\ rest \in Seq(Threads) /\ IsInjective(rest)
        /\ Len(rest) = Len(waitq[w]) - 1
        /\ ToSet(rest) = ToSet(waitq[w]) \ {t}
    BY <2>1, <2>2, FirstWaiter
  <2> HIDE DEF t, rest
  <2>4. /\ waitq' \in [WaitQueues -> Seq(Threads)]
        /\ wcount' \in [WaitQueues -> Int]
        /\ blockedOn' \in [Threads -> WaitQueues \cup {None}]
        /\ blockRet' \in [Threads -> Results]
        /\ WaitQueueOK(woken, waitq', wcount', blockedOn')
        /\ insert_in_run_queue_head(runq, t) \in RunQueues
        /\ RunQueueOK(woken, insert_in_run_queue_head(runq, t), priority)
        /\ SleepersOf(timers, woken)
    BY <2>1, <2>2, <2>3, Woken
  <2> QED BY <1>0, <2>1, <2>3, <2>4, ReadyStays
<1>5. CASE wake_all_done
  <2>1. waking # None /\ waking' = None /\ UNCHANGED <<priority, idle, waitVars, timers, irq>>
    BY <1>5 DEF wake_all_done
  <2>2. CASE waking.resched
    <3>1. thread_resched(state, runq, quantum, csc) /\ pc' = [pc EXCEPT ![current] = "wake"]
      BY <1>5, <2>2 DEF wake_all_done
    <3>2. pc' \in [Threads -> Frames]
      BY <1>0, <3>1 DEF Frames
    <3>3. /\ \A t \in Threads : state[t] # "RUNNING"
          /\ state[Idle] = "READY"
      BY <2>1, <2>2, ConstantTypes DEF IInv, CurrentInv
    <3>4. Switched(state)
      BY <1>0, <3>1, <3>3, SwitchStep
    <3>5. timers' \in Seq(TimerEntries) /\ SleepersOf(timers', state)
      BY <1>0, <2>1
    <3>6. Readied(state)
      BY DEF Readied
    <3> QED BY <1>0, <2>1, <3>2, <3>4, <3>5, <3>6, KeptAfterSwitch
  <2>3. CASE ~waking.resched
    <3>1. /\ UNCHANGED <<current, state, quantum, runq, saved, pc>>
          /\ csc' = IF irq = "none" THEN csc - 1 ELSE csc
      BY <1>5, <2>3 DEF wake_all_done
    <3>2. csc' \in Int
      BY <1>0, <3>1
    <3>3. waking' # None /\ waking'.resched <=> waking # None /\ waking.resched
      BY <2>1, <2>3
    <3> QED BY <1>0, <2>1, <3>1, <3>2, <3>3, SchedulerKept
  <2> QED BY <2>2, <2>3
<1> QED BY <1>2, <1>3, <1>4, <1>5 DEF ReturnStep

\* Wake-ups from interrupt handlers keep the invariant.
LEMMA IrqCallKeeps ==
    ASSUME IInv, IrqCall
    PROVE  IInv' /\ Top
<1>0. /\ state \in [Threads -> States] /\ quantum \in [Threads -> 0..Quantum]
      /\ saved \in [Threads -> Int] /\ csc \in Int
      /\ pc \in [Threads -> Frames] /\ timers \in Seq(TimerEntries)
      /\ SleepersOf(timers, state)
  BY DEF IInv, TypeOK
<1>1. ASSUME NEW w \in WaitQueues, NEW err \in Results, irq_wake_one(w, err)
      PROVE  IInv' /\ Top
  <2> DEFINE t == Head(waitq[w])
             rest == Tail(waitq[w])
             woken == [state EXCEPT ![t] = "READY"]
  <2>1. /\ waitq[w] # <<>>
        /\ Unblock(t, w, rest, err)
        /\ state' = woken
        /\ runq' = insert_in_run_queue_head(runq, t)
        /\ csc' = csc + 1 /\ irq' = "preempt"
        /\ UNCHANGED <<current, quantum, saved, pc, priority, idle, timers, waking>>
    BY <1>1 DEF irq_wake_one
  <2>2. err \in Results /\ csc' \in Int
    BY <1>0, <2>1, ConstantTypes
  <2>3. /\ t \in Threads /\ state[t] = "BLOCKED" /\ blockedOn[t] = w
        /\ rest \in Seq(Threads) /\ IsInjective(rest)
        /\ Len(rest) = Len(waitq[w]) - 1
        /\ ToSet(rest) = ToSet(waitq[w]) \ {t}
    BY <2>1, FirstWaiter
  <2> HIDE DEF t, rest
  <2>4. /\ waitq' \in [WaitQueues -> Seq(Threads)]
        /\ wcount' \in [WaitQueues -> Int]
        /\ blockedOn' \in [Threads -> WaitQueues \cup {None}]
        /\ blockRet' \in [Threads -> Results]
        /\ WaitQueueOK(woken, waitq', wcount', blockedOn')
        /\ insert_in_run_queue_head(runq, t) \in RunQueues
        /\ RunQueueOK(woken, insert_in_run_queue_head(runq, t), priority)
        /\ SleepersOf(timers, woken)
    BY <2>1, <2>2, <2>3, Woken
  <2> QED BY <1>0, <2>1, <2>2, <2>3, <2>4, ReadyStays
<1>2. ASSUME NEW w \in WaitQueues, NEW err \in Results, irq_wake_all(w, err)
      PROVE  IInv' /\ Top
  <2>1. /\ waking = None /\ csc' = csc + 1 /\ irq' = "preempt"
        /\ waking' = [wait |-> w, resched |-> FALSE, err |-> err]
        /\ UNCHANGED <<current, state, quantum, runq, saved, pc, priority, idle,
                       waitVars, timers>>
    BY <1>2 DEF irq_wake_all, Interruptible
  <2>2. waking' \in WakeLoops /\ ~ waking'.resched /\ csc' \in Int
    BY <1>0, <2>1, ConstantTypes DEF WakeLoops
  <2> QED BY <1>0, <2>1, <2>2, SchedulerKept
<1> QED BY <1>1, <1>2 DEF IrqCall

\* The passing of a tick keeps every timer with its sleeper.
LEMMA IrqTickKeeps ==
    ASSUME IInv, irq_tick
    PROVE  IInv' /\ Top
<1>0. /\ quantum \in [Threads -> 0..Quantum]
      /\ saved \in [Threads -> Int] /\ csc \in Int
      /\ pc \in [Threads -> Frames] /\ timers \in Seq(TimerEntries)
      /\ waking \in WakeLoops \cup {None}
      /\ SleepersOf(timers, state)
  BY DEF IInv, TypeOK
<1>1. /\ csc' = csc + 1 /\ irq' = "tick"
      /\ timers' = [i \in DOMAIN timers |->
                      [timers[i] EXCEPT !.left = IF @ > 0 THEN @ - 1 ELSE 0]]
      /\ UNCHANGED <<current, state, quantum, runq, saved, pc, priority, idle,
                     waitVars, waking>>
  BY DEF irq_tick
<1>2. \A i \in DOMAIN timers : timers[i] \in TimerEntries
  BY <1>0
<1>3. \A i \in DOMAIN timers :
         /\ timers'[i] \in TimerEntries
         /\ timers'[i].thread = timers[i].thread
         /\ timers'[i].cb = timers[i].cb
  BY <1>1, <1>2 DEF TimerEntries
<1>4. DOMAIN timers' = DOMAIN timers /\ timers' \in Seq(TimerEntries)
  <2>1. Len(timers) \in Nat /\ DOMAIN timers = 1 .. Len(timers)
    BY <1>0
  <2>2. DOMAIN timers' = DOMAIN timers
    BY <1>1
  <2>3. timers' \in [1 .. Len(timers) -> TimerEntries]
    BY <1>1, <1>3, <2>1
  <2> QED BY <2>1, <2>2, <2>3, SeqDef
<1>5. SleepersOf(timers', state)
  BY <1>0, <1>3, <1>4 DEF SleepersOf
<1>6. csc' \in Int
  BY <1>0, <1>1
<1> QED BY <1>0, <1>1, <1>4, <1>5, <1>6, SchedulerKept

\* Expired sleeps and timeouts, the tick's accounting and the preemption keep
\* the invariant.
LEMMA HandlerStepKeeps ==
    ASSUME IInv, HandlerStep
    PROVE  IInv' /\ Top
<1>0. /\ state \in [Threads -> States] /\ priority \in [Threads -> Priorities]
      /\ quantum \in [Threads -> 0..Quantum] /\ current \in Threads
      /\ saved \in [Threads -> Int] /\ csc \in Int
      /\ pc \in [Threads -> Frames] /\ timers \in Seq(TimerEntries)
      /\ irq \in {"none", "tick", "preempt"} /\ waking \in WakeLoops \cup {None}
      /\ runq \in RunQueues
      /\ waitq \in [WaitQueues -> Seq(Threads)] /\ wcount \in [WaitQueues -> Int]
      /\ blockedOn \in [Threads -> WaitQueues \cup {None}]
      /\ blockRet \in [Threads -> Results]
      /\ SleepersOf(timers, state)
      /\ RunQueueOK(state, runq, priority)
      /\ WaitQueueOK(state, waitq, wcount, blockedOn)
  BY DEF IInv, TypeOK, RunQueues, RunQueueInv, WaitQueueInv
<1>1. CASE thread_sleep_handler
  <2> DEFINE t == Head(timers).thread
             woken == [state EXCEPT ![t] = "READY"]
  <2>1. /\ timers # <<>> /\ Head(timers).cb = "sleep"
        /\ state' = woken
        /\ runq' = insert_in_run_queue_head(runq, t)
        /\ timers' = Tail(timers)
        /\ UNCHANGED <<current, quantum, csc, saved, pc, priority, idle, waitq, wcount,
                       blockedOn, blockRet, irq, waking>>
    BY <1>1 DEF thread_sleep_handler, Expired, waitVars
  <2>2. /\ t \in Threads /\ state[t] = "SLEEPING"
        /\ timers' \in Seq(TimerEntries) /\ SleepersOf(timers', woken)
    BY <1>0, <2>1, FirstTimer DEF TimerEntries
  <2> HIDE DEF t
  <2>3. runq' \in RunQueues
    BY <1>0, <2>1, <2>2, InsertType
  <2>4. RunQueueOK(woken, runq', priority)
    BY <1>0, <2>1, <2>2, <2>3, InsertReady
  <2>5. WaitQueueOK(woken, waitq, wcount, blockedOn)
    <3>1. \A u \in Threads : state[u] = "BLOCKED" <=> woken[u] = "BLOCKED"
      BY <1>0, <2>2
    <3> QED BY <1>0, <3>1, SameBlocked
  <2> QED BY <1>0, <2>1, <2>2, <2>3, <2>4, <2>5, ReadyStays
<1>2. CASE wait_queue_timeout_handler
  <2> DEFINE t == Head(timers).thread
             w == blockedOn[t]
             rest == RemoveAt(waitq[w], PositionOf(t, waitq[w]))
             woken == [state EXCEPT ![t] = "READY"]
  <2>1. /\ timers # <<>> /\ timers' = Tail(timers)
        /\ UNCHANGED <<current, quantum, saved, pc, priority, idle, irq, waking>>
    BY <1>2 DEF wait_queue_timeout_handler, Expired
  <2>2. /\ t \in Threads /\ timers' \in Seq(TimerEntries)
        /\ SleepersOf(timers', state)
    BY <1>0, <2>1, FirstTimer DEF TimerEntries
  <2>3. CASE state[t] = "BLOCKED"
    <3>1. /\ Unblock(t, w, rest, "ERR_TIMED_OUT")
          /\ state' = woken
          /\ runq' = insert_in_run_queue_head(runq, t)
          /\ csc' = csc
      BY <1>2, <2>3 DEF wait_queue_timeout_handler
    <3>2. w \in WaitQueues
      BY <1>0, <2>2, <2>3 DEF WaitQueueOK
    <3> HIDE DEF t
    <3>3. /\ rest \in Seq(Threads) /\ IsInjective(rest)
          /\ Len(rest) = Len(waitq[w]) - 1
          /\ ToSet(rest) = ToSet(waitq[w]) \ {t}
      BY <2>2, <2>3, <3>2, AnyWaiter
    <3> HIDE DEF rest
    <3>4. /\ waitq' \in [WaitQueues -> Seq(Threads)]
          /\ wcount' \in [WaitQueues -> Int]
          /\ blockedOn' \in [Threads -> WaitQueues \cup {None}]
          /\ blockRet' \in [Threads -> Results]
          /\ WaitQueueOK(woken, waitq', wcount', blockedOn')
          /\ insert_in_run_queue_head(runq, t) \in RunQueues
          /\ RunQueueOK(woken, insert_in_run_queue_head(runq, t), priority)
      <4>1. "ERR_TIMED_OUT" \in Results
        BY DEF Results
      <4> QED BY <2>2, <2>3, <3>1, <3>2, <3>3, <4>1, Woken
    <3>5. SleepersOf(timers', woken)
      <4>1. \A u \in Threads : state[u] = "SLEEPING" => woken[u] = "SLEEPING"
        BY <1>0, <2>2, <2>3
      <4>2. \A i \in DOMAIN timers' : timers'[i] \in TimerEntries
        BY <2>2
      <4>3. \A i \in DOMAIN timers' : timers'[i].thread \in Threads
        BY <4>2 DEF TimerEntries
      <4> HIDE DEF woken
      <4> QED BY <2>2, <4>1, <4>3 DEF SleepersOf
    <3> QED BY <1>0, <2>1, <2>2, <2>3, <3>1, <3>4, <3>5, ReadyStays
  <2>4. CASE state[t] # "BLOCKED"
    <3>1. csc' = csc + 1 /\ UNCHANGED <<waitVars, state, runq>>
      BY <1>2, <2>4 DEF wait_queue_timeout_handler
    <3>2. csc' \in Int
      BY <1>0, <3>1
    <3> QED BY <1>0, <2>1, <2>2, <3>1, <3>2, SchedulerKept
  <2> QED BY <2>3, <2>4
<1>3. CASE timer_tick_done
  <2>1. /\ quantum' = IF current = idle \/ quantum[current] = 0 THEN quantum
                      ELSE [quantum EXCEPT ![current] = @ - 1]
        /\ irq' = "preempt"
        /\ UNCHANGED <<current, state, runq, csc, saved, pc, priority, idle,
                       waitVars, timers, waking>>
    BY <1>3 DEF timer_tick_done
  <2>2. quantum' \in [Threads -> 0..Quantum]
    BY <1>0, <2>1, ConstantTypes
  <2> QED BY <1>0, <2>1, <2>2, SchedulerKept
<1>4. CASE thread_preempt
  <2> DEFINE st == [state EXCEPT ![current] = "READY"]
             q == IF quantum[current] > 0
                  THEN insert_in_run_queue_head(runq, current)
                  ELSE insert_in_run_queue_tail(runq, current)
  <2>1. /\ thread_resched(st, q, quantum, csc + 1)
        /\ pc' = [pc EXCEPT ![current] = "irq"]
        /\ waking = None /\ irq' = "none"
        /\ UNCHANGED <<priority, idle, waitVars, timers, waking>>
    BY <1>4 DEF thread_preempt
  <2>2. /\ state[current] = "RUNNING" /\ Idle \in Threads
        /\ state[Idle] \in {"READY", "RUNNING"}
        /\ \A t \in Threads : state[t] = "RUNNING" => t = current
    BY <2>1, ConstantTypes DEF IInv, CurrentInv
  <2>3. /\ q \in RunQueues /\ csc + 1 \in Int
        /\ pc' \in [Threads -> Frames]
    BY <1>0, <2>1, InsertType DEF Frames
  <2>4. st \in [Threads -> States]
    BY <1>0 DEF States
  <2>5. RunQueueOK(st, q, priority)
    BY <1>0, <2>2, <2>3, InsertReady
  <2>6. /\ \A t \in Threads : st[t] # "RUNNING"
        /\ st[Idle] = "READY"
        /\ \A t \in Threads : /\ state[t] \in {"BLOCKED", "SLEEPING"} => st[t] = state[t]
                              /\ st[t] = "BLOCKED" => state[t] = "BLOCKED"
                              /\ state[t] = "SLEEPING" => st[t] = "SLEEPING"
        /\ Readied(st)
    BY <1>0, <2>2 DEF Readied
  <2> HIDE DEF st, q
  <2>7. Switched(st)
    BY <1>0, <2>1, <2>3, <2>4, <2>5, <2>6, SwitchStep
  <2>8. timers' \in Seq(TimerEntries) /\ SleepersOf(timers', st)
    BY <1>0, <2>1, <2>6, SameSleepers
  <2> QED BY <1>0, <2>1, <2>3, <2>4, <2>6, <2>7, <2>8, KeptAfterSwitch
<1> QED BY <1>1, <1>2, <1>3, <1>4 DEF HandlerStep

\* Every step of the scheduler keeps the invariant.
LEMMA NextKeeps ==
    ASSUME IInv, [KernelNext]_vars
    PROVE  IInv' /\ Top
<1>1. CASE UNCHANGED vars
  <2>1. UNCHANGED <<current, state, quantum, runq, csc, saved, pc, priority, idle, waitq,
                    wcount, blockedOn, blockRet, timers, irq, waking>>
    BY <1>1 DEF vars, schedVars, waitVars
  <2> QED BY <2>1 DEF IInv, TypeOK, RunQueueInv, WaitQueueInv, CurrentInv, Top
<1>2. CASE KernelNext
  BY <1>1, <1>2, ThreadStepKeeps, WaitCallKeeps, ReturnStepKeeps, IrqCallKeeps,
     IrqTickKeeps, HandlerStepKeeps DEF KernelNext, stopped
<1> QED BY <1>1, <1>2

-----------------------------------------------------------------------------

\* The invariant the theorems below are read off from.
LEMMA SpecIInv == Spec => []IInv
<1>1. Init => IInv
  BY InitIInv
<1>2. IInv /\ [Next]_vars => IInv'
  BY NextKeeps, NextIsKernelNext
<1> QED BY <1>1, <1>2, PTL DEF Spec

\* Every variable of the scheduler keeps its shape, for any number of threads,
\* priorities and wait queues.
THEOREM TypeCorrect == Spec => []TypeOK
<1>1. IInv => TypeOK
  BY DEF IInv
<1> QED BY <1>1, SpecIInv, PTL

\* The run queue holds exactly the ready threads, each once and at its own
\* priority, and the bitmap thread_resched searches names exactly its lists
\* that are not empty.
THEOREM RunQueueCorrect == Spec => []RunQueueInv
<1>1. IInv => RunQueueInv
  BY DEF IInv
<1> QED BY <1>1, SpecIInv, PTL

\* Each wait queue holds exactly the threads blocked on it, once, and its count
\* is right, whatever order wakers, timeouts and interrupts come in.
THEOREM WaitQueueCorrect == Spec => []WaitQueueInv
<1>1. IInv => WaitQueueInv
  BY DEF IInv
<1> QED BY <1>1, SpecIInv, PTL

\* One thread runs, and thread_resched always finds a ready thread: the idle
\* thread never leaves the run queue for anything but the processor.
THEOREM CurrentCorrect == Spec => []CurrentInv
<1>1. IInv => CurrentInv
  BY DEF IInv
<1> QED BY <1>1, SpecIInv, PTL

\* Every switch, by a call or by an interrupt, is to a thread of the highest
\* priority that is ready.
THEOREM SwitchesCorrect == Spec => SwitchesToHighest
<1>1. IInv /\ [Next]_vars => [Top]_vars
  BY NextKeeps, NextIsKernelNext
<1>2. [Top]_vars => [current' # current =>
                        \A t \in Threads : state'[t] = "READY" =>
                            priority'[t] <= priority'[current']]_vars
  BY DEF Top
<1> QED BY <1>1, <1>2, SpecIInv, PTL DEF Spec, SwitchesToHighest

-----------------------------------------------------------------------------
(* Timers, the results wakers leave, and critical sections.                *)
(*                                                                         *)
(* KInv strengthens IInv with FrameInv, where each thread is in the code   *)
(* when interrupts and wake-ups come, and with three facts about the timer *)
(* queue that together give TimerInv.  It is kept by every step of the     *)
(* kernel whoever its client is, so the modules about mutexes, events and  *)
(* deferred calls build on it.                                             *)

\* Where the threads are: interrupts and wake-up loops find the current thread
\* in its own code or in the call that runs the loop, and exactly the threads
\* inside wait_queue_block can be blocked.
FrameInv ==
    /\ irq # "none" \/ waking # None => pc[current] = "run"
    /\ irq = "tick" => waking = None
    /\ waking # None /\ waking.resched => irq = "none"
    /\ \A t \in Threads :
          /\ state[t] = "BLOCKED" => pc[t] = "block"
          /\ pc[t] = "block" => state[t] \in {"BLOCKED", "READY", "RUNNING"}

\* The timers of tm are in the order of their expiry, one per thread at most.
Ordered(tm) ==
    \A i, j \in DOMAIN tm :
        /\ tm[i].thread = tm[j].thread => i = j
        /\ i < j => tm[i].left <= tm[j].left

\* The timeouts of tm belong to threads inside wait_queue_block.
TimeoutsOf(tm, fr) == \A e \in ToSet(tm) : e.cb = "timeout" => fr[e.thread] = "block"

\* Every sleeper of st has a timer in tm.
SleepersHave(tm, st) ==
    \A t \in Threads : st[t] = "SLEEPING" =>
        \E e \in ToSet(tm) : e.thread = t /\ e.cb = "sleep"

KInv == /\ IInv
        /\ FrameInv
        /\ Ordered(timers) /\ TimeoutsOf(timers, pc) /\ SleepersHave(timers, state)

LEMMA KInvTimerInv == KInv => TimerInv
<1> SUFFICES ASSUME KInv PROVE TimerInv
  OBVIOUS
<1>1. /\ timers \in Seq(TimerEntries)
      /\ SleepersOf(timers, state) /\ Ordered(timers)
      /\ TimeoutsOf(timers, pc) /\ SleepersHave(timers, state) /\ FrameInv
  BY DEF KInv, IInv, TypeOK
<1>2. ASSUME NEW i \in DOMAIN timers
      PROVE  /\ timers[i].cb = "sleep" => state[timers[i].thread] = "SLEEPING"
             /\ timers[i].cb = "timeout" =>
                  /\ pc[timers[i].thread] = "block"
                  /\ state[timers[i].thread] \in {"BLOCKED", "READY", "RUNNING"}
             /\ \A j \in DOMAIN timers :
                  /\ timers[i].thread = timers[j].thread => i = j
                  /\ i < j => timers[i].left <= timers[j].left
  <2>1. timers[i] \in TimerEntries
    BY <1>1
  <2>2. timers[i].thread \in Threads /\ timers[i] \in ToSet(timers)
    BY <2>1 DEF TimerEntries, ToSet
  <2>3. timers[i].cb = "timeout" => pc[timers[i].thread] = "block"
    BY <1>1, <2>2 DEF TimeoutsOf
  <2> QED BY <1>1, <2>2, <2>3 DEF SleepersOf, Ordered, FrameInv
<1>3. \A t \in Threads : state[t] = "SLEEPING" =>
         \E i \in DOMAIN timers : timers[i].thread = t /\ timers[i].cb = "sleep"
  BY <1>1 DEF SleepersHave, ToSet
<1> QED BY <1>2, <1>3 DEF TimerInv

-----------------------------------------------------------------------------
(* The timer queue                                                         *)

\* The place insert_timer_in_queue finds: in front of the first timer that
\* expires later, or at the end.
LEMMA InsertPlace ==
    ASSUME timers \in Seq(TimerEntries), NEW e, insert_timer_in_queue(e)
    PROVE  \E n \in 1 .. Len(timers) + 1 :
              /\ timers' = InsertAt(timers, n, e)
              /\ n \in DOMAIN timers => timers[n].left > e.left
              /\ \A i \in DOMAIN timers : i < n => ~ (timers[i].left > e.left)
<1> DEFINE later == {i \in DOMAIN timers : timers[i].left > e.left}
<1>1. CASE later = {}
  <2>1. timers' = InsertAt(timers, Len(timers) + 1, e)
    BY <1>1 DEF insert_timer_in_queue
  <2> QED BY <1>1, <2>1
<1>2. CASE later # {}
  <2>1. later \in SUBSET Nat
    OBVIOUS
  <2>2. \E i \in later : \A j \in later : i <= j
    <3> HIDE DEF later
    <3> QED BY <1>2, <2>1, LeastNat
  <2>3. PICK n : n = CHOOSE i \in later : \A j \in later : i <= j
    OBVIOUS
  <2>4. n \in later /\ \A j \in later : n <= j
    <3> HIDE DEF later
    <3> QED BY <2>2, <2>3
  <2>5. timers' = InsertAt(timers, n, e)
    BY <1>2, <2>3 DEF insert_timer_in_queue
  <2>6. ASSUME NEW i \in DOMAIN timers, i < n PROVE ~ (timers[i].left > e.left)
    BY <2>4, <2>6
  <2> QED BY <2>4, <2>5, <2>6
<1> QED BY <1>1, <1>2

\* A timer of a thread that had none is queued in its place.
LEMMA InsertTimer ==
    ASSUME timers \in Seq(TimerEntries), Ordered(timers), NEW e \in TimerEntries,
           \A x \in ToSet(timers) : x.thread # e.thread,
           insert_timer_in_queue(e)
    PROVE  Ordered(timers') /\ ToSet(timers') = ToSet(timers) \cup {e}
<1>1. PICK n \in 1 .. Len(timers) + 1 :
         /\ timers' = InsertAt(timers, n, e)
         /\ n \in DOMAIN timers => timers[n].left > e.left
         /\ \A i \in DOMAIN timers : i < n => ~ (timers[i].left > e.left)
  BY InsertPlace
<1> DEFINE r == InsertAt(timers, n, e)
<1>2. /\ r \in Seq(TimerEntries)
      /\ Len(r) = Len(timers) + 1
      /\ \A k \in 1 .. Len(timers) + 1 :
            r[k] = IF k < n THEN timers[k] ELSE IF k = n THEN e ELSE timers[k - 1]
  BY PutIn, SMTT(30)
<1> DEFINE f(k) == IF k < n THEN k ELSE k - 1
<1> HIDE DEF r
<1>3. \A k \in DOMAIN r : \/ k = n /\ r[k] = e
                          \/ k # n /\ f(k) \in DOMAIN timers /\ r[k] = timers[f(k)]
  BY <1>2
<1>4. \A j, k \in DOMAIN r : j # n /\ k # n =>
         /\ f(j) = f(k) => j = k
         /\ j < k => f(j) < f(k)
  BY <1>2
<1>5. \A i \in DOMAIN timers : /\ timers[i] \in TimerEntries
                               /\ timers[i].thread # e.thread
                               /\ timers[i].left \in Nat /\ e.left \in Nat
  <2> TAKE i \in DOMAIN timers
  <2>1. timers[i] \in TimerEntries /\ timers[i] \in ToSet(timers)
    BY DEF ToSet
  <2> QED BY <2>1 DEF TimerEntries
<1>6. \A i \in DOMAIN timers : /\ i < n => timers[i].left <= e.left
                               /\ i >= n => e.left <= timers[i].left
  <2> TAKE i \in DOMAIN timers
  <2>1. CASE i < n
    BY <1>1, <1>5, <2>1
  <2>2. CASE i = n
    BY <1>1, <1>5, <2>2
  <2>3. CASE i > n
    <3>1. n \in DOMAIN timers
      BY <2>3
    <3>2. timers[n].left <= timers[i].left
      BY <2>3, <3>1 DEF Ordered
    <3> QED BY <1>1, <1>5, <2>3, <3>1, <3>2
  <2> QED BY <2>1, <2>2, <2>3
<1>7. \A k \in DOMAIN r : k # n => (k < n <=> f(k) < n)
  BY <1>2
<1> HIDE DEF f
<1>8. ASSUME NEW j \in DOMAIN r, NEW k \in DOMAIN r
      PROVE  /\ r[j].thread = r[k].thread => j = k
             /\ j < k => r[j].left <= r[k].left
  <2>0. j \in Int /\ k \in Int /\ n \in Int /\ e.left <= e.left
    BY <1>2 DEF TimerEntries
  <2>1. CASE j = n /\ k = n
    BY <2>0, <2>1, <1>3
  <2>2. CASE j = n /\ k # n
    <3>1. f(k) \in DOMAIN timers /\ r[k] = timers[f(k)] /\ r[j] = e
      BY <2>2, <1>3
    <3>2. j < k => f(k) >= n
      BY <2>2, <2>0, <3>1, <1>7
    <3> QED BY <3>1, <3>2, <1>5, <1>6
  <2>3. CASE j # n /\ k = n
    <3>1. f(j) \in DOMAIN timers /\ r[j] = timers[f(j)] /\ r[k] = e
      BY <2>3, <1>3
    <3>2. j < k => f(j) < n
      BY <2>3, <1>7
    <3> QED BY <3>1, <3>2, <1>5, <1>6
  <2>4. CASE j # n /\ k # n
    <3>1. /\ f(j) \in DOMAIN timers /\ r[j] = timers[f(j)]
          /\ f(k) \in DOMAIN timers /\ r[k] = timers[f(k)]
      BY <2>4, <1>3
    <3> QED BY <2>4, <3>1, <1>4 DEF Ordered
  <2> QED BY <2>1, <2>2, <2>3, <2>4
<1>9. ToSet(r) = ToSet(timers) \cup {e}
  <2>1. \A x \in ToSet(r) : x = e \/ x \in ToSet(timers)
    BY <1>3 DEF ToSet
  <2>2. e \in ToSet(r)
    <3>1. n \in DOMAIN r
      BY <1>2
    <3> QED BY <3>1, <1>3 DEF ToSet
  <2>3. ASSUME NEW x \in ToSet(timers) PROVE x \in ToSet(r)
    <3>1. PICK i \in DOMAIN timers : x = timers[i]
      BY DEF ToSet
    <3>2. CASE i < n
      <4>1. i \in DOMAIN r /\ r[i] = timers[i]
        BY <3>2, <1>2
      <4> QED BY <3>1, <4>1 DEF ToSet
    <3>3. CASE i >= n
      <4>1. i + 1 \in DOMAIN r /\ r[i + 1] = timers[(i + 1) - 1]
        BY <3>3, <1>2
      <4>2. (i + 1) - 1 = i
        OBVIOUS
      <4> QED BY <3>1, <4>1, <4>2 DEF ToSet
    <3> QED BY <3>2, <3>3
  <2> QED BY <2>1, <2>2, <2>3
<1> QED BY <1>1, <1>8, <1>9 DEF Ordered, r

\* The first timer leaves the queue, and with it the only one of its thread.
LEMMA FirstLeaves ==
    ASSUME NEW tm \in Seq(TimerEntries), Ordered(tm), tm # <<>>
    PROVE  /\ Ordered(Tail(tm))
           /\ Head(tm) \in ToSet(tm) /\ Head(tm).thread \in Threads
           /\ ToSet(Tail(tm)) = {x \in ToSet(tm) : x.thread # Head(tm).thread}
<1> DEFINE r == Tail(tm)
<1>0. r = Tail(tm)
  OBVIOUS
<1>1. /\ Len(tm) \in Nat /\ Len(tm) > 0 /\ DOMAIN tm = 1 .. Len(tm)
      /\ r \in Seq(TimerEntries) /\ DOMAIN r = 1 .. Len(tm) - 1
      /\ \A i \in 1 .. Len(tm) - 1 : r[i] = tm[i + 1]
      /\ Head(tm) = tm[1] /\ tm[1] \in TimerEntries
  OBVIOUS
<1> HIDE DEF r
<1>2. \A i \in DOMAIN r : /\ i \in Int /\ i + 1 \in DOMAIN tm /\ i + 1 # 1
                          /\ r[i] = tm[i + 1]
  BY <1>1
<1>3. 1 \in DOMAIN tm
  BY <1>1
<1>4. ASSUME NEW i \in DOMAIN r, NEW j \in DOMAIN r
      PROVE  /\ r[i].thread = r[j].thread => i = j
             /\ i < j => r[i].left <= r[j].left
  <2>1. i + 1 = j + 1 => i = j
    BY <1>2
  <2>2. i < j => i + 1 < j + 1
    BY <1>2
  <2> QED BY <1>2, <2>1, <2>2 DEF Ordered
<1>5. \A x \in ToSet(r) : x \in ToSet(tm) /\ x.thread # Head(tm).thread
  BY <1>1, <1>2, <1>3 DEF ToSet, Ordered
<1>6. ASSUME NEW x \in ToSet(tm), x.thread # Head(tm).thread PROVE x \in ToSet(r)
  <2>1. PICK i \in DOMAIN tm : x = tm[i]
    BY DEF ToSet
  <2>2. i # 1 /\ i \in 1 .. Len(tm)
    BY <1>1, <1>6, <2>1
  <2>3. i - 1 \in DOMAIN r /\ (i - 1) + 1 = i
    BY <1>1, <2>2
  <2> QED BY <1>2, <2>1, <2>3 DEF ToSet
<1>7. Head(tm) \in ToSet(tm) /\ Head(tm).thread \in Threads
  BY <1>1, <1>3 DEF ToSet, TimerEntries
<1> QED BY <1>0, <1>4, <1>5, <1>6, <1>7 DEF Ordered

\* timer_cancel takes out the one timer of t, if it has one.
LEMMA OwnLeaves ==
    ASSUME timers \in Seq(TimerEntries), Ordered(timers), NEW t, timer_cancel(t)
    PROVE  /\ Ordered(timers')
           /\ ToSet(timers') = {x \in ToSet(timers) : x.thread # t}
<1>1. CASE ~ \E i \in DOMAIN timers : timers[i].thread = t
  <2>1. timers' = timers
    BY <1>1 DEF timer_cancel
  <2> QED BY <1>1, <2>1 DEF ToSet
<1>2. CASE \E i \in DOMAIN timers : timers[i].thread = t
  <2> DEFINE n == CHOOSE i \in DOMAIN timers : timers[i].thread = t
             r == RemoveAt(timers, n)
             f(k) == IF k < n THEN k ELSE k + 1
  <2>1. n \in DOMAIN timers /\ timers[n].thread = t /\ timers' = r
    BY <1>2 DEF timer_cancel
  <2> HIDE DEF n
  <2>2. /\ r \in Seq(TimerEntries)
        /\ Len(r) = Len(timers) - 1
        /\ \A k \in 1 .. Len(timers) - 1 :
              r[k] = IF k < n THEN timers[k] ELSE timers[k + 1]
    <3>1. n \in 1 .. Len(timers)
      BY <2>1
    <3> QED BY <3>1, CutElements
  <2> HIDE DEF r
  <2>3. \A k \in DOMAIN r : f(k) \in DOMAIN timers /\ f(k) # n /\ r[k] = timers[f(k)]
    BY <2>1, <2>2
  <2>4. \A j, k \in DOMAIN r : /\ f(j) = f(k) => j = k
                               /\ j < k => f(j) < f(k)
    BY <2>1, <2>2
  <2> HIDE DEF f
  <2>5. Ordered(r)
    BY <2>3, <2>4 DEF Ordered
  <2>6. \A x \in ToSet(r) : x \in ToSet(timers) /\ x.thread # t
    BY <2>1, <2>3 DEF ToSet, Ordered
  <2>7. ASSUME NEW x \in ToSet(timers), x.thread # t PROVE x \in ToSet(r)
    <3>1. PICK i \in DOMAIN timers : x = timers[i]
      BY DEF ToSet
    <3>2. CASE i < n
      <4>1. i \in DOMAIN r /\ r[i] = timers[i]
        BY <2>1, <2>2, <3>2
      <4> QED BY <3>1, <4>1 DEF ToSet
    <3>3. CASE i > n
      <4>1. i - 1 \in DOMAIN r /\ ~ (i - 1 < n) /\ (i - 1) + 1 = i
        BY <2>1, <2>2, <3>3
      <4>2. r[i - 1] = timers[i]
        BY <2>2, <4>1
      <4> QED BY <3>1, <4>1, <4>2 DEF ToSet
    <3> QED BY <2>1, <2>7, <3>1, <3>2, <3>3
  <2> QED BY <2>1, <2>5, <2>6, <2>7
<1> QED BY <1>1, <1>2

\* A tick keeps the order: a timer that is due stays in front.
LEMMA TickTimers ==
    ASSUME timers \in Seq(TimerEntries), Ordered(timers),
           timers' = [i \in DOMAIN timers |->
                        [timers[i] EXCEPT !.left = IF @ > 0 THEN @ - 1 ELSE 0]]
    PROVE  /\ Ordered(timers')
           /\ \A x \in ToSet(timers') : \E y \in ToSet(timers) :
                 x.thread = y.thread /\ x.cb = y.cb
           /\ \A y \in ToSet(timers) : \E x \in ToSet(timers') :
                 x.thread = y.thread /\ x.cb = y.cb
<1>1. ASSUME NEW i \in DOMAIN timers
      PROVE  /\ timers'[i].thread = timers[i].thread
             /\ timers'[i].cb = timers[i].cb
             /\ timers[i].left \in Nat
             /\ timers'[i].left = IF timers[i].left > 0 THEN timers[i].left - 1 ELSE 0
  <2>1. timers[i] \in TimerEntries
    OBVIOUS
  <2> QED BY <2>1 DEF TimerEntries
<1>2. DOMAIN timers' = DOMAIN timers
  OBVIOUS
<1>3. Ordered(timers')
  <2> SUFFICES ASSUME NEW i \in DOMAIN timers, NEW j \in DOMAIN timers
               PROVE  /\ timers'[i].thread = timers'[j].thread => i = j
                      /\ i < j => timers'[i].left <= timers'[j].left
    BY <1>2 DEF Ordered
  <2>1. i < j => timers[i].left <= timers[j].left
    BY DEF Ordered
  <2>2. timers[i].left \in Nat /\ timers[j].left \in Nat
    BY <1>1
  <2>3. /\ timers'[i].left = IF timers[i].left > 0 THEN timers[i].left - 1 ELSE 0
        /\ timers'[j].left = IF timers[j].left > 0 THEN timers[j].left - 1 ELSE 0
    BY <1>1
  <2>4. i < j => timers'[i].left <= timers'[j].left
    BY <2>1, <2>2, <2>3
  <2> QED BY <1>1, <2>4, SMTT(30) DEF Ordered
<1>4. ASSUME NEW x \in ToSet(timers')
      PROVE  \E y \in ToSet(timers) : x.thread = y.thread /\ x.cb = y.cb
  <2>1. PICK i \in DOMAIN timers' : x = timers'[i]
    BY DEF ToSet
  <2>2. timers[i] \in ToSet(timers) /\ i \in DOMAIN timers
    BY <1>2 DEF ToSet
  <2> QED BY <1>1, <2>1, <2>2
<1>5. ASSUME NEW y \in ToSet(timers)
      PROVE  \E x \in ToSet(timers') : x.thread = y.thread /\ x.cb = y.cb
  <2>1. PICK i \in DOMAIN timers : y = timers[i]
    BY DEF ToSet
  <2>2. timers'[i] \in ToSet(timers')
    BY <1>2 DEF ToSet
  <2> QED BY <1>1, <2>1, <2>2
<1> QED BY <1>3, <1>4, <1>5

-----------------------------------------------------------------------------
(* Steps of the scheduler                                                  *)

\* Every timer of the queue is the timer of a thread.
LEMMA QueuedTimers ==
    ASSUME NEW tm \in Seq(TimerEntries)
    PROVE  \A e \in ToSet(tm) : e \in TimerEntries /\ e.thread \in Threads
<1>1. \A i \in DOMAIN tm : tm[i] \in TimerEntries
  OBVIOUS
<1> QED BY <1>1 DEF ToSet, TimerEntries

\* A step that blocks nobody and lets no thread into wait_queue_block or out of
\* it leaves the frames right.
LEMMA FrameKept ==
    ASSUME KInv,
           \A t \in Threads :
              /\ state'[t] = "BLOCKED" => state[t] = "BLOCKED"
              /\ pc'[t] = "block" <=> pc[t] = "block"
              /\ pc[t] = "block" => state'[t] \in {state[t], "READY", "RUNNING"},
           irq' # "none" \/ waking' # None => pc'[current'] = "run",
           irq' = "tick" => waking' = None,
           waking' # None /\ waking'.resched => irq' = "none"
    PROVE  FrameInv'
BY DEF KInv, FrameInv

\* Such a step, when no sleep begins and no timer comes or goes.
LEMMA QuietStep ==
    ASSUME KInv, IInv', timers' = timers,
           \A t \in Threads :
              /\ state'[t] \in {"BLOCKED", "SLEEPING"} => state'[t] = state[t]
              /\ pc'[t] = "block" <=> pc[t] = "block"
              /\ pc[t] = "block" => state'[t] \in {state[t], "READY", "RUNNING"},
           irq' # "none" \/ waking' # None => pc'[current'] = "run",
           irq' = "tick" => waking' = None,
           waking' # None /\ waking'.resched => irq' = "none"
    PROVE  KInv'
<1>1. FrameInv'
  BY FrameKept
<1>2. /\ timers \in Seq(TimerEntries)
      /\ TimeoutsOf(timers, pc) /\ SleepersHave(timers, state) /\ Ordered(timers)
  BY DEF KInv, IInv, TypeOK
<1>3. \A e \in ToSet(timers) : e.thread \in Threads
  BY <1>2, QueuedTimers
<1>4. TimeoutsOf(timers, pc')
  BY <1>2, <1>3 DEF TimeoutsOf
<1>5. SleepersHave(timers, state')
  BY <1>2 DEF SleepersHave
<1> QED BY <1>1, <1>2, <1>4, <1>5 DEF KInv

\* A switch that leaves the caller in a call other than wait_queue_block.
LEMMA SwitchFrame ==
    ASSUME KInv, IInv',
           NEW st \in [Threads -> States], NEW q, NEW qn, NEW c,
           thread_resched(st, q, qn, c),
           NEW f \in Frames, f # "block", pc' = [pc EXCEPT ![current] = f],
           pc[current] # "block",
           \A t \in Threads : st[t] = "BLOCKED" => state[t] = "BLOCKED",
           \A t \in Threads \ {current} : st[t] \in {state[t], "READY"},
           irq' = "none", waking' = None
    PROVE  /\ FrameInv'
           /\ \A t \in Threads : /\ state'[t] = "SLEEPING" => st[t] = "SLEEPING"
                                 /\ pc'[t] = "block" <=> pc[t] = "block"
<1>1. /\ pc \in [Threads -> Frames] /\ current \in Threads /\ current' \in Threads
  BY DEF KInv, IInv, TypeOK
<1>2. state' = [st EXCEPT ![current'] = "RUNNING"]
  BY DEF thread_resched
<1>3. \A t \in Threads : /\ t # current => pc'[t] = pc[t]
                         /\ pc'[current] = f
                         /\ state'[t] = IF t = current' THEN "RUNNING" ELSE st[t]
  BY <1>1, <1>2
<1>4. \A t \in Threads :
         /\ state'[t] = "BLOCKED" => state[t] = "BLOCKED"
         /\ pc'[t] = "block" <=> pc[t] = "block"
         /\ pc[t] = "block" => state'[t] \in {state[t], "READY", "RUNNING"}
  BY <1>1, <1>3
<1>5. FrameInv'
  BY <1>4, FrameKept
<1> QED BY <1>3, <1>4, <1>5

\* Such a switch when no sleep begins and no timer comes or goes.
LEMMA QuietSwitch ==
    ASSUME KInv, IInv', timers' = timers,
           NEW st \in [Threads -> States], NEW q, NEW qn, NEW c,
           thread_resched(st, q, qn, c),
           NEW f \in Frames, f # "block", pc' = [pc EXCEPT ![current] = f],
           pc[current] # "block",
           \A t \in Threads : st[t] \in {"BLOCKED", "SLEEPING"} => st[t] = state[t],
           \A t \in Threads \ {current} : st[t] \in {state[t], "READY"},
           irq' = "none", waking' = None
    PROVE  KInv'
<1>1. /\ FrameInv'
      /\ \A t \in Threads : /\ state'[t] = "SLEEPING" => st[t] = "SLEEPING"
                            /\ pc'[t] = "block" <=> pc[t] = "block"
  BY SwitchFrame
<1>2. /\ timers \in Seq(TimerEntries)
      /\ TimeoutsOf(timers, pc) /\ SleepersHave(timers, state) /\ Ordered(timers)
  BY DEF KInv, IInv, TypeOK
<1>3. \A e \in ToSet(timers) : e.thread \in Threads
  BY <1>2, QueuedTimers
<1>4. TimeoutsOf(timers, pc')
  BY <1>1, <1>2, <1>3 DEF TimeoutsOf
<1>5. SleepersHave(timers, state')
  BY <1>1, <1>2 DEF SleepersHave
<1> QED BY <1>1, <1>2, <1>4, <1>5 DEF KInv

\* The caller of a kernel call has no timer in the queue.
LEMMA CallerHasNoTimer ==
    ASSUME KInv, Calls
    PROVE  \A e \in ToSet(timers) : e.thread # current
<1>1. /\ timers \in Seq(TimerEntries) /\ SleepersOf(timers, state)
      /\ TimeoutsOf(timers, pc)
      /\ pc[current] = "run" /\ state[current] = "RUNNING"
  BY CallFacts DEF KInv, IInv, TypeOK, Calls, Interruptible
<1>2. \A e \in ToSet(timers) : e.cb = "sleep" => state[e.thread] = "SLEEPING"
  BY <1>1 DEF SleepersOf, ToSet
<1>3. \A e \in ToSet(timers) : e.cb \in {"sleep", "timeout"}
  BY <1>1, QueuedTimers DEF TimerEntries
<1> QED BY <1>1, <1>2, <1>3 DEF TimeoutsOf

\* Thread calls keep the timers and the frames right.
LEMMA ThreadStepKInv ==
    ASSUME KInv, ThreadStep
    PROVE  KInv'
<1>0. /\ IInv /\ IInv' /\ FrameInv
      /\ state \in [Threads -> States] /\ pc \in [Threads -> Frames]
      /\ current \in Threads /\ timers \in Seq(TimerEntries)
  BY ThreadStepKeeps DEF KInv, IInv, TypeOK
<1>1. CASE thread_become_idle
  <2>1. /\ irq' = "none" /\ waking' = None
        /\ UNCHANGED <<current, state, pc, timers>>
    BY <1>1 DEF thread_become_idle, Interruptible, schedVars
  <2> QED BY <1>0, <2>1, QuietStep
<1>2. CASE thread_yield
  <2> DEFINE st == [state EXCEPT ![current] = "READY"]
  <2>1. /\ thread_resched(st, insert_in_run_queue_tail(runq, current),
                          [quantum EXCEPT ![current] = 0], 1)
        /\ pc' = [pc EXCEPT ![current] = "yield"]
        /\ pc[current] = "run" /\ irq' = "none" /\ waking' = None /\ timers' = timers
    BY <1>2 DEF thread_yield, Calls, Interruptible
  <2>2. /\ st \in [Threads -> States] /\ "yield" \in Frames
        /\ \A t \in Threads : st[t] = IF t = current THEN "READY" ELSE state[t]
    BY <1>0 DEF States, Frames
  <2> HIDE DEF st
  <2> QED BY <1>0, <2>1, <2>2, QuietSwitch
<1>3. CASE thread_exit
  <2> DEFINE st == [state EXCEPT ![current] = "DEATH"]
  <2>1. /\ thread_resched(st, runq, quantum, 1)
        /\ pc' = [pc EXCEPT ![current] = "dead"]
        /\ pc[current] = "run" /\ irq' = "none" /\ waking' = None /\ timers' = timers
    BY <1>3 DEF thread_exit, Calls, Interruptible
  <2>2. /\ st \in [Threads -> States] /\ "dead" \in Frames
        /\ \A t \in Threads : st[t] = IF t = current THEN "DEATH" ELSE state[t]
    BY <1>0 DEF States, Frames
  <2> HIDE DEF st
  <2> QED BY <1>0, <2>1, <2>2, QuietSwitch
<1>4. ASSUME NEW t \in Threads, thread_resume(t) PROVE KInv'
  <2> DEFINE st == [state EXCEPT ![t] = "READY", ![current] = "READY"]
  <2>1. /\ thread_resched(st, insert_in_run_queue_tail(
                                  insert_in_run_queue_head(runq, t), current),
                          [quantum EXCEPT ![current] = 0], 2)
        /\ pc' = [pc EXCEPT ![current] = "resume"]
        /\ pc[current] = "run" /\ irq' = "none" /\ waking' = None /\ timers' = timers
    BY <1>4 DEF thread_resume, Calls, Interruptible
  <2>2. /\ st \in [Threads -> States] /\ "resume" \in Frames
        /\ \A u \in Threads : st[u] = IF u = current \/ u = t THEN "READY" ELSE state[u]
    BY <1>0 DEF States, Frames
  <2> HIDE DEF st
  <2> QED BY <1>0, <2>1, <2>2, QuietSwitch
<1>5. ASSUME NEW t \in Threads, thread_cleanup(t) PROVE KInv'
  <2>1. /\ irq' = "none" /\ waking' = None /\ state[t] = "DEATH"
        /\ state' = [state EXCEPT ![t] = "NONE"]
        /\ UNCHANGED <<current, pc, timers>>
    BY <1>5 DEF thread_cleanup, Calls, Interruptible
  <2>2. \A u \in Threads : state'[u] = IF u = t THEN "NONE" ELSE state[u]
    BY <1>0, <2>1
  <2>3. pc[t] # "block"
    BY <1>0, <2>1 DEF FrameInv
  <2> QED BY <1>0, <2>1, <2>2, <2>3, QuietStep
<1>6. ASSUME NEW t \in Threads, NEW p \in NewPriorities, thread_create(t, p)
      PROVE  KInv'
  <2>1. /\ irq' = "none" /\ waking' = None /\ state[t] = "NONE"
        /\ state' = [state EXCEPT ![t] = "SUSPENDED"]
        /\ pc' = [pc EXCEPT ![t] = "fresh"]
        /\ UNCHANGED <<current, timers>>
    BY <1>6 DEF thread_create, Calls, Interruptible
  <2>2. \A u \in Threads : /\ state'[u] = IF u = t THEN "SUSPENDED" ELSE state[u]
                           /\ pc'[u] = IF u = t THEN "fresh" ELSE pc[u]
    BY <1>0, <2>1
  <2>3. pc[t] # "block"
    BY <1>0, <2>1 DEF FrameInv
  <2> QED BY <1>0, <2>1, <2>2, <2>3, QuietStep
<1>7. ASSUME NEW p \in NewPriorities, thread_set_priority(p) PROVE KInv'
  <2>1. /\ irq' = "none" /\ waking' = None
        /\ UNCHANGED <<current, state, pc, timers>>
    BY <1>7 DEF thread_set_priority, Calls, Interruptible, schedVars
  <2> QED BY <1>0, <2>1, QuietStep
<1>8. ASSUME NEW d \in Delays, thread_sleep(d) PROVE KInv'
  <2> DEFINE st == [state EXCEPT ![current] = "SLEEPING"]
             e == [thread |-> current, left |-> d, cb |-> "sleep"]
  <2>1. /\ Calls /\ insert_timer_in_queue(e)
        /\ thread_resched(st, runq, quantum, 1)
        /\ pc' = [pc EXCEPT ![current] = "sleep"]
        /\ pc[current] = "run" /\ irq' = "none" /\ waking' = None
    BY <1>8 DEF thread_sleep, Calls, Interruptible
  <2>2. /\ st \in [Threads -> States] /\ "sleep" \in Frames
        /\ \A t \in Threads : st[t] = IF t = current THEN "SLEEPING" ELSE state[t]
        /\ e \in TimerEntries /\ e.thread = current /\ e.cb = "sleep"
    BY <1>0, ConstantTypes DEF States, Frames, TimerEntries
  <2> HIDE DEF st, e
  <2>3. Ordered(timers') /\ ToSet(timers') = ToSet(timers) \cup {e}
    <3>1. \A x \in ToSet(timers) : x.thread # e.thread
      BY <2>1, <2>2, CallerHasNoTimer
    <3> QED BY <1>0, <2>1, <2>2, <3>1, InsertTimer DEF KInv
  <2>4. /\ FrameInv'
        /\ \A t \in Threads : /\ state'[t] = "SLEEPING" => st[t] = "SLEEPING"
                              /\ pc'[t] = "block" <=> pc[t] = "block"
    <3>1. /\ \A t \in Threads : st[t] = "BLOCKED" => state[t] = "BLOCKED"
          /\ \A t \in Threads \ {current} : st[t] \in {state[t], "READY"}
          /\ pc[current] # "block"
      BY <2>1, <2>2
    <3> QED BY <1>0, <2>1, <2>2, <3>1, SwitchFrame
  <2>5. TimeoutsOf(timers', pc')
    BY <1>0, <2>2, <2>3, <2>4, QueuedTimers DEF KInv, TimeoutsOf
  <2>6. SleepersHave(timers', state')
    BY <2>2, <2>3, <2>4 DEF KInv, SleepersHave
  <2> QED BY <1>0, <2>3, <2>4, <2>5, <2>6 DEF KInv
<1> QED BY <1>1, <1>2, <1>3, <1>4, <1>5, <1>6, <1>7, <1>8 DEF ThreadStep

\* Blocking on a wait queue and waking its threads keep them right.
LEMMA WaitCallKInv ==
    ASSUME KInv, WaitCall
    PROVE  KInv'
<1>0. /\ IInv /\ IInv' /\ FrameInv
      /\ state \in [Threads -> States] /\ pc \in [Threads -> Frames]
      /\ current \in Threads /\ current' \in Threads
      /\ timers \in Seq(TimerEntries)
  BY WaitCallKeeps DEF KInv, IInv, TypeOK
<1>1. ASSUME NEW w \in WaitQueues, NEW d \in Timeouts \cup {None},
             wait_queue_block(w, d)
      PROVE  KInv'
  <2> DEFINE st == [state EXCEPT ![current] = "BLOCKED"]
             e == [thread |-> current, left |-> d, cb |-> "timeout"]
  <2>1. /\ Calls
        /\ IF d = None THEN timers' = timers ELSE insert_timer_in_queue(e)
        /\ thread_resched(st, runq, quantum, 2)
        /\ pc' = [pc EXCEPT ![current] = "block"]
        /\ pc[current] = "run" /\ irq' = "none" /\ waking' = None
    BY <1>1 DEF wait_queue_block, Calls, Interruptible
  <2>2. state' = [st EXCEPT ![current'] = "RUNNING"]
    BY <2>1 DEF thread_resched
  <2>3. \A t \in Threads :
           /\ pc'[t] = IF t = current THEN "block" ELSE pc[t]
           /\ state'[t] = IF t = current' THEN "RUNNING"
                          ELSE IF t = current THEN "BLOCKED" ELSE state[t]
    BY <1>0, <2>1, <2>2
  <2>4. FrameInv'
    BY <1>0, <2>1, <2>3 DEF FrameInv
  <2>5. /\ Ordered(timers')
        /\ \A x \in ToSet(timers') : x \in ToSet(timers) \/ x.thread = current
        /\ \A x \in ToSet(timers) : x \in ToSet(timers')
    <3>1. CASE d = None
      BY <2>1, <3>1 DEF KInv
    <3>2. CASE d # None
      <4>1. e \in TimerEntries /\ e.thread = current
        BY <1>0, <3>2, ConstantTypes DEF TimerEntries
      <4>2. insert_timer_in_queue(e) /\ \A x \in ToSet(timers) : x.thread # e.thread
        BY <2>1, <3>2, <4>1, CallerHasNoTimer
      <4> HIDE DEF e
      <4>3. Ordered(timers') /\ ToSet(timers') = ToSet(timers) \cup {e}
        BY <1>0, <4>1, <4>2, InsertTimer DEF KInv
      <4> QED BY <4>1, <4>3
    <3> QED BY <3>1, <3>2
  <2>6. TimeoutsOf(timers', pc')
    <3>1. \A x \in ToSet(timers') : x.thread \in Threads
      BY <1>0, <2>5, QueuedTimers
    <3> QED BY <2>3, <2>5, <3>1 DEF KInv, TimeoutsOf
  <2>7. SleepersHave(timers', state')
    BY <2>3, <2>5 DEF KInv, SleepersHave
  <2> QED BY <1>0, <2>4, <2>5, <2>6, <2>7 DEF KInv
<1>2. ASSUME NEW w \in WaitQueues, NEW r \in BOOLEAN, NEW err \in Results,
             wait_queue_wake_one(w, r, err)
      PROVE  KInv'
  <2> DEFINE t == Head(waitq[w])
             woken == [state EXCEPT ![t] = "READY"]
             st == [woken EXCEPT ![current] = "READY"]
  <2>1. /\ waitq[w] # <<>> /\ pc[current] = "run"
        /\ irq' = "none" /\ waking' = None /\ timers' = timers
    BY <1>2 DEF wait_queue_wake_one, Calls, Interruptible
  <2>2. t \in Threads
    BY <1>0, <2>1, FirstWaiter
  <2>3. CASE state' = woken /\ UNCHANGED <<current, pc>>
    <3>1. \A u \in Threads : state'[u] = IF u = t THEN "READY" ELSE state[u]
      BY <1>0, <2>2, <2>3
    <3> HIDE DEF t
    <3> QED BY <1>0, <2>1, <2>3, <3>1, QuietStep
  <2>4. CASE /\ thread_resched(st, insert_in_run_queue_head(
                                      insert_in_run_queue_head(runq, current), t),
                               quantum, 1)
             /\ pc' = [pc EXCEPT ![current] = "wake"]
    <3>1. /\ st \in [Threads -> States] /\ "wake" \in Frames
          /\ \A u \in Threads : st[u] = IF u = current \/ u = t THEN "READY" ELSE state[u]
      BY <1>0, <2>2 DEF States, Frames
    <3> HIDE DEF st, t
    <3> QED BY <1>0, <2>1, <2>4, <3>1, QuietSwitch
  <2> QED BY <1>2, <2>3, <2>4 DEF wait_queue_wake_one
<1>3. ASSUME NEW w \in WaitQueues, NEW r \in BOOLEAN, NEW err \in Results,
             wait_queue_wake_all(w, r, err)
      PROVE  KInv'
  <2>1. /\ irq' = "none" /\ pc[current] = "run"
        /\ IF r THEN state' = [state EXCEPT ![current] = "READY"] ELSE state' = state
        /\ UNCHANGED <<current, pc, timers>>
    BY <1>3 DEF wait_queue_wake_all, Calls, Interruptible
  <2>2. \A t \in Threads : state'[t] = IF r /\ t = current THEN "READY" ELSE state[t]
    BY <1>0, <2>1
  <2> QED BY <1>0, <2>1, <2>2, QuietStep
<1> QED BY <1>1, <1>2, <1>3 DEF WaitCall

\* The ends of the kernel's calls and loops keep them right: the timer of a
\* wait leaves the queue before the stack it lies on is left.
LEMMA ReturnStepKInv ==
    ASSUME KInv, ReturnStep
    PROVE  KInv'
<1>0. /\ IInv /\ IInv' /\ FrameInv
      /\ state \in [Threads -> States] /\ pc \in [Threads -> Frames]
      /\ current \in Threads /\ timers \in Seq(TimerEntries)
      /\ waking \in WakeLoops \cup {None}
  BY ReturnStepKeeps DEF KInv, IInv, TypeOK
<1>1. CASE return_from_resched
  <2>1. /\ irq' = "none" /\ waking' = None /\ pc[current] # "block"
        /\ pc' = [pc EXCEPT ![current] = "run"]
        /\ UNCHANGED <<current, state, timers>>
    BY <1>1 DEF return_from_resched, LeaveCall, InCall
  <2>2. \A t \in Threads : pc'[t] = IF t = current THEN "run" ELSE pc[t]
    BY <1>0, <2>1
  <2> QED BY <1>0, <2>1, <2>2, QuietStep
<1>2. CASE return_from_block
  <2>1. /\ irq' = "none" /\ waking' = None /\ waking = None /\ pc[current] = "block"
        /\ pc' = [pc EXCEPT ![current] = "run"]
        /\ timer_cancel(current)
        /\ UNCHANGED <<current, state>>
    BY <1>2 DEF return_from_block, LeaveCall, InCall
  <2>2. \A t \in Threads : pc'[t] = IF t = current THEN "run" ELSE pc[t]
    BY <1>0, <2>1
  <2>3. /\ Ordered(timers')
        /\ ToSet(timers') = {x \in ToSet(timers) : x.thread # current}
    BY <1>0, <2>1, OwnLeaves DEF KInv
  <2>4. state[current] = "RUNNING"
    BY <2>1 DEF KInv, IInv, CurrentInv
  <2>5. FrameInv'
    BY <1>0, <2>1, <2>2, <2>4 DEF FrameInv
  <2>6. TimeoutsOf(timers', pc')
    BY <1>0, <2>2, <2>3, QueuedTimers DEF KInv, TimeoutsOf
  <2>7. SleepersHave(timers', state')
    BY <2>1, <2>3, <2>4 DEF KInv, SleepersHave
  <2> QED BY <1>0, <2>3, <2>5, <2>6, <2>7 DEF KInv
<1>3. CASE wake_all_next
  <2> DEFINE t == Head(waitq[waking.wait])
  <2>1. /\ waking # None /\ waitq[waking.wait] # <<>>
        /\ state' = [state EXCEPT ![t] = "READY"]
        /\ UNCHANGED <<current, pc, timers, irq, waking>>
    BY <1>3 DEF wake_all_next
  <2>2. t \in Threads
    <3>1. waking.wait \in WaitQueues
      BY <1>0, <2>1 DEF WakeLoops
    <3> QED BY <1>0, <2>1, <3>1, FirstWaiter
  <2>3. \A u \in Threads : state'[u] = IF u = t THEN "READY" ELSE state[u]
    BY <1>0, <2>1, <2>2
  <2> HIDE DEF t
  <2> QED BY <1>0, <2>1, <2>3, QuietStep DEF FrameInv
<1>4. CASE wake_all_done
  <2>1. waking # None /\ waking' = None /\ timers' = timers /\ irq' = irq
    BY <1>4 DEF wake_all_done
  <2>2. CASE waking.resched
    <3>1. /\ thread_resched(state, runq, quantum, csc)
          /\ pc' = [pc EXCEPT ![current] = "wake"]
      BY <1>4, <2>2 DEF wake_all_done
    <3>2. irq' = "none" /\ pc[current] = "run" /\ "wake" \in Frames
      BY <1>0, <2>1, <2>2 DEF FrameInv, Frames
    <3> QED BY <1>0, <2>1, <3>1, <3>2, QuietSwitch
  <2>3. CASE ~ waking.resched
    <3>1. UNCHANGED <<current, state, pc>>
      BY <1>4, <2>3 DEF wake_all_done
    <3> QED BY <1>0, <2>1, <3>1, QuietStep DEF FrameInv
  <2> QED BY <2>2, <2>3
<1> QED BY <1>1, <1>2, <1>3, <1>4 DEF ReturnStep

\* Wake-ups from interrupt handlers keep them right.
LEMMA IrqCallKInv ==
    ASSUME KInv, IrqCall
    PROVE  KInv'
<1>0. /\ IInv /\ IInv' /\ FrameInv
      /\ state \in [Threads -> States] /\ current \in Threads
  BY IrqCallKeeps DEF KInv, IInv, TypeOK
<1>1. ASSUME NEW w \in WaitQueues, NEW err \in Results, irq_wake_one(w, err)
      PROVE  KInv'
  <2> DEFINE t == Head(waitq[w])
  <2>1. /\ waitq[w] # <<>> /\ pc[current] = "run"
        /\ state' = [state EXCEPT ![t] = "READY"]
        /\ irq' = "preempt" /\ waking' = None
        /\ UNCHANGED <<current, pc, timers>>
    BY <1>1 DEF irq_wake_one, Interruptible
  <2>2. t \in Threads
    BY <1>0, <2>1, FirstWaiter
  <2>3. \A u \in Threads : state'[u] = IF u = t THEN "READY" ELSE state[u]
    BY <1>0, <2>1, <2>2
  <2> HIDE DEF t
  <2> QED BY <1>0, <2>1, <2>3, QuietStep
<1>2. ASSUME NEW w \in WaitQueues, NEW err \in Results, irq_wake_all(w, err)
      PROVE  KInv'
  <2>1. /\ irq' = "preempt" /\ pc[current] = "run"
        /\ waking' = [wait |-> w, resched |-> FALSE, err |-> err]
        /\ UNCHANGED <<current, state, pc, timers>>
    BY <1>2 DEF irq_wake_all, Interruptible
  <2>2. ~ waking'.resched
    BY <2>1
  <2> QED BY <1>0, <2>1, <2>2, QuietStep
<1> QED BY <1>1, <1>2 DEF IrqCall

\* The passing of a tick keeps them right.
LEMMA IrqTickKInv ==
    ASSUME KInv, irq_tick
    PROVE  KInv'
<1>0. /\ IInv /\ IInv' /\ FrameInv /\ Ordered(timers)
      /\ timers \in Seq(TimerEntries) /\ timers' \in Seq(TimerEntries)
      /\ TimeoutsOf(timers, pc) /\ SleepersHave(timers, state)
  BY IrqTickKeeps DEF KInv, IInv, TypeOK
<1>1. /\ irq' = "tick" /\ waking' = None /\ waking = None /\ pc[current] = "run"
      /\ UNCHANGED <<current, state, pc>>
      /\ timers' = [i \in DOMAIN timers |->
                      [timers[i] EXCEPT !.left = IF @ > 0 THEN @ - 1 ELSE 0]]
  BY DEF irq_tick, Interruptible
<1>2. /\ Ordered(timers')
      /\ \A x \in ToSet(timers') : \E y \in ToSet(timers) :
            x.thread = y.thread /\ x.cb = y.cb
      /\ \A y \in ToSet(timers) : \E x \in ToSet(timers') :
            x.thread = y.thread /\ x.cb = y.cb
  BY <1>0, <1>1, TickTimers
<1>3. FrameInv'
  BY <1>0, <1>1 DEF FrameInv
<1>4. TimeoutsOf(timers', pc')
  <2>1. UNCHANGED pc
    BY <1>1
  <2> HIDE <1>1
  <2> QED BY <1>0, <1>2, <2>1 DEF TimeoutsOf
<1>5. SleepersHave(timers', state')
  <2> SUFFICES ASSUME NEW t \in Threads, state[t] = "SLEEPING"
               PROVE  \E x \in ToSet(timers') : x.thread = t /\ x.cb = "sleep"
    BY <1>1 DEF SleepersHave
  <2>1. PICK y \in ToSet(timers) : y.thread = t /\ y.cb = "sleep"
    BY <1>0 DEF SleepersHave
  <2> QED BY <1>2, <2>1
<1> QED BY <1>0, <1>2, <1>3, <1>4, <1>5 DEF KInv

\* The callbacks of expired timers, the tick's accounting and the preemption
\* keep them right.
LEMMA HandlerStepKInv ==
    ASSUME KInv, HandlerStep
    PROVE  KInv'
<1>0. /\ IInv /\ IInv' /\ FrameInv /\ Ordered(timers)
      /\ TimeoutsOf(timers, pc) /\ SleepersHave(timers, state)
      /\ state \in [Threads -> States] /\ pc \in [Threads -> Frames]
      /\ current \in Threads /\ timers \in Seq(TimerEntries)
  BY HandlerStepKeeps DEF KInv, IInv, TypeOK
<1>1. ASSUME timers # <<>>, timers' = Tail(timers), UNCHANGED pc, FrameInv',
             \A u \in Threads : state'[u] = "SLEEPING" =>
                state[u] = "SLEEPING" /\ u # Head(timers).thread
      PROVE  KInv'
  <2>1. /\ Ordered(timers')
        /\ ToSet(timers') = {x \in ToSet(timers) : x.thread # Head(timers).thread}
    BY <1>0, <1>1, FirstLeaves
  <2>2. TimeoutsOf(timers', pc')
    BY <1>0, <1>1, <2>1 DEF TimeoutsOf
  <2>3. SleepersHave(timers', state')
    BY <1>0, <1>1, <2>1 DEF SleepersHave
  <2> QED BY <1>0, <1>1, <2>1, <2>2, <2>3 DEF KInv
<1>2. CASE thread_sleep_handler
  <2> DEFINE t == Head(timers).thread
  <2>1. /\ timers # <<>> /\ timers' = Tail(timers)
        /\ state' = [state EXCEPT ![t] = "READY"]
        /\ irq' = irq /\ waking' = waking
        /\ UNCHANGED <<current, pc>>
    BY <1>2 DEF thread_sleep_handler, Expired
  <2>2. \A u \in Threads : state'[u] = IF u = t THEN "READY" ELSE state[u]
    BY <1>0, <2>1
  <2> HIDE DEF t
  <2>3. FrameInv'
    BY <1>0, <2>1, <2>2, FrameKept DEF FrameInv
  <2> QED BY <1>1, <2>1, <2>2, <2>3 DEF t
<1>3. CASE wait_queue_timeout_handler
  <2> DEFINE t == Head(timers).thread
  <2>1. /\ timers # <<>> /\ timers' = Tail(timers) /\ Head(timers).cb = "timeout"
        /\ \/ state' = [state EXCEPT ![t] = "READY"]
           \/ state' = state
        /\ irq' = irq /\ waking' = waking
        /\ UNCHANGED <<current, pc>>
    BY <1>3 DEF wait_queue_timeout_handler, Expired
  <2>2. \A u \in Threads : state'[u] = state[u] \/ (u = t /\ state'[u] = "READY")
    BY <1>0, <2>1
  <2>3. state[t] # "SLEEPING"
    <3>1. Head(timers) \in ToSet(timers) /\ t \in Threads
      BY <1>0, <2>1, FirstLeaves
    <3> QED BY <1>0, <2>1, <3>1 DEF TimeoutsOf, FrameInv
  <2> HIDE DEF t
  <2>4. FrameInv'
    BY <1>0, <2>1, <2>2, FrameKept DEF FrameInv
  <2> QED BY <1>1, <2>1, <2>2, <2>3, <2>4 DEF t
<1>4. CASE timer_tick_done
  <2>1. /\ irq = "tick" /\ irq' = "preempt" /\ waking' = waking
        /\ UNCHANGED <<current, state, pc, timers>>
    BY <1>4 DEF timer_tick_done
  <2>2. waking = None /\ pc[current] = "run"
    BY <1>0, <2>1 DEF FrameInv
  <2> QED BY <1>0, <2>1, <2>2, QuietStep
<1>5. CASE thread_preempt
  <2> DEFINE st == [state EXCEPT ![current] = "READY"]
             q == IF quantum[current] > 0
                  THEN insert_in_run_queue_head(runq, current)
                  ELSE insert_in_run_queue_tail(runq, current)
  <2>1. /\ thread_resched(st, q, quantum, csc + 1)
        /\ pc' = [pc EXCEPT ![current] = "irq"]
        /\ irq = "preempt" /\ irq' = "none" /\ waking' = None /\ timers' = timers
    BY <1>5 DEF thread_preempt
  <2>2. /\ st \in [Threads -> States] /\ "irq" \in Frames
        /\ \A t \in Threads : st[t] = IF t = current THEN "READY" ELSE state[t]
    BY <1>0 DEF States, Frames
  <2>3. pc[current] # "block"
    BY <1>0, <2>1 DEF FrameInv
  <2> HIDE DEF st, q
  <2> QED BY <1>0, <2>1, <2>2, <2>3, QuietSwitch
<1> QED BY <1>2, <1>3, <1>4, <1>5 DEF HandlerStep

LEMMA InitKInv == Init => KInv
<1> SUFFICES ASSUME Init PROVE KInv
  OBVIOUS
<1>1. /\ timers = <<>> /\ irq = "none" /\ waking = None
      /\ state = [t \in Threads |-> IF t = Idle THEN "RUNNING"
                                    ELSE IF t \in BootThreads THEN "READY" ELSE "NONE"]
      /\ pc = [t \in Threads |-> IF t = Idle THEN "run" ELSE "fresh"]
  BY DEF Init
<1>2. FrameInv
  BY <1>1 DEF FrameInv
<1>3. ToSet(timers) = {} /\ Ordered(timers)
  BY <1>1 DEF ToSet, Ordered
<1>4. TimeoutsOf(timers, pc) /\ SleepersHave(timers, state)
  BY <1>1, <1>3 DEF TimeoutsOf, SleepersHave
<1> QED BY <1>2, <1>3, <1>4, InitIInv DEF KInv

\* Every step of the kernel keeps KInv, whoever its client is.
LEMMA KernelKeeps ==
    ASSUME KInv, [KernelNext]_vars
    PROVE  KInv'
<1>1. CASE UNCHANGED vars
  <2>1. IInv' /\ UNCHANGED <<current, state, pc, timers, irq, waking>>
    BY <1>1, NextKeeps DEF KInv, vars, schedVars
  <2> QED BY <2>1, QuietStep DEF KInv, FrameInv
<1>2. CASE KernelNext
  BY <1>1, <1>2, ThreadStepKInv, WaitCallKInv, ReturnStepKInv, IrqCallKInv,
     IrqTickKInv, HandlerStepKInv DEF KernelNext, stopped
<1> QED BY <1>1, <1>2

LEMMA SpecKInv == Spec => []KInv
<1>1. KInv /\ [Next]_vars => KInv'
  BY KernelKeeps, NextIsKernelNext
<1> QED BY <1>1, InitKInv, PTL DEF Spec

\* The timers on the stacks of threads: thread_sleep and wait_queue_block leave
\* no timer behind when they return, a sleeper always has its timer, and the
\* queue stays in the order of expiry.
THEOREM TimersCorrect == Spec => []TimerInv
BY SpecKInv, KInvTimerInv, PTL

-----------------------------------------------------------------------------
(* The results of waits                                                    *)

\* A step that leaves alone what the wakers of threads in wait_queue_block
\* have told them.
ResultsStay ==
    \A t \in Threads :
        pc[t] = "block" /\ state[t] \in {"READY", "RUNNING"} /\ pc'[t] = "block"
        => blockRet'[t] = blockRet[t]

\* A waker and an expired timeout only write the result of a thread that is
\* still blocked.
LEMMA OnlyTheBlocked ==
    ASSUME NEW t, NEW w, NEW rest, NEW err,
           blockRet \in [Threads -> Results], state[t] = "BLOCKED",
           Unblock(t, w, rest, err)
    PROVE  ResultsStay
<1>1. blockRet' = [blockRet EXCEPT ![t] = err]
  BY DEF Unblock
<1>2. \A u \in Threads : u # t => blockRet'[u] = blockRet[u]
  BY <1>1
<1> QED BY <1>2 DEF ResultsStay

LEMMA KernelKeepsResults ==
    ASSUME KInv, [KernelNext]_vars
    PROVE  ResultsStay
<1>0. /\ IInv /\ blockRet \in [Threads -> Results]
      /\ waking \in WakeLoops \cup {None}
      /\ \A t \in Threads : pc[t] = "block" => state[t] # "NONE"
  BY DEF KInv, IInv, TypeOK, FrameInv
<1>1. CASE UNCHANGED blockRet
  BY <1>1 DEF ResultsStay
<1>2. CASE ThreadStep
  <2>1. ASSUME NEW t \in Threads, NEW p \in NewPriorities, thread_create(t, p)
        PROVE  ResultsStay
    <3>1. state[t] = "NONE" /\ blockRet' = [blockRet EXCEPT ![t] = "NO_ERROR"]
      BY <2>1 DEF thread_create
    <3>2. \A u \in Threads : u # t => blockRet'[u] = blockRet[u]
      BY <1>0, <3>1
    <3> QED BY <1>0, <3>1, <3>2 DEF ResultsStay
  <2> QED BY <1>1, <1>2, <2>1
       DEF ThreadStep, thread_become_idle, thread_yield, thread_exit, thread_resume,
           thread_cleanup, thread_set_priority, thread_sleep, waitVars
<1>3. CASE WaitCall
  <2>1. ASSUME NEW w \in WaitQueues, NEW d \in Timeouts \cup {None},
               wait_queue_block(w, d)
        PROVE  ResultsStay
    <3>1. /\ pc[current] = "run"
          /\ blockRet' = [blockRet EXCEPT ![current] = "NO_ERROR"]
      BY <2>1 DEF wait_queue_block, Calls, Interruptible
    <3>2. \A u \in Threads : u # current => blockRet'[u] = blockRet[u]
      BY <1>0, <3>1
    <3> QED BY <3>1, <3>2 DEF ResultsStay
  <2>2. ASSUME NEW w \in WaitQueues, NEW r \in BOOLEAN, NEW err \in Results,
               wait_queue_wake_one(w, r, err)
        PROVE  ResultsStay
    <3>1. waitq[w] # <<>> /\ Unblock(Head(waitq[w]), w, Tail(waitq[w]), err)
      BY <2>2 DEF wait_queue_wake_one
    <3> QED BY <1>0, <3>1, FirstWaiter, OnlyTheBlocked
  <2> QED BY <1>1, <1>3, <2>1, <2>2 DEF WaitCall, wait_queue_wake_all, waitVars
<1>4. CASE ReturnStep
  <2>1. CASE wake_all_next
    <3>1. /\ waitq[waking.wait] # <<>> /\ waking.wait \in WaitQueues
          /\ Unblock(Head(waitq[waking.wait]), waking.wait, Tail(waitq[waking.wait]),
                     waking.err)
      BY <1>0, <2>1 DEF wake_all_next, WakeLoops
    <3> QED BY <1>0, <3>1, FirstWaiter, OnlyTheBlocked
  <2> QED BY <1>1, <1>4, <2>1
       DEF ReturnStep, return_from_resched, return_from_block, LeaveCall, wake_all_done,
           waitVars
<1>5. CASE IrqCall
  <2>1. ASSUME NEW w \in WaitQueues, NEW err \in Results, irq_wake_one(w, err)
        PROVE  ResultsStay
    <3>1. waitq[w] # <<>> /\ Unblock(Head(waitq[w]), w, Tail(waitq[w]), err)
      BY <2>1 DEF irq_wake_one
    <3> QED BY <1>0, <3>1, FirstWaiter, OnlyTheBlocked
  <2> QED BY <1>1, <1>5, <2>1 DEF IrqCall, irq_wake_all, waitVars
<1>6. CASE HandlerStep
  <2>1. CASE wait_queue_timeout_handler
    <3> DEFINE t == Head(timers).thread
               w == blockedOn[t]
    <3>1. \/ /\ state[t] = "BLOCKED"
             /\ Unblock(t, w, RemoveAt(waitq[w], PositionOf(t, waitq[w])),
                        "ERR_TIMED_OUT")
          \/ UNCHANGED blockRet
      BY <2>1 DEF wait_queue_timeout_handler, waitVars
    <3> HIDE DEF t, w
    <3> QED BY <1>0, <1>1, <3>1, OnlyTheBlocked
  <2> QED BY <1>1, <1>6, <2>1
       DEF HandlerStep, thread_sleep_handler, timer_tick_done, thread_preempt, waitVars
<1>7. CASE irq_tick
  BY <1>1, <1>7 DEF irq_tick, waitVars
<1>8. CASE UNCHANGED vars
  BY <1>1, <1>8 DEF vars, waitVars
<1> QED BY <1>2, <1>3, <1>4, <1>5, <1>6, <1>7, <1>8 DEF KernelNext, stopped

\* A woken thread returns from wait_queue_block with the result its waker gave
\* it: no timeout that expires before it runs, and no other waker, replaces it.
THEOREM WakeResultCorrect == Spec => WakeResultKept
<1>1. KInv /\ [Next]_vars => [ResultsStay]_vars
  BY KernelKeepsResults, NextIsKernelNext
<1>2. [ResultsStay]_vars =>
        [\A t \in Threads :
            pc[t] = "block" /\ state[t] \in {"READY", "RUNNING"} /\ pc'[t] = "block"
            => blockRet'[t] = blockRet[t]]_vars
  BY DEF ResultsStay
<1> QED BY <1>1, <1>2, SpecKInv, PTL DEF Spec, WakeResultKept

-----------------------------------------------------------------------------
(* The critical section count                                              *)

\* The states of a thread that was switched out and will run again.
Waiting == {"SUSPENDED", "READY", "BLOCKED", "SLEEPING"}

NoTimeouts(tm) == \A e \in ToSet(tm) : e.cb # "timeout"

CInv == KInv /\ CriticalSectionInv /\ NoTimeouts(timers)

\* A switch from a call that will leave c critical sections.
LEMMA SwitchCount ==
    ASSUME KInv, CriticalSectionInv, IInv', Top,
           NEW st \in [Threads -> States], NEW q, NEW qn, NEW c,
           thread_resched(st, q, qn, c),
           NEW f \in Frames, pc' = [pc EXCEPT ![current] = f], c = Depth[f],
           \A t \in Threads \ {current} : st[t] \in Waiting => state[t] \in Waiting,
           irq' = "none", waking' = None
    PROVE  CriticalSectionInv'
<1>1. /\ pc \in [Threads -> Frames] /\ saved \in [Threads -> Int]
      /\ current \in Threads /\ current' \in Threads
      /\ \A t \in Threads \ {current} :
            state[t] \in Waiting => saved[t] = Depth[pc[t]]
  BY DEF KInv, IInv, TypeOK, CriticalSectionInv, Waiting
<1>2. /\ state' = [st EXCEPT ![current'] = "RUNNING"]
      /\ saved' = IF current' # current THEN [saved EXCEPT ![current] = c] ELSE saved
      /\ csc' = IF current' # current THEN saved[current'] ELSE c
  BY DEF thread_resched
<1>3. \A t \in Threads : /\ pc'[t] = IF t = current THEN f ELSE pc[t]
                         /\ t # current' => state'[t] = st[t]
                         /\ saved'[t] = IF t = current /\ current' # current
                                        THEN c ELSE saved[t]
  BY <1>1, <1>2
<1>4. csc' = Depth[pc'[current']]
  <2>1. CASE current' = current
    BY <1>1, <1>2, <1>3, <2>1
  <2>2. CASE current' # current
    <3>1. state[current'] \in Waiting
      BY <2>2 DEF Top, Waiting
    <3> QED BY <1>1, <1>2, <1>3, <2>2, <3>1
  <2> QED BY <2>1, <2>2
<1>5. ASSUME NEW t \in Threads, state'[t] \in Waiting, t # current'
      PROVE  saved'[t] = Depth[pc'[t]]
  <2>1. CASE t = current
    BY <1>3, <1>5, <2>1
  <2>2. CASE t # current
    <3>1. state[t] \in Waiting
      BY <1>3, <1>5, <2>2
    <3> QED BY <1>1, <1>3, <2>2, <3>1
  <2> QED BY <2>1, <2>2
<1> QED BY <1>4, <1>5 DEF CriticalSectionInv, Waiting

\* A step that does not switch, from one place in the kernel to another.
LEMMA StayCount ==
    ASSUME KInv, CriticalSectionInv, UNCHANGED <<current, saved>>,
           \A t \in Threads \ {current} :
              state'[t] \in Waiting => state[t] \in Waiting /\ pc'[t] = pc[t],
           csc' = CASE irq' = "tick" -> 1
                    [] irq' = "preempt" -> 1
                    [] OTHER -> IF waking' # None THEN 1 ELSE Depth[pc'[current]]
    PROVE  CriticalSectionInv'
<1>1. \A t \in Threads \ {current} : state[t] \in Waiting => saved[t] = Depth[pc[t]]
  BY DEF CriticalSectionInv, Waiting
<1> QED BY <1>1 DEF CriticalSectionInv, Waiting

LEMMA Depths ==
    /\ Depth["run"] = 0 /\ Depth["fresh"] = 1 /\ Depth["yield"] = 1
    /\ Depth["sleep"] = 1 /\ Depth["wake"] = 1 /\ Depth["dead"] = 1
    /\ Depth["resume"] = 2 /\ Depth["block"] = 2 /\ Depth["irq"] = 2
    /\ {"run", "fresh", "yield", "resume", "sleep", "block", "wake", "irq", "dead"}
         = Frames
    /\ \A f \in Frames : Depth[f] \in Nat
BY DEF Depth, Frames

LEMMA ThreadStepCount ==
    ASSUME CInv, ThreadStep
    PROVE  CriticalSectionInv'
<1>0. /\ KInv /\ IInv /\ IInv' /\ Top /\ CriticalSectionInv
      /\ state \in [Threads -> States] /\ pc \in [Threads -> Frames]
      /\ saved \in [Threads -> Int] /\ current \in Threads
  BY ThreadStepKeeps DEF CInv, KInv, IInv, TypeOK
<1>1. CASE thread_become_idle
  <2>1. UNCHANGED <<current, state, saved, csc, pc, irq, waking>>
    BY <1>1 DEF thread_become_idle, schedVars
  <2> QED BY <1>0, <2>1, StayCount DEF CriticalSectionInv
<1>2. CASE thread_yield
  <2> DEFINE st == [state EXCEPT ![current] = "READY"]
  <2>1. /\ thread_resched(st, insert_in_run_queue_tail(runq, current),
                          [quantum EXCEPT ![current] = 0], 1)
        /\ pc' = [pc EXCEPT ![current] = "yield"]
        /\ irq' = "none" /\ waking' = None
    BY <1>2 DEF thread_yield, Calls, Interruptible
  <2>2. /\ st \in [Threads -> States]
        /\ \A t \in Threads \ {current} : st[t] = state[t]
    BY <1>0 DEF States
  <2> HIDE DEF st
  <2> QED BY <1>0, <2>1, <2>2, SwitchCount, Depths
<1>3. CASE thread_exit
  <2> DEFINE st == [state EXCEPT ![current] = "DEATH"]
  <2>1. /\ thread_resched(st, runq, quantum, 1)
        /\ pc' = [pc EXCEPT ![current] = "dead"]
        /\ irq' = "none" /\ waking' = None
    BY <1>3 DEF thread_exit, Calls, Interruptible
  <2>2. /\ st \in [Threads -> States]
        /\ \A t \in Threads \ {current} : st[t] = state[t]
    BY <1>0 DEF States
  <2> HIDE DEF st
  <2> QED BY <1>0, <2>1, <2>2, SwitchCount, Depths
<1>4. ASSUME NEW t \in Threads, thread_resume(t) PROVE CriticalSectionInv'
  <2> DEFINE st == [state EXCEPT ![t] = "READY", ![current] = "READY"]
  <2>1. /\ thread_resched(st, insert_in_run_queue_tail(
                                  insert_in_run_queue_head(runq, t), current),
                          [quantum EXCEPT ![current] = 0], 2)
        /\ pc' = [pc EXCEPT ![current] = "resume"] /\ state[t] = "SUSPENDED"
        /\ irq' = "none" /\ waking' = None
    BY <1>4 DEF thread_resume, Calls, Interruptible
  <2>2. /\ st \in [Threads -> States]
        /\ \A u \in Threads \ {current} : u = t \/ st[u] = state[u]
    BY <1>0 DEF States
  <2>3. \A u \in Threads \ {current} : st[u] \in Waiting => state[u] \in Waiting
    BY <2>1, <2>2 DEF Waiting
  <2> HIDE DEF st
  <2> QED BY <1>0, <2>1, <2>2, <2>3, SwitchCount, Depths
<1>5. ASSUME NEW t \in Threads, thread_cleanup(t) PROVE CriticalSectionInv'
  <2>1. /\ state' = [state EXCEPT ![t] = "NONE"]
        /\ UNCHANGED <<current, saved, csc, pc, irq, waking>>
    BY <1>5 DEF thread_cleanup
  <2>2. \A u \in Threads : state'[u] \in Waiting => state[u] \in Waiting
    BY <1>0, <2>1 DEF Waiting
  <2> QED BY <1>0, <2>1, <2>2, StayCount DEF CriticalSectionInv
<1>6. ASSUME NEW t \in Threads, NEW p \in NewPriorities, thread_create(t, p)
      PROVE  CriticalSectionInv'
  <2>1. /\ irq = "none" /\ waking = None /\ csc = 0 /\ pc[current] = "run"
        /\ state[t] = "NONE" /\ state' = [state EXCEPT ![t] = "SUSPENDED"]
        /\ saved' = [saved EXCEPT ![t] = 1]
        /\ pc' = [pc EXCEPT ![t] = "fresh"]
        /\ UNCHANGED <<current, csc, irq, waking>>
    BY <1>6 DEF thread_create, Calls, Interruptible
  <2>2. t # current
    BY <1>6, <2>1, CallFacts, <1>0 DEF thread_create
  <2>3. \A u \in Threads : /\ u # t => /\ state'[u] = state[u]
                                       /\ saved'[u] = saved[u] /\ pc'[u] = pc[u]
                           /\ saved'[t] = 1 /\ pc'[t] = "fresh"
    BY <1>0, <2>1
  <2> QED BY <1>0, <2>1, <2>2, <2>3, Depths DEF CriticalSectionInv
<1>7. ASSUME NEW p \in NewPriorities, thread_set_priority(p) PROVE CriticalSectionInv'
  <2>1. UNCHANGED <<current, state, saved, csc, pc, irq, waking>>
    BY <1>7 DEF thread_set_priority, schedVars
  <2> QED BY <1>0, <2>1, StayCount DEF CriticalSectionInv
<1>8. ASSUME NEW d \in Delays, thread_sleep(d) PROVE CriticalSectionInv'
  <2> DEFINE st == [state EXCEPT ![current] = "SLEEPING"]
  <2>1. /\ thread_resched(st, runq, quantum, 1)
        /\ pc' = [pc EXCEPT ![current] = "sleep"]
        /\ irq' = "none" /\ waking' = None
    BY <1>8 DEF thread_sleep, Calls, Interruptible
  <2>2. /\ st \in [Threads -> States]
        /\ \A t \in Threads \ {current} : st[t] = state[t]
    BY <1>0 DEF States
  <2> HIDE DEF st
  <2> QED BY <1>0, <2>1, <2>2, SwitchCount, Depths
<1> QED BY <1>1, <1>2, <1>3, <1>4, <1>5, <1>6, <1>7, <1>8 DEF ThreadStep

LEMMA WaitCallCount ==
    ASSUME CInv, WaitCall
    PROVE  CriticalSectionInv'
<1>0. /\ KInv /\ IInv /\ IInv' /\ Top /\ CriticalSectionInv
      /\ state \in [Threads -> States] /\ pc \in [Threads -> Frames]
      /\ saved \in [Threads -> Int] /\ current \in Threads
  BY WaitCallKeeps DEF CInv, KInv, IInv, TypeOK
<1>1. ASSUME NEW w \in WaitQueues, NEW d \in Timeouts \cup {None},
             wait_queue_block(w, d)
      PROVE  CriticalSectionInv'
  <2> DEFINE st == [state EXCEPT ![current] = "BLOCKED"]
  <2>1. /\ thread_resched(st, runq, quantum, 2)
        /\ pc' = [pc EXCEPT ![current] = "block"]
        /\ irq' = "none" /\ waking' = None
    BY <1>1 DEF wait_queue_block, Calls, Interruptible
  <2>2. /\ st \in [Threads -> States]
        /\ \A t \in Threads \ {current} : st[t] = state[t]
    BY <1>0 DEF States
  <2> HIDE DEF st
  <2> QED BY <1>0, <2>1, <2>2, SwitchCount, Depths
<1>2. ASSUME NEW w \in WaitQueues, NEW r \in BOOLEAN, NEW err \in Results,
             wait_queue_wake_one(w, r, err)
      PROVE  CriticalSectionInv'
  <2> DEFINE t == Head(waitq[w])
             woken == [state EXCEPT ![t] = "READY"]
             st == [woken EXCEPT ![current] = "READY"]
  <2>1. /\ waitq[w] # <<>> /\ irq' = "none" /\ waking' = None
        /\ irq' = irq /\ waking' = waking
    BY <1>2 DEF wait_queue_wake_one, Calls, Interruptible
  <2>2. t \in Threads /\ state[t] = "BLOCKED"
    BY <1>0, <2>1, FirstWaiter
  <2>3. CASE state' = woken /\ UNCHANGED <<current, csc, saved, pc>>
    <3>1. \A u \in Threads : state'[u] \in Waiting => state[u] \in Waiting
      BY <1>0, <2>2, <2>3 DEF Waiting
    <3> HIDE DEF t
    <3> QED BY <1>0, <2>1, <2>3, <3>1, StayCount DEF CriticalSectionInv
  <2>4. CASE /\ thread_resched(st, insert_in_run_queue_head(
                                      insert_in_run_queue_head(runq, current), t),
                               quantum, 1)
             /\ pc' = [pc EXCEPT ![current] = "wake"]
    <3>1. /\ st \in [Threads -> States]
          /\ \A u \in Threads \ {current} : st[u] \in Waiting => state[u] \in Waiting
      BY <1>0, <2>2 DEF States, Waiting
    <3> HIDE DEF st, t
    <3> QED BY <1>0, <2>1, <2>4, <3>1, SwitchCount, Depths
  <2> QED BY <1>2, <2>3, <2>4 DEF wait_queue_wake_one
<1>3. ASSUME NEW w \in WaitQueues, NEW r \in BOOLEAN, NEW err \in Results,
             wait_queue_wake_all(w, r, err)
      PROVE  CriticalSectionInv'
  <2>1. /\ csc' = csc + 1 /\ csc = 0 /\ irq' = "none"
        /\ waking' = [wait |-> w, resched |-> r, err |-> err]
        /\ IF r THEN state' = [state EXCEPT ![current] = "READY"] ELSE state' = state
        /\ UNCHANGED <<current, saved, pc>>
    BY <1>3 DEF wait_queue_wake_all, Calls, Interruptible
  <2>2. waking' # None
    <3>1. waking' \in WakeLoops
      BY <2>1, <1>3 DEF WakeLoops
    <3> QED BY <3>1, ConstantTypes
  <2>3. csc' = 1
    BY <2>1
  <2>4. \A t \in Threads \ {current} : state'[t] = state[t]
    BY <1>0, <2>1
  <2> QED BY <1>0, <2>1, <2>2, <2>3, <2>4, StayCount
<1> QED BY <1>1, <1>2, <1>3 DEF WaitCall

LEMMA ReturnStepCount ==
    ASSUME CInv, ReturnStep
    PROVE  CriticalSectionInv'
<1>0. /\ KInv /\ IInv /\ IInv' /\ Top /\ CriticalSectionInv /\ FrameInv
      /\ state \in [Threads -> States] /\ pc \in [Threads -> Frames]
      /\ saved \in [Threads -> Int] /\ current \in Threads
      /\ waking \in WakeLoops \cup {None} /\ irq \in {"none", "tick", "preempt"}
  BY ReturnStepKeeps DEF CInv, KInv, IInv, TypeOK
<1>1. CASE return_from_resched \/ return_from_block
  <2>1. /\ irq = "none" /\ waking = None /\ irq' = irq /\ waking' = waking
        /\ csc' = csc - Depth[pc[current]]
        /\ pc' = [pc EXCEPT ![current] = "run"]
        /\ UNCHANGED <<current, saved, state>>
    BY <1>1 DEF return_from_resched, return_from_block, LeaveCall, InCall
  <2>2. csc = Depth[pc[current]] /\ csc \in Nat
    BY <1>0, <2>1, Depths DEF CriticalSectionInv
  <2>3. csc' = 0
    BY <2>1, <2>2
  <2>4. \A t \in Threads : pc'[t] = IF t = current THEN "run" ELSE pc[t]
    BY <1>0, <2>1
  <2> QED BY <1>0, <2>1, <2>3, <2>4, StayCount, Depths
<1>2. CASE wake_all_next
  <2> DEFINE t == Head(waitq[waking.wait])
  <2>1. /\ waking # None /\ waitq[waking.wait] # <<>>
        /\ state' = [state EXCEPT ![t] = "READY"]
        /\ UNCHANGED <<current, csc, saved, pc, irq, waking>>
    BY <1>2 DEF wake_all_next
  <2>2. t \in Threads /\ state[t] = "BLOCKED"
    <3>1. waking.wait \in WaitQueues
      BY <1>0, <2>1 DEF WakeLoops
    <3> QED BY <1>0, <2>1, <3>1, FirstWaiter
  <2>3. \A u \in Threads : state'[u] \in Waiting => state[u] \in Waiting
    BY <1>0, <2>1, <2>2 DEF Waiting
  <2> HIDE DEF t
  <2> QED BY <1>0, <2>1, <2>3, StayCount DEF CriticalSectionInv
<1>3. CASE wake_all_done
  <2>1. /\ waking # None /\ waking' = None /\ irq' = irq /\ pc[current] = "run"
        /\ irq # "tick"
    BY <1>0, <1>3 DEF wake_all_done, FrameInv
  <2>2. csc = 1
    BY <1>0, <2>1 DEF CriticalSectionInv
  <2>3. CASE waking.resched
    <3>1. /\ thread_resched(state, runq, quantum, csc)
          /\ pc' = [pc EXCEPT ![current] = "wake"]
          /\ irq = "none"
      BY <1>0, <1>3, <2>1, <2>3 DEF wake_all_done, FrameInv
    <3> QED BY <1>0, <2>1, <2>2, <3>1, SwitchCount, Depths
  <2>4. CASE ~ waking.resched
    <3>1. /\ csc' = IF irq = "none" THEN 0 ELSE 1
          /\ UNCHANGED <<current, state, saved, pc>>
      BY <1>3, <2>2, <2>4 DEF wake_all_done
    <3> QED BY <1>0, <2>1, <3>1, StayCount, Depths
  <2> QED BY <2>3, <2>4
<1> QED BY <1>1, <1>2, <1>3 DEF ReturnStep

LEMMA IrqCallCount ==
    ASSUME CInv, IrqCall \/ irq_tick
    PROVE  CriticalSectionInv'
<1>0. /\ KInv /\ IInv /\ CriticalSectionInv
      /\ state \in [Threads -> States] /\ current \in Threads
  BY DEF CInv, KInv, IInv, TypeOK
<1>1. ASSUME NEW w \in WaitQueues, NEW err \in Results, irq_wake_one(w, err)
      PROVE  CriticalSectionInv'
  <2> DEFINE t == Head(waitq[w])
  <2>1. /\ waitq[w] # <<>> /\ csc = 0 /\ csc' = csc + 1
        /\ state' = [state EXCEPT ![t] = "READY"]
        /\ irq' = "preempt" /\ UNCHANGED <<current, saved, pc>>
    BY <1>1 DEF irq_wake_one, Interruptible
  <2>2. t \in Threads /\ state[t] = "BLOCKED"
    BY <1>0, <2>1, FirstWaiter
  <2>3. \A u \in Threads : state'[u] \in Waiting => state[u] \in Waiting
    BY <1>0, <2>1, <2>2 DEF Waiting
  <2> HIDE DEF t
  <2> QED BY <1>0, <2>1, <2>3, StayCount
<1>2. ASSUME NEW w \in WaitQueues, NEW err \in Results, irq_wake_all(w, err)
      PROVE  CriticalSectionInv'
  <2>1. /\ csc = 0 /\ csc' = csc + 1 /\ irq' = "preempt"
        /\ UNCHANGED <<current, state, saved, pc>>
    BY <1>2 DEF irq_wake_all, Interruptible
  <2> QED BY <1>0, <2>1, StayCount
<1>3. CASE irq_tick
  <2>1. /\ csc = 0 /\ csc' = csc + 1 /\ irq' = "tick"
        /\ UNCHANGED <<current, state, saved, pc>>
    BY <1>3 DEF irq_tick, Interruptible
  <2> QED BY <1>0, <2>1, StayCount
<1> QED BY <1>1, <1>2, <1>3 DEF IrqCall

LEMMA HandlerStepCount ==
    ASSUME CInv, HandlerStep
    PROVE  CriticalSectionInv'
<1>0. /\ KInv /\ IInv /\ IInv' /\ Top /\ CriticalSectionInv /\ FrameInv
      /\ SleepersOf(timers, state)
      /\ state \in [Threads -> States] /\ pc \in [Threads -> Frames]
      /\ saved \in [Threads -> Int] /\ current \in Threads
      /\ timers \in Seq(TimerEntries) /\ Ordered(timers)
  BY HandlerStepKeeps DEF CInv, KInv, IInv, TypeOK
<1>1. CASE thread_sleep_handler
  <2> DEFINE t == Head(timers).thread
  <2>1. /\ irq = "tick" /\ timers # <<>> /\ Head(timers).cb = "sleep"
        /\ state' = [state EXCEPT ![t] = "READY"]
        /\ UNCHANGED <<current, csc, saved, pc, irq, waking>>
    BY <1>1 DEF thread_sleep_handler, Expired
  <2>2. state[t] = "SLEEPING"
    BY <1>0, <2>1, FirstTimer
  <2>3. \A u \in Threads : state'[u] \in Waiting => state[u] \in Waiting
    BY <1>0, <2>1, <2>2 DEF Waiting
  <2> HIDE DEF t
  <2> QED BY <1>0, <2>1, <2>3, StayCount DEF CriticalSectionInv
<1>2. CASE wait_queue_timeout_handler
  <2>1. timers # <<>> /\ Head(timers).cb = "timeout"
    BY <1>2 DEF wait_queue_timeout_handler, Expired
  <2>2. Head(timers) \in ToSet(timers)
    BY <1>0, <2>1, FirstLeaves
  <2> QED BY <2>1, <2>2 DEF CInv, NoTimeouts
<1>3. CASE timer_tick_done
  <2>1. /\ irq = "tick" /\ irq' = "preempt"
        /\ UNCHANGED <<current, state, csc, saved, pc>>
    BY <1>3 DEF timer_tick_done
  <2>2. csc' = 1
    BY <1>0, <2>1 DEF CriticalSectionInv
  <2> QED BY <1>0, <2>1, <2>2, StayCount
<1>4. CASE thread_preempt
  <2> DEFINE st == [state EXCEPT ![current] = "READY"]
             q == IF quantum[current] > 0
                  THEN insert_in_run_queue_head(runq, current)
                  ELSE insert_in_run_queue_tail(runq, current)
  <2>1. /\ thread_resched(st, q, quantum, csc + 1)
        /\ pc' = [pc EXCEPT ![current] = "irq"]
        /\ irq = "preempt" /\ irq' = "none" /\ waking' = None
    BY <1>4 DEF thread_preempt
  <2>2. csc = 1
    BY <1>0, <2>1 DEF CriticalSectionInv
  <2>4. csc + 1 = Depth["irq"] /\ "irq" \in Frames
    BY <2>2, Depths
  <2>3. /\ st \in [Threads -> States]
        /\ \A t \in Threads \ {current} : st[t] = state[t]
    BY <1>0 DEF States
  <2> HIDE DEF st, q
  <2> QED BY <1>0, <2>1, <2>3, <2>4, SwitchCount
<1> QED BY <1>1, <1>2, <1>3, <1>4 DEF HandlerStep

\* With no timeouts to give to wait_queue_block, none is ever queued.
LEMMA NoTimeoutsKept ==
    ASSUME Timeouts = {}, KInv, NoTimeouts(timers), [KernelNext]_vars
    PROVE  NoTimeouts(timers')
<1>0. timers \in Seq(TimerEntries) /\ Ordered(timers) /\ KInv'
  BY KernelKeeps DEF KInv, IInv, TypeOK
<1>1. CASE timers' = timers
  BY <1>1
<1>2. ASSUME NEW d \in Delays, thread_sleep(d) PROVE NoTimeouts(timers')
  <2> DEFINE e == [thread |-> current, left |-> d, cb |-> "sleep"]
  <2>1. Calls /\ insert_timer_in_queue(e)
    BY <1>2 DEF thread_sleep
  <2>2. e \in TimerEntries /\ e.thread = current /\ e.cb = "sleep"
    BY ConstantTypes DEF TimerEntries, KInv, IInv, TypeOK
  <2>3. \A x \in ToSet(timers) : x.thread # e.thread
    BY <2>1, <2>2, CallerHasNoTimer
  <2> HIDE DEF e
  <2>4. ToSet(timers') = ToSet(timers) \cup {e}
    BY <1>0, <2>1, <2>2, <2>3, InsertTimer
  <2> QED BY <2>2, <2>4 DEF NoTimeouts
<1>3. ASSUME timers # <<>>, timers' = Tail(timers) PROVE NoTimeouts(timers')
  BY <1>0, <1>3, FirstLeaves DEF NoTimeouts
<1>4. CASE timer_cancel(current)
  BY <1>0, <1>4, OwnLeaves DEF NoTimeouts
<1>5. CASE irq_tick
  <2>1. \A x \in ToSet(timers') : \E y \in ToSet(timers) :
           x.thread = y.thread /\ x.cb = y.cb
    BY <1>0, <1>5, TickTimers DEF irq_tick
  <2> QED BY <2>1 DEF NoTimeouts
<1>6. CASE ThreadStep
  BY <1>1, <1>2, <1>6
  DEF ThreadStep, thread_become_idle, thread_yield, thread_exit, thread_resume,
      thread_cleanup, thread_create, thread_set_priority
<1>7. CASE WaitCall
  BY <1>1, <1>7 DEF WaitCall, wait_queue_block, wait_queue_wake_one, wait_queue_wake_all
<1>8. CASE ReturnStep
  BY <1>1, <1>4, <1>8
  DEF ReturnStep, return_from_resched, return_from_block, wake_all_next, wake_all_done
<1>9. CASE IrqCall
  BY <1>1, <1>9 DEF IrqCall, irq_wake_one, irq_wake_all
<1>10. CASE HandlerStep
  BY <1>1, <1>3, <1>10
  DEF HandlerStep, thread_sleep_handler, wait_queue_timeout_handler, timer_tick_done,
      thread_preempt, Expired
<1>11. CASE UNCHANGED vars
  BY <1>1, <1>11 DEF vars
<1> QED BY <1>5, <1>6, <1>7, <1>8, <1>9, <1>10, <1>11 DEF KernelNext, stopped

\* Where no thread waits with a timeout, the count is balanced: every thread
\* comes back to its own code with interrupts enabled, through any nesting of
\* calls, wake-ups, switches and interrupts.  With timeouts it is not (run
\* thread_leak).
THEOREM CriticalSectionsBalanced ==
    ASSUME Timeouts = {}
    PROVE  Spec => []CriticalSectionInv
<1>1. Init => CInv
  <2> SUFFICES ASSUME Init PROVE CInv
    OBVIOUS
  <2>1. /\ csc = 0 /\ irq = "none" /\ waking = None /\ current = Idle
        /\ pc = [t \in Threads |-> IF t = Idle THEN "run" ELSE "fresh"]
        /\ saved = [t \in Threads |-> 1] /\ timers = <<>> /\ Idle \in Threads
    BY ConstantTypes DEF Init
  <2>2. CriticalSectionInv
    BY <2>1, Depths DEF CriticalSectionInv
  <2>3. NoTimeouts(timers)
    BY <2>1 DEF NoTimeouts, ToSet
  <2> QED BY <2>2, <2>3, InitKInv DEF CInv
<1>2. CInv /\ [Next]_vars => CInv'
  <2> SUFFICES ASSUME CInv, [Next]_vars PROVE CInv'
    OBVIOUS
  <2>1. [KernelNext]_vars /\ KInv
    BY NextIsKernelNext DEF CInv
  <2>2. KInv' /\ NoTimeouts(timers')
    BY <2>1, KernelKeeps, NoTimeoutsKept DEF CInv
  <2>3. CriticalSectionInv'
    <3>1. CASE UNCHANGED vars
      BY <3>1 DEF CInv, CriticalSectionInv, vars, schedVars
    <3>2. CASE KernelNext
      BY <3>1, <3>2, ThreadStepCount, WaitCallCount, ReturnStepCount, IrqCallCount,
         HandlerStepCount DEF KernelNext, stopped
    <3> QED BY <2>1, <3>1, <3>2
  <2> QED BY <2>2, <2>3 DEF CInv
<1>3. CInv => CriticalSectionInv
  BY DEF CInv
<1> QED BY <1>1, <1>2, <1>3, PTL DEF Spec

-----------------------------------------------------------------------------
(* What the kernel does to waiters between the calls of its clients        *)

\* The steps of the kernel that are no call on a wait queue.
RestStep ==
    \/ thread_become_idle \/ thread_yield \/ thread_exit
    \/ \E t \in Threads : thread_resume(t) \/ thread_cleanup(t)
    \/ \E t \in Threads, p \in NewPriorities : thread_create(t, p)
    \/ \E p \in NewPriorities : thread_set_priority(p)
    \/ \E d \in Delays : thread_sleep(d)
    \/ return_from_resched \/ wake_all_next \/ wake_all_done
    \/ irq_tick \/ HandlerStep \/ stopped

LEMMA RestIsKernelNext == RestStep => KernelNext
BY DEF RestStep, KernelNext, ThreadStep, ReturnStep

\* No thread starts or ends its waiting.
WaitersStay ==
    /\ UNCHANGED waitq
    /\ \A t \in Threads :
          /\ state'[t] = "BLOCKED" <=> state[t] = "BLOCKED"
          /\ pc[t] = "block" => /\ blockRet'[t] = blockRet[t]
                                /\ blockedOn'[t] = blockedOn[t]
    /\ \/ waking' = waking
       \/ waking # None /\ waking' = None /\ waitq[waking.wait] = <<>>

\* Thread t, blocked on w, is made ready and told err.
Released(t, w, err) ==
    /\ state[t] = "BLOCKED" /\ blockedOn[t] = w
    /\ state' = [state EXCEPT ![t] = "READY"]
    /\ blockRet' = [blockRet EXCEPT ![t] = err]
    /\ blockedOn' = [blockedOn EXCEPT ![t] = None]
    /\ \A v \in WaitQueues : v # w => waitq'[v] = waitq[v]
    /\ UNCHANGED <<pc, waking>>

\* Who is blocked can be read off from the wait queues.
LEMMA SameWaiters ==
    ASSUME IInv, IInv', UNCHANGED waitVars
    PROVE  \A t \in Threads : state'[t] = "BLOCKED" <=> state[t] = "BLOCKED"
<1>1. /\ WaitQueueOK(state, waitq, wcount, blockedOn)
      /\ WaitQueueOK(state', waitq, wcount, blockedOn)
  BY DEF IInv, WaitQueueInv, waitVars
<1>2. \A t \in Threads :
         /\ state[t] = "BLOCKED" <=> \E w \in WaitQueues : t \in ToSet(waitq[w])
         /\ state'[t] = "BLOCKED" <=> \E w \in WaitQueues : t \in ToSet(waitq[w])
  BY <1>1 DEF WaitQueueOK
<1> QED BY <1>2

\* Such a step lets no thread into wait_queue_block or out of it.
LEMMA RestFrames ==
    ASSUME KInv, RestStep
    PROVE  \A t \in Threads : pc'[t] = "block" <=> pc[t] = "block"
<1>0. /\ pc \in [Threads -> Frames] /\ current \in Threads /\ FrameInv
  BY DEF KInv, IInv, TypeOK
<1>1. ASSUME NEW t \in Threads, NEW f, f # "block", pc[t] # "block",
             pc' = [pc EXCEPT ![t] = f]
      PROVE  \A u \in Threads : pc'[u] = "block" <=> pc[u] = "block"
  <2>1. \A u \in Threads : pc'[u] = IF u = t THEN f ELSE pc[u]
    BY <1>0, <1>1
  <2> QED BY <1>1, <2>1
<1>2. CASE UNCHANGED pc
  BY <1>2
<1>3. CASE thread_yield \/ thread_exit
  BY <1>0, <1>1, <1>3 DEF thread_yield, thread_exit, Calls, Interruptible
<1>4. ASSUME NEW t \in Threads, thread_resume(t) \/ thread_cleanup(t)
      PROVE  \A u \in Threads : pc'[u] = "block" <=> pc[u] = "block"
  BY <1>0, <1>1, <1>2, <1>4 DEF thread_resume, thread_cleanup, Calls, Interruptible
<1>5. ASSUME NEW t \in Threads, NEW p \in NewPriorities, thread_create(t, p)
      PROVE  \A u \in Threads : pc'[u] = "block" <=> pc[u] = "block"
  <2>1. pc[t] # "block" /\ pc' = [pc EXCEPT ![t] = "fresh"]
    BY <1>0, <1>5 DEF thread_create, FrameInv
  <2> QED BY <1>1, <2>1
<1>6. ASSUME NEW d \in Delays, thread_sleep(d)
      PROVE  \A u \in Threads : pc'[u] = "block" <=> pc[u] = "block"
  BY <1>0, <1>1, <1>6 DEF thread_sleep, Calls, Interruptible
<1>7. CASE return_from_resched
  BY <1>0, <1>1, <1>7 DEF return_from_resched, LeaveCall, InCall
<1>8. CASE wake_all_done
  BY <1>0, <1>1, <1>2, <1>8 DEF wake_all_done, FrameInv
<1>9. CASE thread_preempt
  BY <1>0, <1>1, <1>9 DEF thread_preempt, FrameInv
<1> QED BY <1>2, <1>3, <1>4, <1>5, <1>6, <1>7, <1>8, <1>9
     DEF RestStep, thread_become_idle, thread_set_priority, schedVars, wake_all_next,
         irq_tick, HandlerStep, thread_sleep_handler, wait_queue_timeout_handler,
         timer_tick_done, stopped, vars

\* It leaves the waiters alone but for one, which a wake-up loop or a timer
\* makes ready.
LEMMA RestStepShape ==
    ASSUME KInv, RestStep
    PROVE  \/ WaitersStay
           \/ \E t \in Threads, w \in WaitQueues :
                 \/ waking # None /\ w = waking.wait /\ Released(t, w, waking.err)
                 \/ /\ waking = None /\ Released(t, w, "ERR_TIMED_OUT")
                    /\ \E e \in ToSet(timers) : e.thread = t /\ e.cb = "timeout"
<1>0. /\ IInv /\ IInv' /\ FrameInv /\ state \in [Threads -> States]
      /\ blockRet \in [Threads -> Results] /\ blockedOn \in [Threads -> WaitQueues \cup {None}]
      /\ waitq \in [WaitQueues -> Seq(Threads)]
      /\ waking \in WakeLoops \cup {None} /\ timers \in Seq(TimerEntries) /\ Ordered(timers)
  BY RestIsKernelNext, KernelKeeps DEF KInv, IInv, TypeOK
<1>1. ASSUME UNCHANGED waitVars, waking' = waking PROVE WaitersStay
  BY <1>0, <1>1, SameWaiters DEF WaitersStay, waitVars
<1>2. CASE wake_all_next
  <2> DEFINE w == waking.wait
             t == Head(waitq[w])
  <2>1. /\ waking # None /\ waitq[w] # <<>>
        /\ Unblock(t, w, Tail(waitq[w]), waking.err)
        /\ state' = [state EXCEPT ![t] = "READY"]
        /\ UNCHANGED <<pc, waking>>
    BY <1>2 DEF wake_all_next
  <2>2. w \in WaitQueues
    BY <1>0, <2>1 DEF WakeLoops
  <2>3. t \in Threads /\ state[t] = "BLOCKED" /\ blockedOn[t] = w
    BY <1>0, <2>1, <2>2, FirstWaiter
  <2>4. Released(t, w, waking.err)
    BY <1>0, <2>1, <2>3 DEF Released, Unblock
  <2> QED BY <2>1, <2>2, <2>3, <2>4
<1>3. CASE wait_queue_timeout_handler
  <2> DEFINE t == Head(timers).thread
             w == blockedOn[t]
  <2>1. /\ irq = "tick" /\ timers # <<>> /\ Head(timers).cb = "timeout"
        /\ UNCHANGED <<pc, waking>>
    BY <1>3 DEF wait_queue_timeout_handler, Expired
  <2>2. waking = None /\ t \in Threads /\ Head(timers) \in ToSet(timers)
    BY <1>0, <2>1, FirstLeaves DEF FrameInv
  <2>3. CASE state[t] # "BLOCKED"
    <3>1. UNCHANGED waitVars
      BY <1>3, <2>3 DEF wait_queue_timeout_handler
    <3> QED BY <1>1, <2>1, <3>1
  <2>4. CASE state[t] = "BLOCKED"
    <3>1. /\ Unblock(t, w, RemoveAt(waitq[w], PositionOf(t, waitq[w])),
                     "ERR_TIMED_OUT")
          /\ state' = [state EXCEPT ![t] = "READY"]
      BY <1>3, <2>4 DEF wait_queue_timeout_handler
    <3>2. w \in WaitQueues
      BY <1>0, <2>2, <2>4 DEF IInv, WaitQueueInv, WaitQueueOK
    <3>3. Released(t, w, "ERR_TIMED_OUT")
      BY <1>0, <2>1, <2>4, <3>1, <3>2 DEF Released, Unblock
    <3> QED BY <2>1, <2>2, <3>2, <3>3
  <2> QED BY <2>3, <2>4
<1>4. ASSUME NEW t \in Threads, NEW p \in NewPriorities, thread_create(t, p)
      PROVE  WaitersStay
  <2>1. /\ state[t] = "NONE" /\ pc[t] # "block"
        /\ state' = [state EXCEPT ![t] = "SUSPENDED"]
        /\ blockedOn' = [blockedOn EXCEPT ![t] = None]
        /\ blockRet' = [blockRet EXCEPT ![t] = "NO_ERROR"]
        /\ UNCHANGED <<waitq, waking>>
    BY <1>0, <1>4 DEF thread_create, FrameInv
  <2>2. \A u \in Threads :
           /\ state'[u] = IF u = t THEN "SUSPENDED" ELSE state[u]
           /\ u # t => blockedOn'[u] = blockedOn[u] /\ blockRet'[u] = blockRet[u]
    BY <1>0, <2>1
  <2> QED BY <2>1, <2>2 DEF WaitersStay
<1>5. CASE wake_all_done
  <2>1. /\ UNCHANGED waitVars
        /\ waking # None /\ waking' = None /\ waitq[waking.wait] = <<>>
    BY <1>5 DEF wake_all_done
  <2> QED BY <1>0, <2>1, SameWaiters DEF WaitersStay, waitVars
<1>6. CASE thread_sleep_handler \/ timer_tick_done \/ thread_preempt \/ irq_tick
           \/ return_from_resched
  BY <1>1, <1>6 DEF thread_sleep_handler, timer_tick_done, thread_preempt, irq_tick,
                    return_from_resched, LeaveCall
<1> QED BY <1>1, <1>2, <1>3, <1>4, <1>5, <1>6
     DEF RestStep, thread_become_idle, thread_yield, thread_exit, thread_resume,
         thread_cleanup, thread_set_priority, thread_sleep, HandlerStep, stopped, vars

\* It brings no timeout that was not queued.
LEMMA RestTimeouts ==
    ASSUME KInv, RestStep
    PROVE  \A e \in ToSet(timers') : e.cb = "timeout" =>
              \E x \in ToSet(timers) : x.thread = e.thread /\ x.cb = "timeout"
<1> DEFINE Old == \A e \in ToSet(timers') : e.cb = "timeout" =>
                     \E x \in ToSet(timers) : x.thread = e.thread /\ x.cb = "timeout"
<1>0. timers \in Seq(TimerEntries) /\ Ordered(timers)
  BY DEF KInv, IInv, TypeOK
<1>1. CASE UNCHANGED timers
  BY <1>1
<1>2. ASSUME NEW d \in Delays, thread_sleep(d) PROVE Old
  <2> DEFINE e == [thread |-> current, left |-> d, cb |-> "sleep"]
  <2>1. Calls /\ insert_timer_in_queue(e)
    BY <1>2 DEF thread_sleep
  <2>2. e \in TimerEntries /\ e.thread = current /\ e.cb = "sleep"
    BY ConstantTypes DEF TimerEntries, KInv, IInv, TypeOK
  <2>3. \A x \in ToSet(timers) : x.thread # e.thread
    BY <2>1, <2>2, CallerHasNoTimer
  <2> HIDE DEF e
  <2>4. ToSet(timers') = ToSet(timers) \cup {e}
    BY <1>0, <2>1, <2>2, <2>3, InsertTimer
  <2> QED BY <2>2, <2>4
<1>3. ASSUME timers # <<>>, timers' = Tail(timers) PROVE Old
  BY <1>0, <1>3, FirstLeaves
<1>4. CASE irq_tick
  BY <1>0, <1>4, TickTimers DEF irq_tick
<1>5. CASE HandlerStep
  BY <1>1, <1>3, <1>5
  DEF HandlerStep, thread_sleep_handler, wait_queue_timeout_handler, timer_tick_done,
      thread_preempt, Expired
<1> QED BY <1>1, <1>2, <1>4, <1>5
     DEF RestStep, thread_become_idle, thread_yield, thread_exit, thread_resume,
         thread_cleanup, thread_create, thread_set_priority, return_from_resched,
         wake_all_next, wake_all_done, stopped, vars

-----------------------------------------------------------------------------
(* What the calls on wait queues do to the waiters                         *)

\* The blocked threads are those in the wait queues.
LEMMA BlockedAre ==
    ASSUME IInv, IInv'
    PROVE  \A t \in Threads :
              /\ state[t] = "BLOCKED" <=> \E w \in WaitQueues : t \in ToSet(waitq[w])
              /\ state'[t] = "BLOCKED" <=> \E w \in WaitQueues : t \in ToSet(waitq'[w])
BY DEF IInv, WaitQueueInv, WaitQueueOK

\* wait_queue_block adds its caller to the waiters, and a timeout of its own at
\* most.
LEMMA BlockShape ==
    ASSUME KInv, NEW w \in WaitQueues, NEW d \in Timeouts \cup {None},
           wait_queue_block(w, d)
    PROVE  /\ Calls /\ UNCHANGED <<irq, waking>>
           /\ \A t \in Threads :
                 /\ state'[t] = "BLOCKED" <=> t = current \/ state[t] = "BLOCKED"
                 /\ pc'[t] = IF t = current THEN "block" ELSE pc[t]
                 /\ blockRet'[t] = IF t = current THEN "NO_ERROR" ELSE blockRet[t]
                 /\ blockedOn'[t] = IF t = current THEN w ELSE blockedOn[t]
           /\ waitq'[w] = Append(waitq[w], current)
           /\ \A v \in WaitQueues : v # w => waitq'[v] = waitq[v]
           /\ \A e \in ToSet(timers') :
                 e \in ToSet(timers) \/ (e.thread = current /\ d # None)
<1>1. /\ IInv /\ Calls /\ Ordered(timers) /\ timers \in Seq(TimerEntries)
      /\ waitq \in [WaitQueues -> Seq(Threads)] /\ pc \in [Threads -> Frames]
      /\ blockRet \in [Threads -> Results] /\ blockedOn \in [Threads -> WaitQueues \cup {None}]
  BY DEF KInv, IInv, TypeOK, wait_queue_block
<1>2. IInv'
  <2>1. KernelNext
    BY DEF KernelNext, WaitCall
  <2> QED BY <2>1, KernelKeeps DEF KInv
<1>3. /\ UNCHANGED <<irq, waking>>
      /\ waitq' = [waitq EXCEPT ![w] = Append(@, current)]
      /\ pc' = [pc EXCEPT ![current] = "block"]
      /\ blockRet' = [blockRet EXCEPT ![current] = "NO_ERROR"]
      /\ blockedOn' = [blockedOn EXCEPT ![current] = w]
  BY DEF wait_queue_block
<1>4. /\ waitq'[w] = Append(waitq[w], current)
      /\ \A v \in WaitQueues : v # w => waitq'[v] = waitq[v]
  BY <1>1, <1>3
<1>5. current \in Threads /\ current \notin ToSet(waitq[w]) /\ IsInjective(waitq[w])
  BY <1>1, CallFacts DEF IInv, WaitQueueInv, WaitQueueOK
<1>6. ToSet(waitq'[w]) = ToSet(waitq[w]) \cup {current}
  BY <1>1, <1>4, <1>5, PushBack
<1>7. \A t \in Threads : state'[t] = "BLOCKED" <=> t = current \/ state[t] = "BLOCKED"
  <2>1. \A t \in Threads : (\E v \in WaitQueues : t \in ToSet(waitq'[v])) <=>
                           t = current \/ \E v \in WaitQueues : t \in ToSet(waitq[v])
    BY <1>4, <1>6
  <2> QED BY <1>1, <1>2, <2>1, BlockedAre
<1>8. \A e \in ToSet(timers') : e \in ToSet(timers) \/ (e.thread = current /\ d # None)
  <2>1. CASE d = None
    BY <2>1 DEF wait_queue_block
  <2>2. CASE d # None
    <3> DEFINE e == [thread |-> current, left |-> d, cb |-> "timeout"]
    <3>1. insert_timer_in_queue(e)
      BY <2>2 DEF wait_queue_block
    <3>2. e \in TimerEntries /\ e.thread = current
      BY <1>5, <2>2, ConstantTypes DEF TimerEntries
    <3>3. \A x \in ToSet(timers) : x.thread # e.thread
      BY <1>1, <3>2, CallerHasNoTimer
    <3> HIDE DEF e
    <3>4. ToSet(timers') = ToSet(timers) \cup {e}
      BY <1>1, <3>1, <3>2, <3>3, InsertTimer
    <3> QED BY <2>2, <3>2, <3>4
  <2> QED BY <2>1, <2>2
<1>9. \A t \in Threads : 
         /\ pc'[t] = IF t = current THEN "block" ELSE pc[t]
         /\ blockRet'[t] = IF t = current THEN "NO_ERROR" ELSE blockRet[t]
         /\ blockedOn'[t] = IF t = current THEN w ELSE blockedOn[t]
  BY <1>1, <1>3
<1> QED BY <1>1, <1>3, <1>4, <1>7, <1>8, <1>9

\* A wake-up of one takes the first waiter out of its queue and tells it err.
OneWoken(w, err) ==
    LET t == Head(waitq[w])
    IN  /\ t \in Threads /\ t # current
        /\ state[t] = "BLOCKED" /\ blockedOn[t] = w
        /\ \A u \in Threads :
              /\ state'[u] = "BLOCKED" <=> u # t /\ state[u] = "BLOCKED"
              /\ blockRet'[u] = IF u = t THEN err ELSE blockRet[u]
              /\ blockedOn'[u] = IF u = t THEN None ELSE blockedOn[u]
        /\ waitq'[w] = Tail(waitq[w])
        /\ \A v \in WaitQueues : v # w => waitq'[v] = waitq[v]
        /\ UNCHANGED <<timers, waking>>
        /\ \A u \in Threads : pc'[u] = "block" <=> pc[u] = "block"

LEMMA WakeOneShape ==
    ASSUME KInv, NEW w \in WaitQueues, NEW err \in Results, waitq[w] # <<>>,
           (\E r \in BOOLEAN : wait_queue_wake_one(w, r, err)) \/ irq_wake_one(w, err)
    PROVE  OneWoken(w, err)
<1> DEFINE t == Head(waitq[w])
<1>1. /\ IInv /\ waitq \in [WaitQueues -> Seq(Threads)] /\ pc \in [Threads -> Frames]
      /\ blockRet \in [Threads -> Results] /\ blockedOn \in [Threads -> WaitQueues \cup {None}]
      /\ current \in Threads
  BY DEF KInv, IInv, TypeOK
<1>2. IInv'
  <2>1. KernelNext
    BY DEF KernelNext, WaitCall, IrqCall
  <2> QED BY <2>1, KernelKeeps DEF KInv
<1>3. /\ Unblock(t, w, Tail(waitq[w]), err) /\ UNCHANGED <<timers, waking>>
      /\ Interruptible
      /\ pc' = pc \/ pc' = [pc EXCEPT ![current] = "wake"]
  BY DEF wait_queue_wake_one, irq_wake_one, Calls
<1>4. /\ t \in Threads /\ state[t] = "BLOCKED" /\ blockedOn[t] = w
      /\ ToSet(Tail(waitq[w])) = ToSet(waitq[w]) \ {t}
  BY <1>1, FirstWaiter
<1> HIDE DEF t
<1>5. /\ waitq'[w] = Tail(waitq[w])
      /\ \A v \in WaitQueues : v # w => waitq'[v] = waitq[v]
      /\ \A u \in Threads :
            /\ blockRet'[u] = IF u = t THEN err ELSE blockRet[u]
            /\ blockedOn'[u] = IF u = t THEN None ELSE blockedOn[u]
  BY <1>1, <1>3, <1>4 DEF Unblock
<1>6. \A u \in Threads : state'[u] = "BLOCKED" <=> u # t /\ state[u] = "BLOCKED"
  <2>1. \A v \in WaitQueues : v # w => t \notin ToSet(waitq[v])
    BY <1>1, <1>4 DEF IInv, WaitQueueInv, WaitQueueOK
  <2>2. \A u \in Threads : (\E v \in WaitQueues : u \in ToSet(waitq'[v])) <=>
                           u # t /\ \E v \in WaitQueues : u \in ToSet(waitq[v])
    BY <1>4, <1>5, <2>1
  <2> QED BY <1>1, <1>2, <2>2, BlockedAre
<1>7. t # current
  BY <1>1, <1>3, <1>4 DEF IInv, CurrentInv, Interruptible
<1>8. \A u \in Threads : pc'[u] = "block" <=> pc[u] = "block"
  BY <1>1, <1>3 DEF Interruptible
<1> QED BY <1>3, <1>4, <1>5, <1>6, <1>7, <1>8 DEF OneWoken, t

\* The start of a wake-up of all changes no waiter.
LEMMA WakeAllShape ==
    ASSUME KInv, NEW w \in WaitQueues, NEW err \in Results,
           (\E r \in BOOLEAN : wait_queue_wake_all(w, r, err)) \/ irq_wake_all(w, err)
    PROVE  /\ waking' # None /\ waking'.wait = w /\ waking'.err = err
           /\ \A t \in Threads : state'[t] = "BLOCKED" <=> state[t] = "BLOCKED"
           /\ UNCHANGED <<pc, waitVars, timers>>
<1>1. /\ state \in [Threads -> States] /\ waking = None
      /\ state[current] # "BLOCKED" /\ Interruptible
  BY DEF wait_queue_wake_all, irq_wake_all, Calls, Interruptible, KInv, IInv, TypeOK,
         CurrentInv
<1>2. UNCHANGED state \/ state' = [state EXCEPT ![current] = "READY"]
  BY DEF wait_queue_wake_all, irq_wake_all
<1>3. \A t \in Threads : state'[t] = "BLOCKED" <=> state[t] = "BLOCKED"
  BY <1>1, <1>2
<1>4. /\ \E r \in BOOLEAN : waking' = [wait |-> w, resched |-> r, err |-> err]
      /\ UNCHANGED <<pc, waitVars, timers>>
  BY DEF wait_queue_wake_all, irq_wake_all
<1>5. waking' # None
  BY <1>4, ConstantTypes DEF WakeLoops
<1> QED BY <1>3, <1>4, <1>5

\* The end of wait_queue_block takes its caller out of the call.
LEMMA ReturnShape ==
    ASSUME KInv, return_from_block
    PROVE  /\ current \in Threads /\ pc[current] = "block" /\ waking = None /\ irq = "none"
           /\ state[current] = "RUNNING"
           /\ \A t \in Threads : pc'[t] = IF t = current THEN "run" ELSE pc[t]
           /\ \A e \in ToSet(timers') : e \in ToSet(timers)
           /\ UNCHANGED <<state, waitVars, waking>>
<1>1. /\ current \in Threads /\ pc \in [Threads -> Frames] /\ CurrentInv
      /\ timers \in Seq(TimerEntries) /\ Ordered(timers)
  BY DEF KInv, IInv, TypeOK
<1>2. /\ InCall("block") /\ timer_cancel(current) /\ LeaveCall
  BY DEF return_from_block
<1>3. \A e \in ToSet(timers') : e \in ToSet(timers)
  BY <1>1, <1>2, OwnLeaves
<1> QED BY <1>1, <1>2, <1>3 DEF InCall, LeaveCall, CurrentInv

=============================================================================
