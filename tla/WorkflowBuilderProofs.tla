------------------------ MODULE WorkflowBuilderProofs ------------------------
(***************************************************************************)
(* What Build accepts is well formed and what it refuses is not, for every *)
(* set of ids, whatever steps are put and in whatever order; and the       *)
(* retries of what it accepts slow down.                                   *)
(***************************************************************************)
EXTENDS WorkflowBuilder, SequenceTheorems, NaturalsInduction, WellFoundedInduction, TLAPS

-----------------------------------------------------------------------------
(***************************************************************************)
(* The inductive invariant.  The stack is a path of dependencies and holds *)
(* exactly the grey steps; the black steps depend on black steps only, and *)
(* have no cycle; every id that the cursor has passed was entered.  A      *)
(* policy is one that Normalize has seen.                                  *)
(***************************************************************************)
UsablePolicy(p) ==
    /\ p.attempts >= 1 /\ p.initial >= 1
    /\ p.max >= p.initial \/ p.max = DefaultMax

Normalized ==
    \A i \in Ids :
        /\ UsablePolicy(steps[i].retry)
        /\ steps[i].kind = "activity" => steps[i].queue # NoQueue

Checked ==
    phase \in {"visiting", "built"} => Ids # {} /\ \A i \in Ids : StepAccepted(steps[i])

Black == {i \in ID : color[i] = "black"}

StackIsPath ==
    /\ \A n \in DOMAIN stack : stack[n] \in Ids /\ color[stack[n]] = "grey"
    /\ \A i \in ID : color[i] = "grey" => \E n \in DOMAIN stack : stack[n] = i
    /\ \A m, n \in DOMAIN stack : stack[m] = stack[n] => m = n
    /\ \A n \in DOMAIN stack : n + 1 \in DOMAIN stack => stack[n + 1] \in steps[stack[n]].deps

BlackIsDone ==
    /\ \A i \in Black : i \in Ids /\ steps[i].deps \subseteq Black
    /\ \A S \in SUBSET Black : S # {} => \E i \in S : steps[i].deps \cap S = {}

CursorPassed == \A n \in 1..cursor : color[order[n]] # "white"

Search == phase = "visiting" => StackIsPath /\ BlackIsDone /\ CursorPassed

BuilderInv ==
    /\ TypeOK
    /\ OrderListsSteps
    /\ Normalized
    /\ Checked
    /\ Search
    /\ BuiltIsWellFormed
    /\ RefusedIsIllFormed

-----------------------------------------------------------------------------
(***************************************************************************)
(* The backoff of a policy, for every attempt: the recursive function of   *)
(* BackoffForAttempt exists, and therefore satisfies its equation.         *)
(***************************************************************************)
\* Induction over the natural numbers, for a set of them.
LEMMA SetInduction ==
    ASSUME NEW S \in SUBSET Nat, 0 \in S, \A n \in S : n + 1 \in S
    PROVE  \A n \in Nat : n \in S
<1> SUFFICES ASSUME Nat \ S # {} PROVE FALSE
  OBVIOUS
<1> DEFINE R == {p \in Nat \X Nat : p[1] < p[2]}
<1>1. IsWellFoundedOn(R, Nat)
  BY NatLessThanWellFounded DEF OpToRel
<1>2. PICK m \in Nat \ S : \A k \in Nat \ S : ~(<<k, m>> \in R)
  <2> HIDE DEF R
  <2> QED BY <1>1, WFMin
<1>3. \A k \in Nat \ S : ~(k < m)
  BY <1>2
<1>4. m - 1 \in Nat /\ m - 1 < m /\ (m - 1) + 1 = m
  OBVIOUS
<1>5. m - 1 \in S
  BY <1>3, <1>4
<1> QED BY <1>4, <1>5

Longer(policy, d) == IF 2 * d >= policy.max THEN policy.max ELSE 2 * d

Delay(policy, h, i) == IF i <= 1 THEN policy.initial ELSE Longer(policy, h[i - 1])

\* h gives the delays of the attempts up to n.
IsBackoff(policy, h, n) == h = [i \in 0..n |-> Delay(policy, h, i)]

LEMMA BackoffExtends ==
    ASSUME NEW policy, NEW n \in Nat, NEW h, IsBackoff(policy, h, n)
    PROVE  \E g : IsBackoff(policy, g, n + 1)
<1> DEFINE last == Delay(policy, h, n + 1)
           g == [i \in 0..(n + 1) |-> IF i <= n THEN h[i] ELSE last]
<1>1. ASSUME NEW i \in 0..(n + 1) PROVE g[i] = Delay(policy, g, i)
  <2>1. i > 1 => /\ i - 1 \in 0..(n + 1) /\ i - 1 <= n
    OBVIOUS
  <2>2. i > 1 => g[i - 1] = h[i - 1]
    BY <2>1
  <2>3. Delay(policy, g, i) = Delay(policy, h, i)
    <3> HIDE DEF g
    <3> QED BY <2>2 DEF Delay
  <2>4. CASE i <= n
    <3>1. i \in 0..n
      BY <2>4
    <3>2. h[i] = Delay(policy, h, i)
      BY <3>1 DEF IsBackoff
    <3> QED BY <2>3, <2>4, <3>2
  <2>5. CASE i = n + 1
    <3>1. g[i] = last
      BY <2>5
    <3> QED BY <2>3, <2>5, <3>1
  <2> QED BY <2>4, <2>5
<1>2. g = [i \in 0..(n + 1) |-> g[i]]
  OBVIOUS
<1> HIDE DEF g
<1>3. g = [i \in 0..(n + 1) |-> Delay(policy, g, i)]
  BY <1>1, <1>2
<1> QED BY <1>3 DEF IsBackoff

LEMMA BackoffExists ==
    ASSUME NEW policy
    PROVE  \A n \in Nat : \E h : IsBackoff(policy, h, n)
<1> DEFINE K == {n \in Nat : \E h : IsBackoff(policy, h, n)}
<1>1. 0 \in K
  <2> DEFINE h == [i \in 0..0 |-> policy.initial]
  <2>1. h = [i \in 0..0 |-> Delay(policy, h, i)]
    BY DEF Delay
  <2> QED BY <2>1 DEF IsBackoff
<1>2. \A n \in K : n + 1 \in K
  BY BackoffExtends
<1> HIDE DEF K
<1>3. \A n \in Nat : n \in K
  <2>1. K \in SUBSET Nat
    BY DEF K
  <2> QED BY <1>1, <1>2, <2>1, SetInduction
<1> QED BY <1>3 DEF K

\* A longer table goes on from a shorter one.
LEMMA BackoffAgrees ==
    ASSUME NEW policy, NEW n \in Nat, NEW h, NEW g,
           IsBackoff(policy, h, n), IsBackoff(policy, g, n + 1)
    PROVE  h[n] = g[n]
<1> DEFINE K == {i \in Nat : i <= n => h[i] = g[i]}
<1>1. \A i \in 0..n : h[i] = Delay(policy, h, i) /\ g[i] = Delay(policy, g, i)
  <2>1. \A i \in 0..n : i \in 0..(n + 1)
    OBVIOUS
  <2>2. \A i \in 0..n : h[i] = Delay(policy, h, i)
    BY DEF IsBackoff
  <2>3. \A i \in 0..(n + 1) : g[i] = Delay(policy, g, i)
    BY DEF IsBackoff
  <2> QED BY <2>1, <2>2, <2>3
<1>2. 0 \in K
  BY <1>1 DEF Delay
<1>3. ASSUME NEW i \in K PROVE i + 1 \in K
  <2> SUFFICES ASSUME i + 1 <= n PROVE h[i + 1] = g[i + 1]
    OBVIOUS
  <2>1. h[i] = g[i] /\ i + 1 \in 0..n /\ (i + 1) - 1 = i
    OBVIOUS
  <2> QED BY <1>1, <2>1 DEF Delay
<1> HIDE DEF K
<1>4. n \in K
  <2>1. K \in SUBSET Nat
    BY DEF K
  <2> QED BY <1>2, <1>3, <2>1, SetInduction
<1> QED BY <1>4 DEF K

LEMMA BackoffDefined ==
    ASSUME NEW policy
    PROVE  \E h : h = [i \in Nat |-> Delay(policy, h, i)]
<1> DEFINE table(n) == CHOOSE h : IsBackoff(policy, h, n)
           g == [n \in Nat |-> table(n)[n]]
<1>1. ASSUME NEW n \in Nat PROVE IsBackoff(policy, table(n), n)
  BY BackoffExists
<1> HIDE DEF table
<1>2. ASSUME NEW n \in Nat PROVE g[n] = Delay(policy, g, n)
  <2>1. n \in 0..n
    OBVIOUS
  <2>2. table(n)[n] = Delay(policy, table(n), n)
    BY <1>1, <2>1 DEF IsBackoff
  <2>3. n > 1 => table(n)[n - 1] = table(n - 1)[n - 1]
    <3> SUFFICES ASSUME n > 1 PROVE table(n)[n - 1] = table(n - 1)[n - 1]
      OBVIOUS
    <3>1. PICK m \in Nat : n = m + 1 /\ n - 1 = m
      <4>1. n - 1 \in Nat /\ n = (n - 1) + 1
        OBVIOUS
      <4> QED BY <4>1
    <3>2. IsBackoff(policy, table(m), m) /\ IsBackoff(policy, table(m + 1), m + 1)
      BY <1>1
    <3>3. table(m)[m] = table(m + 1)[m]
      BY <3>2, BackoffAgrees
    <3> QED BY <3>1, <3>3
  <2>4. n > 1 => g[n - 1] = table(n - 1)[n - 1]
    OBVIOUS
  <2>5. Delay(policy, g, n) = Delay(policy, table(n), n)
    <3> HIDE DEF g
    <3> QED BY <2>3, <2>4 DEF Delay
  <2> QED BY <2>2, <2>5
<1>3. g = [n \in Nat |-> g[n]]
  OBVIOUS
<1> HIDE DEF g
<1>4. g = [n \in Nat |-> Delay(policy, g, n)]
  BY <1>2, <1>3
<1> QED BY <1>4

\* The delays of a policy, once Normalize leaves it as it is.
LEMMA BackoffValue ==
    ASSUME NEW p, Normalize(p) = p
    PROVE  \A n \in Nat : BackoffForAttempt(p, n) =
              IF n <= 1 THEN p.initial ELSE Longer(p, BackoffForAttempt(p, n - 1))
<1> DEFINE b == CHOOSE h : h = [i \in Nat |-> IF i <= 1 THEN p.initial
                                  ELSE IF 2 * h[i - 1] >= p.max THEN p.max ELSE 2 * h[i - 1]]
<1>1. \A n : BackoffForAttempt(p, n) = b[n]
  BY DEF BackoffForAttempt
<1>2. b = [i \in Nat |-> IF i <= 1 THEN p.initial
                         ELSE IF 2 * b[i - 1] >= p.max THEN p.max ELSE 2 * b[i - 1]]
  BY BackoffDefined DEF Delay, Longer
<1> HIDE DEF b
<1>3. \A n \in Nat : b[n] = IF n <= 1 THEN p.initial
                             ELSE IF 2 * b[n - 1] >= p.max THEN p.max ELSE 2 * b[n - 1]
  BY <1>2
<1> QED BY <1>1, <1>3 DEF Longer

-----------------------------------------------------------------------------
\* A normalized policy is a policy with at least one attempt, and one that
\* Normalize leaves as it is.
LEMMA NormalizeType ==
    ASSUME NEW p \in Policy
    PROVE  Normalize(p) \in Policy /\ UsablePolicy(Normalize(p))
BY BackoffAssumption DEF Normalize, OrDefault, Policy, UsablePolicy

LEMMA NormalizedStays ==
    ASSUME NEW p \in Policy, UsablePolicy(p)
    PROVE  Normalize(p) = p
BY BackoffAssumption DEF Normalize, OrDefault, Policy, UsablePolicy

(***************************************************************************)
(* The delays stay below the maximum, from the first one on if that one    *)
(* does; so each doubles the one before it or stops at the maximum.        *)
(***************************************************************************)
LEMMA DelaysGrow ==
    ASSUME NEW p \in Policy, UsablePolicy(p), p.initial <= DefaultMax,
           NEW n \in Nat \ {0}
    PROVE  /\ BackoffForAttempt(p, n) <= p.max
           /\ BackoffForAttempt(p, n) <= BackoffForAttempt(p, n + 1)
           /\ BackoffForAttempt(p, n + 1) \in {2 * BackoffForAttempt(p, n), p.max}
<1> DEFINE d(i) == BackoffForAttempt(p, i)
           K == {i \in Nat : d(i) \in Nat /\ d(i) <= p.max}
<1>1. p.initial \in Nat /\ p.max \in Nat /\ p.initial <= p.max
  BY BackoffAssumption DEF Policy, UsablePolicy
<1>2. \A i \in Nat : d(i) = IF i <= 1 THEN p.initial ELSE Longer(p, d(i - 1))
  BY NormalizedStays, BackoffValue
<1> HIDE DEF d
<1>3. 0 \in K
  BY <1>1, <1>2
<1>4. ASSUME NEW i \in Nat, d(i) \in Nat, d(i) <= p.max
      PROVE  /\ d(i + 1) \in Nat /\ d(i + 1) <= p.max
             /\ i # 0 => d(i) <= d(i + 1) /\ d(i + 1) \in {2 * d(i), p.max}
  <2>1. CASE i = 0
    BY <1>1, <1>2, <2>1
  <2>2. CASE i # 0
    <3>1. i + 1 \in Nat /\ ~(i + 1 <= 1) /\ (i + 1) - 1 = i
      BY <2>2
    <3>2. d(i + 1) = Longer(p, d(i))
      BY <1>2, <3>1
    <3> QED BY <1>1, <1>4, <3>2 DEF Longer
  <2> QED BY <2>1, <2>2
<1>5. \A i \in K : i + 1 \in K
  BY <1>4
<1> HIDE DEF K
<1>6. n \in K
  <2>1. K \in SUBSET Nat
    BY DEF K
  <2> QED BY <1>3, <1>5, <2>1, SetInduction
<1>7. d(n) \in Nat /\ d(n) <= p.max
  BY <1>6 DEF K
<1>8. d(n) <= d(n + 1) /\ d(n + 1) \in {2 * d(n), p.max}
  BY <1>4, <1>7
<1> QED BY <1>7, <1>8 DEF d

\* The stack is not empty when its length says so, and then has a top.
LEMMA TopType ==
    ASSUME stack \in Seq(ID), stack # <<>>
    PROVE  Len(stack) \in DOMAIN stack /\ Top \in ID
BY DEF Top

LEMMA InitInv == Init => BuilderInv
<1> SUFFICES ASSUME Init PROVE BuilderInv
  OBVIOUS
<1> USE DEF Init
<1>1. Ids = {}
  BY DEF Ids
<1>2. TypeOK
  BY <1>1, EmptySeq DEF TypeOK, Phase, White
<1>3. OrderListsSteps
  BY <1>1 DEF OrderListsSteps
<1> QED
  BY <1>1, <1>2, <1>3 DEF BuilderInv, Normalized, Checked, Search, BuiltIsWellFormed,
                          RefusedIsIllFormed

-----------------------------------------------------------------------------
(***************************************************************************)
(* Putting a step.                                                         *)
(***************************************************************************)
LEMMA PutInv ==
    ASSUME BuilderInv, NEW s \in Input, Put(s)
    PROVE  BuilderInv'
<1> DEFINE step == [s EXCEPT !.retry = Normalize(@),
                             !.queue = IF @ = NoQueue /\ s.kind = "activity"
                                         THEN "default" ELSE @]
<1>1. /\ steps' = [i \in Ids \cup {s.id} |-> IF i = s.id THEN step ELSE steps[i]]
      /\ order' = OrderAfter(s)
      /\ phase' = "building"
      /\ UNCHANGED <<cursor, color, stack>>
  BY DEF Put
<1>2. /\ DOMAIN s = {"id", "kind", "filled", "queue", "deps", "retry"}
      /\ s.id \in ID /\ s.deps \subseteq ID /\ s.retry \in Policy
  BY WorkflowBuilderAssumption
<1>3. /\ step.id = s.id /\ step.deps = s.deps /\ step.kind = s.kind
      /\ step.retry = Normalize(s.retry)
      /\ step.queue = IF s.queue = NoQueue /\ s.kind = "activity" THEN "default" ELSE s.queue
  BY <1>2
<1>4. step.retry \in Policy /\ UsablePolicy(step.retry)
  BY <1>2, <1>3, NormalizeType
<1>5. step.kind = "activity" => step.queue # NoQueue
  BY <1>3, WorkflowBuilderAssumption
<1> HIDE DEF step
<1>6. Ids' = Ids \cup {s.id}
  BY <1>1 DEF Ids
<1>7. order' \in Seq(ID) /\ Len(order') >= Len(order)
  BY <1>1, <1>2 DEF OrderAfter, BuilderInv, TypeOK
<1>8. TypeOK'
  <2>1. \A i \in Ids' : /\ steps'[i].id = i
                        /\ steps'[i].deps \subseteq ID
                        /\ steps'[i].retry \in Policy
    BY <1>1, <1>2, <1>3, <1>4, <1>6 DEF BuilderInv, TypeOK
  <2>2. Ids' \subseteq ID
    BY <1>2, <1>6 DEF BuilderInv, TypeOK
  <2>3. cursor' \in 0..Len(order')
    <3>1. cursor \in 0..Len(order) /\ Len(order) \in Nat /\ Len(order') \in Nat
      BY <1>7 DEF BuilderInv, TypeOK
    <3> QED BY <1>1, <1>7, <3>1
  <2>4. /\ phase' \in Phase
        /\ color' \in [ID -> {"white", "grey", "black"}]
        /\ stack' \in Seq(ID)
    BY <1>1 DEF BuilderInv, TypeOK, Phase
  <2> QED BY <1>7, <2>1, <2>2, <2>3, <2>4 DEF TypeOK
<1>9. OrderListsSteps'
  <2>1. CASE s.id \in Ids
    BY <1>1, <1>6, <2>1 DEF OrderAfter, OrderListsSteps, BuilderInv
  <2>2. CASE s.id \notin Ids
    <3>1. order' = Append(order, s.id)
      BY <1>1, <2>2 DEF OrderAfter
    <3>2. /\ DOMAIN order' = 1..(Len(order) + 1)
          /\ \A n \in 1..Len(order) : order'[n] = order[n]
          /\ order'[Len(order) + 1] = s.id
      BY <1>2, <3>1 DEF BuilderInv, TypeOK
    <3>3. \A n \in 1..Len(order) : order[n] \in Ids
      BY DEF BuilderInv, TypeOK, OrderListsSteps
    <3>4. {order'[n] : n \in DOMAIN order'} = Ids'
      <4>1. Len(order) \in Nat /\ DOMAIN order = 1..Len(order)
        BY DEF BuilderInv, TypeOK
      <4>2. DOMAIN order' = (1..Len(order)) \cup {Len(order) + 1}
        BY <3>2, <4>1
      <4>3. {order'[n] : n \in DOMAIN order'} = {order[n] : n \in 1..Len(order)} \cup {s.id}
        BY <3>2, <4>2
      <4>4. {order[n] : n \in 1..Len(order)} = Ids
        BY <4>1 DEF BuilderInv, OrderListsSteps
      <4> QED BY <1>6, <4>3, <4>4, Zenon
    <3>5. \A m, n \in DOMAIN order' : order'[m] = order'[n] => m = n
      <4>1. order \in Seq(ID) /\ Len(order) \in Nat /\ DOMAIN order = 1..Len(order)
        BY DEF BuilderInv, TypeOK
      <4>2. \A m, n \in 1..Len(order) : order[m] = order[n] => m = n
        BY <4>1 DEF BuilderInv, OrderListsSteps
      <4>3. ASSUME NEW m \in DOMAIN order', NEW n \in DOMAIN order', order'[m] = order'[n]
            PROVE  m = n
        <5>1. /\ m \in 1..Len(order) \/ m = Len(order) + 1
              /\ n \in 1..Len(order) \/ n = Len(order) + 1
          BY <3>2, <4>1, <4>3
        <5>2. CASE m \in 1..Len(order) /\ n \in 1..Len(order)
          BY <3>2, <4>2, <4>3, <5>2
        <5>3. CASE m \in 1..Len(order) /\ n = Len(order) + 1
          BY <2>2, <3>2, <3>3, <4>3, <5>3
        <5>4. CASE m = Len(order) + 1 /\ n \in 1..Len(order)
          BY <2>2, <3>2, <3>3, <4>3, <5>4
        <5> QED BY <5>1, <5>2, <5>3, <5>4
      <4> QED BY <4>3
    <3> QED BY <3>4, <3>5 DEF OrderListsSteps
  <2> QED BY <2>1, <2>2
<1>10. Normalized'
  BY <1>1, <1>4, <1>5, <1>6 DEF BuilderInv, Normalized
<1> QED
  BY <1>1, <1>8, <1>9, <1>10 DEF BuilderInv, Checked, Search, BuiltIsWellFormed,
                                 RefusedIsIllFormed

(***************************************************************************)
(* Beginning to build.                                                     *)
(***************************************************************************)
\* A step that Build refuses makes the definition ill formed.
LEMMA NotAcceptedIsIllFormed ==
    ASSUME NEW i \in Ids, ~StepAccepted(steps[i]), steps[i].id = i
    PROVE  ~WellFormed
<1>1. CASE i \in steps[i].deps
  <2>1. {i} \in SUBSET Ids /\ {i} # {} /\ ~\E j \in {i} : steps[j].deps \cap {i} = {}
    BY <1>1
  <2>2. ~Acyclic
    BY <2>1 DEF Acyclic
  <2> QED BY <2>2 DEF WellFormed
<1>2. CASE i \notin steps[i].deps
  BY <1>2 DEF StepAccepted, WellFormed
<1> QED BY <1>1, <1>2

LEMMA BuildInv ==
    ASSUME BuilderInv, Build
    PROVE  BuilderInv'
<1>1. /\ cursor' = 0 /\ color' = White /\ stack' = <<>>
      /\ UNCHANGED <<steps, order>>
      /\ phase' = IF Ids # {} /\ \A i \in Ids : StepAccepted(steps[i])
                    THEN "visiting" ELSE "refused"
  BY DEF Build
<1>2. Ids' = Ids
  BY <1>1 DEF Ids
<1>3. TypeOK' /\ OrderListsSteps' /\ Normalized'
  BY <1>1, <1>2 DEF BuilderInv, TypeOK, OrderListsSteps, Normalized, White, Phase
<1>4. Checked'
  BY <1>1, <1>2 DEF Checked, StepAccepted
<1>5. Search'
  <2>1. Black' = {}
    BY <1>1 DEF Black, White
  <2>2. BlackIsDone'
    BY <2>1 DEF BlackIsDone
  <2>3. StackIsPath'
    BY <1>1 DEF StackIsPath, White
  <2>4. CursorPassed'
    BY <1>1 DEF CursorPassed
  <2> QED BY <2>2, <2>3, <2>4 DEF Search
<1>6. RefusedIsIllFormed'
  <2> SUFFICES ASSUME phase' = "refused" PROVE ~WellFormed
    BY <1>1, <1>2 DEF RefusedIsIllFormed, WellFormed, Acyclic
  <2>1. CASE Ids = {}
    BY <2>1 DEF WellFormed
  <2>2. CASE \E i \in Ids : ~StepAccepted(steps[i])
    BY <2>2, NotAcceptedIsIllFormed DEF BuilderInv, TypeOK
  <2> QED BY <1>1, <2>1, <2>2
<1> QED
  BY <1>1, <1>3, <1>4, <1>5, <1>6 DEF BuilderInv, BuiltIsWellFormed

(***************************************************************************)
(* The search.                                                             *)
(***************************************************************************)
\* Entering a white step extends the path of grey ones.
LEMMA EnterKeepsSearch ==
    ASSUME BuilderInv, phase = "visiting", NEW i \in Ids, color[i] = "white", Enter(i),
           stack = <<>> \/ i \in steps[Top].deps, UNCHANGED <<steps, order>>
    PROVE  /\ color' \in [ID -> {"white", "grey", "black"}] /\ stack' \in Seq(ID)
           /\ StackIsPath'
           /\ BlackIsDone'
           /\ \A j \in ID : color[j] # "white" \/ j = i => color'[j] # "white"
<1>1. /\ stack \in Seq(ID) /\ color \in [ID -> {"white", "grey", "black"}]
      /\ Ids \subseteq ID /\ i \in ID
      /\ StackIsPath /\ BlackIsDone
  BY DEF BuilderInv, TypeOK, Search
<1>2. color' = [color EXCEPT ![i] = "grey"] /\ stack' = Append(stack, i) /\ Ids' = Ids
  BY DEF Enter, Ids
<1>3. /\ stack' \in Seq(ID) /\ Len(stack') = Len(stack) + 1
      /\ DOMAIN stack' = 1..(Len(stack) + 1) /\ DOMAIN stack = 1..Len(stack)
      /\ \A n \in DOMAIN stack : stack'[n] = stack[n]
      /\ stack'[Len(stack) + 1] = i
  BY <1>1, <1>2
<1>4. \A n \in DOMAIN stack : stack[n] # i
  BY <1>1 DEF StackIsPath
<1>5. StackIsPath'
  <2>1. \A n \in DOMAIN stack' : stack'[n] \in Ids' /\ color'[stack'[n]] = "grey"
    <3> SUFFICES ASSUME NEW n \in DOMAIN stack'
                 PROVE  stack'[n] \in Ids /\ color'[stack'[n]] = "grey"
      BY <1>2
    <3>1. CASE n \in DOMAIN stack
      BY <3>1, <1>1, <1>2, <1>3, <1>4 DEF StackIsPath
    <3>2. CASE n = Len(stack) + 1
      BY <3>2, <1>1, <1>2, <1>3
    <3> QED BY <1>1, <1>3, <3>1, <3>2
  <2>2. \A j \in ID : color'[j] = "grey" => \E n \in DOMAIN stack' : stack'[n] = j
    <3> SUFFICES ASSUME NEW j \in ID, color'[j] = "grey"
                 PROVE  \E n \in DOMAIN stack' : stack'[n] = j
      OBVIOUS
    <3>1. CASE j = i
      <4>1. Len(stack) + 1 \in DOMAIN stack' /\ stack'[Len(stack) + 1] = j
        BY <3>1, <1>1, <1>3
      <4> QED BY <4>1
    <3>2. CASE j # i
      <4>1. color[j] = "grey"
        BY <3>2, <1>1, <1>2
      <4>2. PICK n \in DOMAIN stack : stack[n] = j
        BY <4>1, <1>1 DEF StackIsPath
      <4>3. n \in DOMAIN stack' /\ stack'[n] = j
        BY <4>2, <1>1, <1>3
      <4> QED BY <4>3
    <3> QED BY <3>1, <3>2
  <2>3. \A m, n \in DOMAIN stack' : stack'[m] = stack'[n] => m = n
    <3> SUFFICES ASSUME NEW m \in DOMAIN stack', NEW n \in DOMAIN stack', stack'[m] = stack'[n]
                 PROVE  m = n
      OBVIOUS
    <3>1. CASE m \in DOMAIN stack /\ n \in DOMAIN stack
      BY <3>1, <1>1, <1>3 DEF StackIsPath
    <3>2. CASE m = Len(stack) + 1 \/ n = Len(stack) + 1
      BY <3>2, <1>1, <1>3, <1>4
    <3> QED BY <1>1, <1>3, <3>1, <3>2
  <2>4. \A n \in DOMAIN stack' : n + 1 \in DOMAIN stack' => stack'[n + 1] \in steps'[stack'[n]].deps
    <3> SUFFICES ASSUME NEW n \in DOMAIN stack', n + 1 \in DOMAIN stack'
                 PROVE  stack'[n + 1] \in steps[stack'[n]].deps
      OBVIOUS
    <3>1. CASE n + 1 \in DOMAIN stack
      BY <3>1, <1>1, <1>3 DEF StackIsPath
    <3>2. CASE n = Len(stack)
      <4>1. n \in DOMAIN stack /\ stack # <<>>
        BY <3>2, <1>1, <1>3
      <4>2. stack'[n] = Top
        BY <3>2, <4>1, <1>3 DEF Top
      <4> QED BY <3>2, <4>1, <4>2, <1>3
    <3> QED BY <1>1, <1>3, <3>1, <3>2
  <2> QED BY <2>1, <2>2, <2>3, <2>4 DEF StackIsPath
<1>6. BlackIsDone'
  <2>1. Black' = Black
    BY <1>1, <1>2 DEF Black
  <2> QED BY <1>1, <1>2, <2>1 DEF BlackIsDone
<1>7. color' \in [ID -> {"white", "grey", "black"}]
  BY <1>1, <1>2
<1> QED BY <1>1, <1>2, <1>3, <1>5, <1>6, <1>7

\* What a step of the search leaves alone, unless it ends it.
LEMMA SearchStep ==
    ASSUME BuilderInv, phase = "visiting", phase' = "visiting", UNCHANGED <<steps, order>>,
           cursor' \in 0..Len(order), stack' \in Seq(ID),
           color' \in [ID -> {"white", "grey", "black"}], Search'
    PROVE  BuilderInv'
<1>1. Ids' = Ids
  BY DEF Ids
<1>2. TypeOK' /\ OrderListsSteps' /\ Normalized' /\ Checked'
  BY <1>1 DEF BuilderInv, TypeOK, OrderListsSteps, Normalized, Checked, StepAccepted, Phase
<1> QED BY <1>2 DEF BuilderInv, BuiltIsWellFormed, RefusedIsIllFormed

LEMMA VisitNextInv ==
    ASSUME BuilderInv, VisitNext
    PROVE  BuilderInv'
<1>1. /\ phase = "visiting" /\ phase' = "visiting" /\ UNCHANGED <<steps, order>>
      /\ stack = <<>> /\ cursor < Len(order) /\ cursor' = cursor + 1
  BY DEF VisitNext, CursorAfter
<1>2. /\ order \in Seq(ID) /\ cursor \in Nat /\ cursor' \in 0..Len(order)
      /\ cursor + 1 \in DOMAIN order /\ order[cursor + 1] \in Ids /\ Ids \subseteq ID
  BY <1>1 DEF BuilderInv, TypeOK, OrderListsSteps
<1>3. \A n \in 1..cursor : n \in DOMAIN order /\ order[n] \in ID /\ color[order[n]] # "white"
  BY <1>1, <1>2 DEF BuilderInv, Search, CursorPassed
<1>4. \A n \in 1..cursor' : n \in 1..cursor \/ n = cursor + 1
  BY <1>1, <1>2
<1>5. CASE color[order[cursor + 1]] = "white"
  <2> DEFINE i == order[cursor + 1]
  <2>1. Enter(i)
    BY <1>5 DEF VisitNext
  <2>2. /\ color' \in [ID -> {"white", "grey", "black"}] /\ stack' \in Seq(ID)
        /\ StackIsPath' /\ BlackIsDone'
        /\ \A j \in ID : color[j] # "white" \/ j = i => color'[j] # "white"
    BY <1>1, <1>2, <1>5, <2>1, EnterKeepsSearch
  <2>3. CursorPassed'
    <3> SUFFICES ASSUME NEW n \in 1..cursor' PROVE color'[order[n]] # "white"
      BY <1>1 DEF CursorPassed
    <3> QED BY <1>2, <1>3, <1>4, <2>2
  <2>4. Search'
    BY <2>2, <2>3 DEF Search
  <2> QED BY <1>1, <1>2, <2>2, <2>4, SearchStep
<1>6. CASE color[order[cursor + 1]] # "white"
  <2>1. UNCHANGED <<color, stack>> /\ Ids' = Ids /\ Black' = Black
    BY <1>1, <1>6 DEF VisitNext, Ids, Black
  <2>2. CursorPassed'
    <3> SUFFICES ASSUME NEW n \in 1..cursor' PROVE color[order[n]] # "white"
      BY <1>1, <2>1 DEF CursorPassed
    <3> QED BY <1>3, <1>4, <1>6
  <2>3. StackIsPath' /\ BlackIsDone'
    BY <1>1, <2>1 DEF BuilderInv, Search, StackIsPath, BlackIsDone
  <2>4. Search' /\ stack' \in Seq(ID) /\ color' \in [ID -> {"white", "grey", "black"}]
    BY <2>1, <2>2, <2>3 DEF Search, BuilderInv, TypeOK
  <2> QED BY <1>1, <1>2, <2>4, SearchStep
<1> QED BY <1>5, <1>6

\* The path from a grey step to the top, closed by a dependency of the top on
\* it, is a cycle.
LEMMA GreyDependencyClosesCycle ==
    ASSUME TypeOK, StackIsPath, stack # <<>>, NEW i \in ID, color[i] = "grey",
           i \in steps[Top].deps
    PROVE  ~Acyclic
<1>1. stack \in Seq(ID) /\ DOMAIN stack = 1..Len(stack) /\ Len(stack) \in Nat
  BY DEF TypeOK
<1>2. PICK k \in DOMAIN stack : stack[k] = i
  BY DEF StackIsPath
<1> DEFINE S == {stack[n] : n \in k..Len(stack)}
<1>3. S \in SUBSET Ids
  BY <1>1, <1>2 DEF StackIsPath
<1>4. i \in S
  BY <1>1, <1>2
<1>5. \A j \in S : steps[j].deps \cap S # {}
  <2> SUFFICES ASSUME NEW n \in k..Len(stack) PROVE steps[stack[n]].deps \cap S # {}
    OBVIOUS
  <2>1. CASE n = Len(stack)
    <3>1. stack[n] = Top
      BY <2>1 DEF Top
    <3> QED BY <3>1, <1>4
  <2>2. CASE n < Len(stack)
    <3>1. n \in DOMAIN stack /\ n + 1 \in DOMAIN stack /\ n + 1 \in k..Len(stack)
      BY <1>1, <1>2, <2>2
    <3>2. stack[n + 1] \in steps[stack[n]].deps
      BY <3>1 DEF StackIsPath
    <3>3. stack[n + 1] \in S
      BY <3>1
    <3> QED BY <3>2, <3>3
  <2>3. k \in Nat /\ Len(stack) \in Nat
    BY <1>1, <1>2
  <2> HIDE DEF S
  <2>4. n = Len(stack) \/ n < Len(stack)
    BY <2>3
  <2> QED BY <2>1, <2>2, <2>4
<1> HIDE DEF S
<1> QED BY <1>3, <1>4, <1>5 DEF Acyclic

LEMMA VisitDependencyInv ==
    ASSUME BuilderInv, NEW i \in ID, VisitDependency(i)
    PROVE  BuilderInv'
<1>1. /\ phase = "visiting" /\ stack # <<>> /\ i \in steps[Top].deps /\ color[i] # "black"
      /\ UNCHANGED <<steps, order, cursor>>
  BY DEF VisitDependency, Visited
<1>2. /\ stack \in Seq(ID) /\ StackIsPath /\ BlackIsDone /\ CursorPassed
      /\ color \in [ID -> {"white", "grey", "black"}]
  BY <1>1 DEF BuilderInv, Search, TypeOK
<1>3. Top \in Ids
  BY <1>1, <1>2, TopType DEF StackIsPath, Top
<1>4. i \in Ids
  BY <1>1, <1>3 DEF BuilderInv, Checked, StepAccepted
<1>5. CASE color[i] = "grey"
  <2>1. phase' = "refused" /\ UNCHANGED <<color, stack>> /\ Ids' = Ids
    BY <1>1, <1>5 DEF VisitDependency, Ids
  <2>2. ~Acyclic
    BY <1>1, <1>2, <1>5, GreyDependencyClosesCycle DEF BuilderInv
  <2>3. RefusedIsIllFormed'
    BY <1>1, <2>1, <2>2 DEF RefusedIsIllFormed, WellFormed, Acyclic
  <2>4. TypeOK' /\ OrderListsSteps' /\ Normalized'
    BY <1>1, <2>1 DEF BuilderInv, TypeOK, OrderListsSteps, Normalized, Phase
  <2> QED BY <2>1, <2>3, <2>4 DEF BuilderInv, Checked, Search, BuiltIsWellFormed
<1>6. CASE color[i] = "white"
  <2>1. Enter(i) /\ phase' = "visiting"
    BY <1>1, <1>6 DEF VisitDependency
  <2>2. /\ color' \in [ID -> {"white", "grey", "black"}] /\ stack' \in Seq(ID)
        /\ StackIsPath' /\ BlackIsDone'
        /\ \A j \in ID : color[j] # "white" \/ j = i => color'[j] # "white"
    BY <1>1, <1>4, <1>6, <2>1, EnterKeepsSearch
  <2>3. CursorPassed'
    <3> SUFFICES ASSUME NEW n \in 1..cursor PROVE color'[order[n]] # "white"
      BY <1>1 DEF CursorPassed
    <3>1. order[n] \in ID
      BY DEF BuilderInv, TypeOK
    <3> QED BY <1>2, <2>2, <3>1 DEF CursorPassed
  <2>4. Search'
    BY <2>2, <2>3 DEF Search
  <2>5. cursor' \in 0..Len(order)
    BY <1>1 DEF BuilderInv, TypeOK
  <2> QED BY <1>1, <2>1, <2>2, <2>4, <2>5, SearchStep
<1> QED BY <1>1, <1>2, <1>5, <1>6

\* A step whose dependencies are black turns black: no cycle can go through it.
LEMMA LeaveKeepsBlackDone ==
    ASSUME TypeOK, BlackIsDone, NEW top \in Ids, top \notin Black, steps[top].deps \subseteq Black,
           UNCHANGED steps, Black' = Black \cup {top}
    PROVE  BlackIsDone'
<1>1. Ids' = Ids
  BY DEF Ids
<1>2. \A i \in Black' : i \in Ids' /\ steps'[i].deps \subseteq Black'
  BY <1>1 DEF BlackIsDone
<1>3. ASSUME NEW S \in SUBSET Black', S # {}
      PROVE  \E i \in S : steps[i].deps \cap S = {}
  <2>1. CASE S \cap Black = {}
    <3>1. S = {top}
      BY <1>3, <2>1
    <3> QED BY <2>1, <3>1
  <2>2. CASE S \cap Black # {}
    <3>1. PICK i \in S \cap Black : steps[i].deps \cap (S \cap Black) = {}
      BY <2>2 DEF BlackIsDone
    <3>2. steps[i].deps \subseteq Black
      BY DEF BlackIsDone
    <3> QED BY <3>1, <3>2
  <2> QED BY <2>1, <2>2
<1> QED BY <1>2, <1>3 DEF BlackIsDone

LEMMA LeaveInv ==
    ASSUME BuilderInv, Leave
    PROVE  BuilderInv'
<1>1. /\ phase = "visiting" /\ phase' = "visiting" /\ stack # <<>>
      /\ UNCHANGED <<steps, order, cursor>>
      /\ color' = [color EXCEPT ![Top] = "black"]
      /\ stack' = SubSeq(stack, 1, Len(stack) - 1)
      /\ \A j \in steps[Top].deps : color[j] = "black"
  BY DEF Leave, AfterVisit, Visited
<1>2. /\ stack \in Seq(ID) /\ StackIsPath /\ BlackIsDone /\ CursorPassed
      /\ color \in [ID -> {"white", "grey", "black"}] /\ order \in Seq(ID)
      /\ cursor \in 0..Len(order)
  BY <1>1 DEF BuilderInv, Search, TypeOK
<1>3. /\ Len(stack) \in DOMAIN stack /\ Top \in Ids /\ Top \in ID /\ color[Top] = "grey"
      /\ Top = stack[Len(stack)]
  BY <1>1, <1>2, TopType DEF StackIsPath, Top
<1>4. /\ stack' \in Seq(ID) /\ DOMAIN stack' = 1..(Len(stack) - 1)
      /\ DOMAIN stack = 1..Len(stack) /\ Len(stack) \in Nat \ {0}
      /\ \A n \in 1..(Len(stack) - 1) : stack'[n] = stack[n]
  BY <1>1, <1>2, <1>3
<1>5. Ids' = Ids
  BY <1>1 DEF Ids
<1> HIDE DEF Top
<1>6. StackIsPath'
  <2>1. \A n \in DOMAIN stack' : stack[n] # Top
    BY <1>2, <1>3, <1>4 DEF StackIsPath
  <2>2. \A n \in DOMAIN stack' : stack'[n] \in Ids' /\ color'[stack'[n]] = "grey"
    <3> SUFFICES ASSUME NEW n \in DOMAIN stack' PROVE stack[n] \in Ids /\ color'[stack[n]] = "grey"
      BY <1>4, <1>5
    <3> QED BY <1>1, <1>2, <1>4, <2>1 DEF StackIsPath
  <2>3. \A j \in ID : color'[j] = "grey" => \E n \in DOMAIN stack' : stack'[n] = j
    <3> SUFFICES ASSUME NEW j \in ID, color'[j] = "grey"
                 PROVE  \E n \in DOMAIN stack' : stack'[n] = j
      OBVIOUS
    <3>1. j # Top /\ color[j] = "grey"
      BY <1>1, <1>2, <1>3
    <3>2. PICK n \in DOMAIN stack : stack[n] = j
      BY <1>2, <3>1 DEF StackIsPath
    <3>3. n \in DOMAIN stack' /\ stack'[n] = j
      BY <1>3, <1>4, <3>1, <3>2
    <3> QED BY <3>3
  <2>4. \A m, n \in DOMAIN stack' : stack'[m] = stack'[n] => m = n
    BY <1>2, <1>4 DEF StackIsPath
  <2>5. \A n \in DOMAIN stack' : n + 1 \in DOMAIN stack' => stack'[n + 1] \in steps'[stack'[n]].deps
    BY <1>1, <1>2, <1>4 DEF StackIsPath
  <2> QED BY <2>2, <2>3, <2>4, <2>5 DEF StackIsPath
<1>7. BlackIsDone'
  <2>1. Black' = Black \cup {Top}
    BY <1>1, <1>2, <1>3 DEF Black
  <2>2. Top \notin Black
    BY <1>3 DEF Black
  <2>3. steps[Top].deps \subseteq Black
    BY <1>1, <1>3 DEF Black, BuilderInv, TypeOK
  <2> QED BY <1>1, <1>2, <1>3, <2>1, <2>2, <2>3, LeaveKeepsBlackDone DEF BuilderInv
<1>8. CursorPassed'
  <2> SUFFICES ASSUME NEW n \in 1..cursor PROVE color'[order[n]] # "white"
    BY <1>1 DEF CursorPassed
  <2>1. order[n] \in ID /\ color[order[n]] # "white"
    BY <1>2 DEF CursorPassed
  <2> QED BY <1>1, <1>2, <1>3, <2>1
<1>9. Search' /\ color' \in [ID -> {"white", "grey", "black"}]
  BY <1>1, <1>2, <1>6, <1>7, <1>8 DEF Search
<1> QED BY <1>1, <1>2, <1>4, <1>9, SearchStep

LEMMA AcceptInv ==
    ASSUME BuilderInv, Accept
    PROVE  BuilderInv'
<1>1. /\ phase = "visiting" /\ phase' = "built" /\ stack = <<>> /\ cursor = Len(order)
      /\ UNCHANGED <<steps, order, cursor, color, stack>>
  BY DEF Accept
<1>2. Ids' = Ids
  BY <1>1 DEF Ids
<1>3. TypeOK' /\ OrderListsSteps' /\ Normalized' /\ Checked'
  BY <1>1, <1>2 DEF BuilderInv, TypeOK, OrderListsSteps, Normalized, Checked, StepAccepted, Phase
<1>4. Ids \subseteq Black
  <2> SUFFICES ASSUME NEW i \in Ids PROVE color[i] = "black"
    BY DEF Black, BuilderInv, TypeOK
  <2>1. PICK n \in DOMAIN order : order[n] = i
    BY DEF BuilderInv, OrderListsSteps
  <2>2. n \in 1..cursor /\ i \in ID
    BY <1>1, <2>1 DEF BuilderInv, TypeOK
  <2>3. color[i] # "white"
    BY <1>1, <2>1, <2>2 DEF BuilderInv, Search, CursorPassed
  <2>4. color[i] # "grey"
    BY <1>1, <2>2 DEF BuilderInv, Search, StackIsPath
  <2> QED BY <2>2, <2>3, <2>4 DEF BuilderInv, TypeOK
<1>5. Acyclic
  BY <1>1, <1>4 DEF Acyclic, BuilderInv, Search, BlackIsDone
<1>6. WellFormed
  BY <1>1, <1>5 DEF WellFormed, BuilderInv, Checked, StepAccepted
<1>7. BuiltIsWellFormed'
  <2>1. WellFormed'
    BY <1>1, <1>2, <1>6 DEF WellFormed, Acyclic
  <2> QED BY <1>3, <2>1 DEF BuiltIsWellFormed, Normalized, UsablePolicy
<1> QED BY <1>1, <1>3, <1>7 DEF BuilderInv, Search, RefusedIsIllFormed

-----------------------------------------------------------------------------
(***************************************************************************)
(* Every caller's history of puts and builds keeps the invariant.          *)
(***************************************************************************)
THEOREM BuilderInvariant == Spec => []BuilderInv
<1>1. BuilderInv /\ [Next]_vars => BuilderInv'
  <2> SUFFICES ASSUME BuilderInv, [Next]_vars PROVE BuilderInv'
    OBVIOUS
  <2>1. CASE \E s \in Input : Put(s)
    BY <2>1, PutInv
  <2>2. CASE Build
    BY <2>2, BuildInv
  <2>3. CASE VisitNext
    BY <2>3, VisitNextInv
  <2>4. CASE \E i \in ID : VisitDependency(i)
    BY <2>4, VisitDependencyInv
  <2>5. CASE Leave
    BY <2>5, LeaveInv
  <2>6. CASE Accept
    BY <2>6, AcceptInv
  <2>7. CASE UNCHANGED vars
    <3>1. Ids' = Ids /\ Black' = Black
      BY <2>7 DEF vars, Ids, Black
    <3>2. TypeOK' /\ OrderListsSteps' /\ Normalized' /\ Checked'
      BY <2>7, <3>1 DEF vars, BuilderInv, TypeOK, OrderListsSteps, Normalized, Checked,
                        StepAccepted
    <3>3. Search'
      BY <2>7, <3>1 DEF vars, BuilderInv, Search, StackIsPath, BlackIsDone, CursorPassed
    <3>4. BuiltIsWellFormed' /\ RefusedIsIllFormed'
      BY <2>7, <3>1 DEF vars, BuilderInv, BuiltIsWellFormed, RefusedIsIllFormed, WellFormed,
                        Acyclic
    <3> QED BY <3>2, <3>3, <3>4 DEF BuilderInv
  <2> QED BY <2>1, <2>2, <2>3, <2>4, <2>5, <2>6, <2>7 DEF Next
<1> QED BY <1>1, InitInv, PTL DEF Spec

(***************************************************************************)
(* The builder's variables keep their types.                               *)
(***************************************************************************)
THEOREM BuilderTypeCorrect == Spec => []TypeOK
BY BuilderInvariant, PTL DEF BuilderInv

(***************************************************************************)
(* The order lists every step once, in whatever way steps are put.         *)
(***************************************************************************)
THEOREM OrderIsComplete == Spec => []OrderListsSteps
BY BuilderInvariant, PTL DEF BuilderInv

(***************************************************************************)
(* What Build accepts is what the engine's proofs assume of a workflow.    *)
(***************************************************************************)
THEOREM BuildIsSound == Spec => []BuiltIsWellFormed
BY BuilderInvariant, PTL DEF BuilderInv

(***************************************************************************)
(* The retries of every built step wait longer and longer, up to the       *)
(* maximum of its policy, whatever policy it was put with.                 *)
(***************************************************************************)
THEOREM RetriesWaitLonger == Spec => []RetriesSlowDown
<1>1. BuilderInv => RetriesSlowDown
  <2> SUFFICES ASSUME BuilderInv, NEW i \in Ids, steps[i].retry.initial <= DefaultMax,
                      NEW n \in 1..steps[i].retry.attempts
               PROVE  LET p == steps[i].retry
                      IN  /\ BackoffForAttempt(p, n) <= p.max
                          /\ BackoffForAttempt(p, n) <= BackoffForAttempt(p, n + 1)
                          /\ BackoffForAttempt(p, n + 1)
                                 \in {2 * BackoffForAttempt(p, n), p.max}
    BY DEF RetriesSlowDown
  <2>1. steps[i].retry \in Policy /\ UsablePolicy(steps[i].retry) /\ n \in Nat \ {0}
    BY DEF BuilderInv, TypeOK, Normalized, Policy
  <2> QED BY <2>1, DelaysGrow
<1> QED BY <1>1, BuilderInvariant, PTL

(***************************************************************************)
(* What Build refuses no engine could run.                                 *)
(***************************************************************************)
THEOREM BuildIsComplete == Spec => []RefusedIsIllFormed
BY BuilderInvariant, PTL DEF BuilderInv
=============================================================================
