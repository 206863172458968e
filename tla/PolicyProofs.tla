----------------------------- MODULE PolicyProofs -----------------------------
(***************************************************************************)
(* What the policy and the validation of plans guarantee for any snapshot  *)
(* of tiers, any plan and any configuration: a summary never leaves the    *)
(* machine, data is approved, moved or escalated only to a tier that       *)
(* admits it, what is asked before a call agrees with what was asked of    *)
(* the plan, a grant stays within what the caller declared; the search for *)
(* a cycle misses none and names only cycles, and a document nothing is    *)
(* wrong with gives a plan of which some step is always ready.  The last   *)
(* part says what the operators return: gates, verdicts, amounts,          *)
(* declarations and grants of their types, and sums of what was booked     *)
(* that are amounts again.                                                 *)
(***************************************************************************)
EXTENDS Budgets, Deviations, Egress, PlanDocument, RuntimeSettings,
        FiniteSetTheorems, SequenceTheorems, WellFoundedInduction, TLAPS

(* Every nonempty set of natural numbers has a least element. *)
LEMMA Least ==
  ASSUME NEW T, T \subseteq Nat, T # {}
  PROVE  \E x \in T : \A y \in T : x <= y
<1>. DEFINE R == StrictSubsetOrdering(Nat)
            Upto == {0 .. n : n \in T}
<1>1. Upto \subseteq FiniteSubsetsOf(Nat) /\ Upto # {}
  <2>1. \A n \in T : 0 .. n \subseteq Nat /\ IsFiniteSet(0 .. n)
    BY FS_Interval
  <2>. QED  BY <2>1 DEF FiniteSubsetsOf
<1>2. PICK S \in Upto : \A U \in Upto : ~ (<<U, S>> \in R)
  <2>1. IsWellFoundedOn(R, FiniteSubsetsOf(Nat))
    BY FS_StrictSubsetOrderingWellFounded
  <2>. HIDE DEF Upto, R
  <2>. QED  BY <1>1, <2>1, WFMin
<1>3. PICK x \in T : S = 0 .. x
  OBVIOUS
<1>4. ASSUME NEW y \in T, y < x PROVE FALSE
  <2>1. 0 .. y \subseteq 0 .. x /\ x \in 0 .. x /\ x \notin 0 .. y
    BY <1>4
  <2>2. <<0 .. y, 0 .. x>> \in R
    BY <2>1 DEF StrictSubsetOrdering
  <2>. QED  BY <1>2, <1>3, <2>2
<1>. QED  BY <1>4

(* A compaction's summaries go to a local tier, which admits all data: what
   _summarize sends is never egress, whatever the tiers are. *)
THEOREM SummariesStayLocal ==
  ASSUME NEW class
  PROVE  SummarizingTier(class) # NoTier => SummarizingTier(class) \in Tier \ Remote
<1>. DEFINE local == {t \in Tier \ Remote : Admits(t, class)}
            sizes == {Context[t] : t \in local}
<1>. SUFFICES ASSUME local # {} PROVE SummarizingTier(class) \in Tier \ Remote
  BY DEF SummarizingTier
<1>1. sizes \subseteq Nat /\ sizes # {}
  BY TiersAssumption
<1>2. PICK n \in sizes : \A m \in sizes : n <= m
  <2>. HIDE DEF sizes
  <2>. QED  BY <1>1, Least
<1>3. \E t \in local : \A u \in local : Context[t] <= Context[u]
  BY <1>2
<1>. QED  BY <1>3 DEF SummarizingTier

LEMMA FirstIsLeast ==
  ASSUME NEW places, places \subseteq Nat, places # {}
  PROVE  First(places) \in places
<1>1. \E k \in places : \A j \in places : k <= j
  BY Least
<1>. QED  BY <1>1 DEF First

LEMMA AdmittingAdmits ==
  ASSUME NEW class, NEW i \in Nat, AtFirst(Admitting(class, i)) # NoTier
  PROVE  AtFirst(Admitting(class, i)) \in Tier /\ Admits(AtFirst(Admitting(class, i)), class)
<1>. DEFINE places == Admitting(class, i)
<1>1. places \subseteq Nat /\ places # {}
  BY TiersAssumption DEF Admitting, AtFirst
<1>2. First(places) \in places
  <2>. HIDE DEF places
  <2>. QED  BY <1>1, FirstIsLeast
<1>. QED  BY <1>1, <1>2, TiersAssumption DEF Admitting, AtFirst

(* A substitution and an escalation name a tier of the escalation order that
   admits the data, or none: neither moves data where it may not be. *)
THEOREM MovesAreAdmitted ==
  ASSUME NEW class, NEW t
  PROVE  /\ Substitute(class) # NoTier => Substitute(class) \in Tier /\ Admits(Substitute(class), class)
         /\ NextEscalation(t, class) # NoTier =>
              NextEscalation(t, class) \in Tier /\ Admits(NextEscalation(t, class), class)
<1>1. Substitute(class) # NoTier => Substitute(class) \in Tier /\ Admits(Substitute(class), class)
  BY AdmittingAdmits DEF Substitute
<1>. DEFINE own == {k \in DOMAIN Order : Order[k] = t}
<1>2. CASE own = {}
  BY <1>1, <1>2 DEF NextEscalation
<1>3. CASE own # {}
  <2>1. First(own) \in Nat
    <3>1. own \subseteq Nat
      BY TiersAssumption
    <3>. HIDE DEF own
    <3>. QED  BY <1>3, <3>1, FirstIsLeast
  <2>2. NextEscalation(t, class) = AtFirst(Admitting(class, First(own)))
    BY <1>3 DEF NextEscalation
  <2>. HIDE DEF own
  <2>. QED  BY <1>1, <2>1, <2>2, AdmittingAdmits
<1>. QED  BY <1>2, <1>3

(* evaluate_step: a step that is not rejected runs on a tier that admits its
   data, that the deployment offers and, off the machine, that names a pricing
   file; and it goes to a person exactly when the mode or its gate says so. *)
THEOREM VerdictsAdmit ==
  ASSUME NEW step, NEW estimate, NEW policy, NEW provider,
         StepVerdict(step, estimate, policy, provider).outcome # "rejected"
  PROVE  LET verdict == StepVerdict(step, estimate, policy, provider)
         IN /\ verdict.tier \in Tier /\ Admits(verdict.tier, step.class)
            /\ Available(verdict.tier, provider)
            /\ verdict.tier \in Remote => verdict.tier \in PricingSource
            /\ verdict.human = RequiresHuman(Gate(<<verdict.tier>>, step.class, estimate, policy), policy.mode)
<1>. DEFINE tier == Resolved(step)
<1>1. /\ step.tier \in Tier /\ tier # NoTier
      /\ tier \notin Remote \ PricingSource /\ Available(tier, provider)
  BY DEF StepVerdict, Rejected
<1>2. tier \in Tier /\ Admits(tier, step.class)
  BY <1>1, MovesAreAdmitted DEF Resolved
<1>3. /\ StepVerdict(step, estimate, policy, provider).tier = tier
      /\ StepVerdict(step, estimate, policy, provider).human =
           RequiresHuman(Gate(<<tier>>, step.class, estimate, policy), policy.mode)
  BY <1>1 DEF StepVerdict
<1>. QED  BY <1>1, <1>2, <1>3

(* The egress check before a call (domain/egress.py) and the ceiling the plan
   was judged by (domain/tiers.py) are two pieces of code, and agree. *)
THEOREM EgressAgreesWithTiers ==
  ASSUME NEW t \in Tier, NEW class \in Class
  PROVE  Approves(class, TierTarget(t)) <=> Admits(t, class)
  BY TiersAssumption
     DEF Approves, TierTarget, Admits, EffectiveMax, Evaluate, RemoteTarget, NotLeavingTarget,
         NoCeiling, LocalCeiling, Class

(* _widen: what a person can grant, of what a deviation asks, never exceeds what
   the caller declared, in tools or in the class of the data. *)
THEOREM GrantsStayDeclared ==
  ASSUME NEW ask, NEW declared, NEW previous, NEW by, NEW policy, NEW scope,
         Disposition(ask.category, scope) = "scoped_reapproval", ask.category \in Categories,
         Grantable(ask, declared),
         previous.tools \subseteq declared.tools, previous.class <= declared.class
  PROVE  LET new == Supersede(previous, Widening(ask, previous), by, policy)
         IN new.tools \subseteq declared.tools /\ new.class <= declared.class
<1>. DEFINE changes == Widening(ask, previous)
            new == Supersede(previous, changes, by, policy)
<1>. SUFFICES new.tools \subseteq declared.tools /\ new.class <= declared.class
  OBVIOUS
<1>1. /\ new.tools = IF "tools" \in DOMAIN changes THEN changes["tools"] ELSE previous["tools"]
      /\ new.class = IF "class" \in DOMAIN changes THEN changes["class"] ELSE previous["class"]
  <2>. HIDE DEF changes
  <2>. QED  BY DEF Supersede, Mint, Changeable
<1>2. /\ "tools" \in DOMAIN changes => changes["tools"] \subseteq declared.tools
      /\ "class" \in DOMAIN changes => changes["class"] <= declared.class
  <2>1. CASE ask.category = "undeclared_tool"
    BY <2>1 DEF Widening, Grantable
  <2>2. CASE ask.category = "tier_escalation"
    BY <2>2 DEF Widening
  <2>3. CASE ask.category = "turn_overrun"
    BY <2>3 DEF Widening
  <2>4. CASE ask.category = "budget_overrun"
    BY <2>4 DEF Widening
  <2>5. CASE ask.category = "classification_exceeded"
    BY <2>5 DEF Widening, Grantable
  <2>6. ask.category \notin {"tier_violation", "outside_tool"}
    BY DEF Disposition
  <2>. QED  BY <2>1, <2>2, <2>3, <2>4, <2>5, <2>6 DEF Categories
<1>. HIDE DEF changes, new
<1>. QED  BY <1>1, <1>2

(* ------------------ the search for a cycle, one step ------------------ *)

(* Induction over the natural numbers, for a set of them. *)
LEMMA Reaches ==
  ASSUME NEW A, 0 \in A, \A n \in Nat : n \in A => n + 1 \in A
  PROVE  Nat \subseteq A
<1>. DEFINE missed == Nat \ A
<1>1. SUFFICES ASSUME missed # {} PROVE FALSE
  OBVIOUS
<1>2. PICK n \in missed : \A m \in missed : n <= m
  <2>. HIDE DEF missed
  <2>1. missed \subseteq Nat
    BY DEF missed
  <2>. QED  BY <1>1, <2>1, Least
<1>3. n \in Nat /\ n # 0
  BY <1>2
<1>4. n - 1 \in Nat /\ n - 1 \in A
  BY <1>2, <1>3
<1>5. (n - 1) + 1 \in A
  BY <1>4
<1>. QED  BY <1>2, <1>3, <1>5

(* A walk looks at one dependency after the other. *)
LEMMA LooksInTurn ==
  ASSUME NEW walk, NEW at, NEW N, NEW list \in Seq(N)
  PROVE  \E h : /\ h[0] = at
                /\ \A i \in 1 .. Len(list) : h[i] = Look(walk, h[i - 1], list[i])
                /\ Looked(walk, at, list) = h[Len(list)]
<1>. DEFINE Turn(f, i) == IF i = 0 THEN at ELSE Look(walk, f[i - 1], list[i])
            A == {n \in Nat : \E f : f = [i \in 0 .. n |-> Turn(f, i)]}
<1>1. Len(list) \in Nat
  BY LenProperties
<1>2. 0 \in A
  <2>. DEFINE f == [i \in 0 .. 0 |-> at]
  <2>1. f = [i \in 0 .. 0 |-> Turn(f, i)]
    OBVIOUS
  <2>. HIDE DEF Turn, f
  <2>. QED  BY <2>1
<1>3. ASSUME NEW n \in Nat, n \in A  PROVE n + 1 \in A
  <2>1. PICK f : f = [i \in 0 .. n |-> Turn(f, i)]
    BY <1>3
  <2>. DEFINE g == [i \in 0 .. n + 1 |-> Turn(f, i)]
  <2>2. \A i \in 0 .. n : g[i] = f[i]
    <3>. HIDE DEF Turn
    <3>. QED  BY <2>1
  <2>3. \A i \in 0 .. n + 1 : Turn(f, i) = Turn(g, i)
    <3>. TAKE i \in 0 .. n + 1
    <3>1. CASE i = 0
      BY <3>1
    <3>2. CASE i # 0
      <4>1. i - 1 \in 0 .. n
        BY <3>2
      <4>2. f[i - 1] = g[i - 1]
        <5>. HIDE DEF g
        <5>. QED  BY <2>2, <4>1
      <4>. HIDE DEF g
      <4>. QED  BY <4>2
    <3>. QED  BY <3>1, <3>2
  <2>4. g = [i \in 0 .. n + 1 |-> Turn(g, i)]
    <3>. HIDE DEF Turn
    <3>. QED  BY <2>3
  <2>. HIDE DEF Turn, g
  <2>. QED  BY <2>4
<1>4. \E f : f = [i \in 0 .. Len(list) |-> Turn(f, i)]
  <2>1. Nat \subseteq A
    <3>. HIDE DEF A
    <3>. QED  BY <1>2, <1>3, Reaches
  <2>2. Len(list) \in A
    <3>. HIDE DEF A
    <3>. QED  BY <1>1, <2>1
  <2>. HIDE DEF Turn
  <2>. QED  BY <2>2
<1>. DEFINE h == CHOOSE f : f = [i \in 0 .. Len(list) |-> Turn(f, i)]
<1>5. Looked(walk, at, list) = h[Len(list)]
  BY Zenon DEF Looked
<1>6. h = [i \in 0 .. Len(list) |-> Turn(h, i)]
  <2>. HIDE DEF Turn
  <2>. QED  BY <1>4
<1>. HIDE DEF h
<1>7. h[0] = at /\ \A i \in 1 .. Len(list) : h[i] = Look(walk, h[i - 1], list[i])
  BY <1>1, <1>6
<1>. QED  BY <1>5, <1>7

(* ------------------------------ the search ------------------------------ *)

Open(search) == {n \in DOMAIN search.state : search.state[n] = Unvisited}

(* What is done depends on nothing that is not, and has no cycle: of any of it
   something depends on nothing else of it. *)
Sorted(edges, search) ==
  LET done == {n \in DOMAIN edges : search.state[n] = Done}
  IN /\ \A n \in done : Range(edges[n]) \subseteq done
     /\ \A B \in SUBSET done : B # {} => \E n \in B : Range(edges[n]) \cap B = {}

(* A search that went on and found no cycle, and one that walked to a node. *)
Onward(edges, from, to) ==
  /\ to.stack = from.stack
  /\ \A n \in DOMAIN edges : /\ to.state[n] = Visiting <=> from.state[n] = Visiting
                             /\ from.state[n] = Done => to.state[n] = Done
  /\ Sorted(edges, from) => Sorted(edges, to)
Came(edges, from, node, to) ==
  /\ to \in Searches(DOMAIN edges) /\ Open(to) \subseteq Open(from)
  /\ to.cycle = <<>> => Onward(edges, from, to) /\ to.state[node] = Done

(* The walk does what it should wherever there is less to be visited. *)
WalksWithin(walk, edges, e) ==
  \A next \in DOMAIN edges, s \in Searches(DOMAIN edges) :
    s.state[next] = Unvisited /\ s.cycle = <<>> /\ Open(s) \subseteq Open(e) =>
      Came(edges, s, next, walk[next][s])

LEMMA LookKeeps ==
  ASSUME NEW edges, NEW e \in Searches(DOMAIN edges), NEW walk, WalksWithin(walk, edges, e),
         NEW s \in Searches(DOMAIN edges), NEW next \in DOMAIN edges, Open(s) \subseteq Open(e)
  PROVE  Came(edges, s, next, Look(walk, s, next))
<1>. DEFINE N == DOMAIN edges
            r == Look(walk, s, next)
<1>1. /\ s.state \in [N -> {Unvisited, Visiting, Done}] /\ s.stack \in Seq(N) /\ s.cycle \in Seq(N)
      /\ \A n \in N : s.state[n] = Visiting => n \in Range(s.stack)
  BY DEF Searches
<1>2. CASE s.cycle # <<>>
  BY <1>2 DEF Look, Came
<1>3. CASE s.cycle = <<>> /\ s.state[next] = Unvisited
  <2>1. r = walk[next][s]
    BY <1>3 DEF Look, Unvisited, Visiting
  <2>. QED  BY <1>3, <2>1 DEF WalksWithin
<1>4. CASE s.cycle = <<>> /\ s.state[next] = Visiting
  <2>. DEFINE k == CHOOSE k \in DOMAIN s.stack : s.stack[k] = next
              cycle == SubSeq(s.stack, k, Len(s.stack))
  <2>1. r = [s EXCEPT !.cycle = cycle]
    BY <1>4, Zenon DEF Look, Unvisited, Visiting
  <2>2. k \in DOMAIN s.stack /\ DOMAIN s.stack = 1 .. Len(s.stack) /\ Len(s.stack) \in Nat
    BY <1>1, <1>4 DEF Range
  <2>3. cycle \in Seq(N) /\ Len(cycle) = Len(s.stack) - k + 1
    <3>. HIDE DEF k
    <3>. QED  BY <1>1, <2>2, SubSeqProperties
  <2>4. cycle # <<>>
    <3>. HIDE DEF k, cycle
    <3>. QED  BY <2>2, <2>3
  <2>. HIDE DEF cycle
  <2>5. r.cycle = cycle /\ r.state = s.state /\ r.stack = s.stack
    BY <2>1 DEF Searches
  <2>6. r \in Searches(N)
    BY <1>1, <2>1, <2>3 DEF Searches
  <2>. QED  BY <2>4, <2>5, <2>6 DEF Came, Open
<1>5. CASE s.cycle = <<>> /\ s.state[next] = Done
  <2>1. r = s
    BY <1>5 DEF Look, Unvisited, Visiting, Done
  <2>. QED  BY <1>5, <2>1 DEF Came, Onward
<1>. QED  BY <1>1, <1>2, <1>3, <1>4, <1>5

LEMMA OnwardAgain ==
  ASSUME NEW edges, NEW a, NEW b, NEW c, Onward(edges, a, b), Onward(edges, b, c)
  PROVE  Onward(edges, a, c)
  BY DEF Onward

(* Looking at the dependencies in turn. *)
LEMMA LooksKeep ==
  ASSUME NEW edges, NEW e \in Searches(DOMAIN edges), NEW walk, WalksWithin(walk, edges, e),
         NEW list \in Seq(DOMAIN edges), NEW h, h[0] = e,
         \A i \in 1 .. Len(list) : h[i] = Look(walk, h[i - 1], list[i])
  PROVE  \A i \in 0 .. Len(list) :
           /\ h[i] \in Searches(DOMAIN edges) /\ Open(h[i]) \subseteq Open(e)
           /\ h[i].cycle = <<>> => /\ Onward(edges, e, h[i])
                                   /\ \A j \in 1 .. i : h[i].state[list[j]] = Done
<1>. DEFINE Kept(i) ==
       /\ h[i] \in Searches(DOMAIN edges) /\ Open(h[i]) \subseteq Open(e)
       /\ h[i].cycle = <<>> => /\ Onward(edges, e, h[i])
                               /\ \A j \in 1 .. i : h[i].state[list[j]] = Done
     A == {i \in Nat : i <= Len(list) => Kept(i)}
<1>0. Len(list) \in Nat /\ \A i \in 1 .. Len(list) : list[i] \in DOMAIN edges
  OBVIOUS
<1>1. 0 \in A
  <2>1. Kept(0)
    BY DEF Onward
  <2>. QED  BY <2>1
<1>2. ASSUME NEW n \in Nat, n \in A  PROVE n + 1 \in A
  <2>. SUFFICES ASSUME n + 1 <= Len(list) PROVE Kept(n + 1)
    OBVIOUS
  <2>1. Kept(n) /\ n + 1 \in 1 .. Len(list) /\ (n + 1) - 1 = n
    BY <1>0, <1>2
  <2>. DEFINE next == list[n + 1]
  <2>2. next \in DOMAIN edges /\ h[n + 1] = Look(walk, h[n], next)
    BY <1>0, <2>1
  <2>3. Came(edges, h[n], next, h[n + 1])
    BY <2>1, <2>2, LookKeeps
  <2>4. h[n + 1].cycle = <<>> => h[n].cycle = <<>>
    BY <2>2 DEF Look
  <2>5. ASSUME h[n + 1].cycle = <<>>
        PROVE  /\ Onward(edges, e, h[n + 1])
               /\ \A j \in 1 .. n + 1 : h[n + 1].state[list[j]] = Done
    <3>1. Onward(edges, h[n], h[n + 1]) /\ h[n + 1].state[next] = Done
      BY <2>3, <2>5 DEF Came
    <3>2. Onward(edges, e, h[n]) /\ \A j \in 1 .. n : h[n].state[list[j]] = Done
      BY <2>1, <2>4, <2>5
    <3>3. Onward(edges, e, h[n + 1])
      BY <3>1, <3>2, OnwardAgain
    <3>4. ASSUME NEW j \in 1 .. n + 1 PROVE h[n + 1].state[list[j]] = Done
      <4>1. CASE j = n + 1
        BY <3>1, <4>1
      <4>2. CASE j \in 1 .. n
        <5>1. list[j] \in DOMAIN edges
          BY <1>0, <2>1, <4>2
        <5>. QED  BY <3>1, <3>2, <4>2, <5>1 DEF Onward
      <4>. QED  BY <4>1, <4>2
    <3>. QED  BY <3>3, <3>4
  <2>6. h[n + 1] \in Searches(DOMAIN edges) /\ Open(h[n + 1]) \subseteq Open(e)
    BY <2>1, <2>3 DEF Came
  <2>. QED  BY <2>5, <2>6
<1>3. Nat \subseteq A
  <2>. HIDE DEF A
  <2>. QED  BY <1>1, <1>2, Reaches
<1>. QED
  <2>. TAKE i \in 0 .. Len(list)
  <2>1. i \in Nat /\ i <= Len(list)
    BY <1>0
  <2>2. i \in A
    BY <1>3, <2>1
  <2>. QED  BY <2>1, <2>2

LEMMA LookedKeeps ==
  ASSUME NEW edges, NEW e \in Searches(DOMAIN edges), NEW walk, WalksWithin(walk, edges, e),
         NEW list \in Seq(DOMAIN edges)
  PROVE  LET l == Looked(walk, e, list)
         IN /\ l \in Searches(DOMAIN edges) /\ Open(l) \subseteq Open(e)
            /\ l.cycle = <<>> => /\ Onward(edges, e, l)
                                /\ \A n \in Range(list) : l.state[n] = Done
<1>1. PICK h : /\ h[0] = e
               /\ \A i \in 1 .. Len(list) : h[i] = Look(walk, h[i - 1], list[i])
               /\ Looked(walk, e, list) = h[Len(list)]
  BY LooksInTurn
<1>2. Len(list) \in Nat /\ Len(list) \in 0 .. Len(list) /\ DOMAIN list = 1 .. Len(list)
  BY LenProperties
<1>3. \A i \in 0 .. Len(list) :
           /\ h[i] \in Searches(DOMAIN edges) /\ Open(h[i]) \subseteq Open(e)
           /\ h[i].cycle = <<>> => /\ Onward(edges, e, h[i])
                                   /\ \A j \in 1 .. i : h[i].state[list[j]] = Done
  BY <1>1, LooksKeep
<1>. QED  BY <1>1, <1>2, <1>3 DEF Range

LEMMA Entering ==
  ASSUME NEW edges, NEW at \in Searches(DOMAIN edges), NEW node \in DOMAIN edges
  PROVE  LET e == Enter(at, node)
         IN /\ e \in Searches(DOMAIN edges) /\ e.cycle = at.cycle
            /\ e.stack = Append(at.stack, node) /\ e.state = [at.state EXCEPT ![node] = Visiting]
            /\ Open(e) = Open(at) \ {node}
<1>. DEFINE N == DOMAIN edges
            e == Enter(at, node)
<1>1. /\ at \in [state : [N -> {Unvisited, Visiting, Done}], stack : Seq(N), cycle : Seq(N)]
      /\ \A n \in N : at.state[n] = Visiting => n \in Range(at.stack)
  BY DEF Searches
<1>2. /\ e.cycle = at.cycle /\ e.stack = Append(at.stack, node)
      /\ e.state = [at.state EXCEPT ![node] = Visiting]
      /\ e \in [state : [N -> {Unvisited, Visiting, Done}], stack : Seq(N), cycle : Seq(N)]
  <2>. DEFINE state == [at.state EXCEPT ![node] = Visiting]
              stack == Append(at.stack, node)
  <2>1. state \in [N -> {Unvisited, Visiting, Done}] /\ stack \in Seq(N)
    BY <1>1, AppendProperties
  <2>2. e = [at EXCEPT !.state = state, !.stack = stack]
    BY <1>1 DEF Enter
  <2>3. e.state = state /\ e.stack = stack /\ e.cycle = at.cycle
    <3>. HIDE DEF e, state, stack
    <3>. QED  BY <1>1, <2>2
  <2>4. e \in [state : [N -> {Unvisited, Visiting, Done}], stack : Seq(N), cycle : Seq(N)]
    <3>. HIDE DEF e, state, stack
    <3>. QED  BY <1>1, <2>1, <2>2
  <2>. QED  BY <2>3, <2>4
<1>3. Range(e.stack) = Range(at.stack) \cup {node}
  <2>1. /\ Len(at.stack) \in Nat /\ Len(e.stack) = Len(at.stack) + 1
        /\ DOMAIN at.stack = 1 .. Len(at.stack) /\ DOMAIN e.stack = 1 .. Len(e.stack)
        /\ \A k \in 1 .. Len(at.stack) : e.stack[k] = at.stack[k]
        /\ e.stack[Len(at.stack) + 1] = node
    BY <1>1, <1>2, AppendProperties, LenProperties
  <2>2. \A k \in DOMAIN e.stack : k \in DOMAIN at.stack \/ k = Len(at.stack) + 1
    BY <2>1
  <2>3. \A k \in DOMAIN at.stack : k \in DOMAIN e.stack
    BY <2>1
  <2>4. Len(at.stack) + 1 \in DOMAIN e.stack
    BY <2>1
  <2>. QED  BY <2>1, <2>2, <2>3, <2>4 DEF Range
<1>4. e \in Searches(N)
  <2>1. \A n \in N : e.state[n] = Visiting => n = node \/ at.state[n] = Visiting
    BY <1>1, <1>2
  <2>. QED  BY <1>1, <1>2, <1>3, <2>1 DEF Searches
<1>5. Open(e) = Open(at) \ {node}
  BY <1>1, <1>2 DEF Open, Unvisited, Visiting
<1>. QED  BY <1>2, <1>4, <1>5

(* Leaving a node whose dependencies are all done. *)
LEMMA Leaving1 ==
  ASSUME NEW edges, edges \in [DOMAIN edges -> Seq(DOMAIN edges)],
         NEW at \in Searches(DOMAIN edges), NEW node \in DOMAIN edges,
         at.state[node] = Unvisited, NEW l \in Searches(DOMAIN edges),
         Open(l) \subseteq Open(Enter(at, node)), l.cycle = <<>>,
         Onward(edges, Enter(at, node), l),
         \A n \in Range(edges[node]) : l.state[n] = Done
  PROVE  Came(edges, at, node, Leave(l, node))
<1>. DEFINE N == DOMAIN edges
            e == Enter(at, node)
            r == Leave(l, node)
            done(s) == {n \in N : s.state[n] = Done}
<1>1. /\ at \in [state : [N -> {Unvisited, Visiting, Done}], stack : Seq(N), cycle : Seq(N)]
      /\ l \in [state : [N -> {Unvisited, Visiting, Done}], stack : Seq(N), cycle : Seq(N)]
      /\ \A n \in N : at.state[n] = Visiting => n \in Range(at.stack)
  BY DEF Searches
<1>2. /\ e.stack = Append(at.stack, node) /\ e.state = [at.state EXCEPT ![node] = Visiting]
      /\ Open(e) = Open(at) \ {node}
  BY Entering
<1>3. l.stack = e.stack
  BY DEF Onward
<1>4. r.state = [l.state EXCEPT ![node] = Done] /\ r.stack = at.stack /\ r.cycle = <<>>
  <2>1. SubSeq(Append(at.stack, node), 1, Len(Append(at.stack, node)) - 1) = at.stack
    <3>1. at.stack \in Seq(N)
      BY <1>1
    <3>. QED  BY <3>1
  <2>2. l.stack = Append(at.stack, node)
    BY <1>2, <1>3
  <2>3. r = [l EXCEPT !.state[node] = Done, !.stack = SubSeq(l.stack, 1, Len(l.stack) - 1)]
    BY DEF Leave
  <2>. HIDE DEF r, e
  <2>. QED  BY <1>1, <2>1, <2>2, <2>3
<1>5. \A n \in N : r.state[n] = Visiting <=> at.state[n] = Visiting
  <2>. TAKE n \in N
  <2>1. CASE n = node
    BY <1>1, <1>4, <2>1 DEF Unvisited, Visiting, Done
  <2>2. CASE n # node
    <3>1. r.state[n] = l.state[n] /\ e.state[n] = at.state[n]
      BY <1>1, <1>2, <1>4, <2>2
    <3>2. l.state[n] = Visiting <=> e.state[n] = Visiting
      BY DEF Onward
    <3>. QED  BY <3>1, <3>2
  <2>. QED  BY <2>1, <2>2
<1>6. r \in Searches(N)
  <2>1. r \in [state : [N -> {Unvisited, Visiting, Done}], stack : Seq(N), cycle : Seq(N)]
    <3>1. r = [l EXCEPT !.state = r.state, !.stack = r.stack]
      <4>1. r = [l EXCEPT !.state[node] = Done, !.stack = SubSeq(l.stack, 1, Len(l.stack) - 1)]
        BY DEF Leave
      <4>. HIDE DEF r
      <4>. QED  BY <1>1, <4>1
    <3>2. r.state \in [N -> {Unvisited, Visiting, Done}] /\ r.stack \in Seq(N)
      BY <1>1, <1>4
    <3>. HIDE DEF r
    <3>. QED  BY <1>1, <3>1, <3>2
  <2>. QED  BY <1>1, <1>4, <1>5, <2>1 DEF Searches
<1>7. Open(r) \subseteq Open(at)
  <2>1. \A n \in N : r.state[n] = Unvisited => l.state[n] = Unvisited
    BY <1>1, <1>4 DEF Unvisited, Done
  <2>. QED  BY <1>1, <1>2, <1>4, <2>1 DEF Open
<1>8. done(r) = done(l) \cup {node} /\ node \notin done(l)
  <2>1. l.state[node] = Visiting
    <3>1. e.state[node] = Visiting
      BY <1>1, <1>2
    <3>. QED  BY <3>1 DEF Onward
  <2>2. r.state[node] = Done /\ \A n \in N : n # node => r.state[n] = l.state[n]
    BY <1>1, <1>4
  <2>. QED  BY <2>1, <2>2 DEF Visiting, Done
<1>9. done(at) = done(e) /\ done(e) \subseteq done(l)
  <2>1. \A n \in N : at.state[n] = Done <=> e.state[n] = Done
    BY <1>1, <1>2 DEF Unvisited, Visiting, Done
  <2>2. \A n \in N : e.state[n] = Done => l.state[n] = Done
    BY DEF Onward
  <2>. QED  BY <2>1, <2>2
<1>10. ASSUME Sorted(edges, at)  PROVE Sorted(edges, r)
  <2>. DEFINE D == done(l)
  <2>1. Sorted(edges, e)
    <3>1. \A s : Sorted(edges, s) <=>
             /\ \A n \in done(s) : Range(edges[n]) \subseteq done(s)
             /\ \A B \in SUBSET done(s) : B # {} => \E n \in B : Range(edges[n]) \cap B = {}
      BY DEF Sorted
    <3>. HIDE DEF done, e
    <3>. QED  BY <1>9, <1>10, <3>1
  <2>2. Sorted(edges, l)
    BY <2>1 DEF Onward
  <2>3. /\ \A n \in D : Range(edges[n]) \subseteq D
        /\ \A B \in SUBSET D : B # {} => \E n \in B : Range(edges[n]) \cap B = {}
    BY <2>2 DEF Sorted
  <2>4. Range(edges[node]) \subseteq D
    <3>1. Range(edges[node]) \subseteq N
      BY DEF Range
    <3>. QED  BY <3>1
  <2>. HIDE DEF D
  <2>5. \A n \in D \cup {node} : Range(edges[n]) \subseteq D \cup {node}
    BY <2>3, <2>4
  <2>6. ASSUME NEW B \in SUBSET (D \cup {node}), B # {}
        PROVE  \E n \in B : Range(edges[n]) \cap B = {}
    <3>1. CASE B \cap D = {}
      <4>1. node \in B
        BY <2>6, <3>1
      <4>. QED  BY <2>4, <3>1, <4>1
    <3>2. CASE B \cap D # {}
      <4>1. PICK n \in B \cap D : Range(edges[n]) \cap (B \cap D) = {}
        BY <2>3, <3>2
      <4>2. Range(edges[n]) \subseteq D
        BY <2>3, <4>1
      <4>. QED  BY <4>1, <4>2
    <3>. QED  BY <3>1, <3>2
  <2>7. done(r) = D \cup {node}
    BY <1>8 DEF D
  <2>. HIDE DEF r
  <2>. QED  BY <2>5, <2>6, <2>7 DEF Sorted
<1>11. Onward(edges, at, r)
  <2>1. \A n \in N : at.state[n] = Done => r.state[n] = Done
    BY <1>8, <1>9
  <2>. HIDE DEF r
  <2>. QED  BY <1>4, <1>5, <1>10, <2>1 DEF Onward
<1>12. r.state[node] = Done
  BY <1>8
<1>13. Came(edges, at, node, r)
  <2>. HIDE DEF r
  <2>. QED  BY <1>6, <1>7, <1>11, <1>12 DEF Came
<1>. QED  BY <1>13

(* A walk does what it should if every walk with less to be visited does. *)
LEMMA WalkedCame ==
  ASSUME NEW edges, edges \in [DOMAIN edges -> Seq(DOMAIN edges)],
         NEW at \in Searches(DOMAIN edges), NEW node \in DOMAIN edges,
         at.state[node] = Unvisited, at.cycle = <<>>,
         NEW walk, WalksWithin(walk, edges, Enter(at, node))
  PROVE  Came(edges, at, node, Walked(walk, edges, node, at))
<1>. DEFINE N == DOMAIN edges
            e == Enter(at, node)
            list == edges[node]
            l == Looked(walk, e, list)
<1>1. e \in Searches(N) /\ list \in Seq(N) /\ Open(e) = Open(at) \ {node}
  BY Entering
<1>4. /\ l \in Searches(N) /\ Open(l) \subseteq Open(e)
      /\ l.cycle = <<>> => Onward(edges, e, l) /\ \A n \in Range(list) : l.state[n] = Done
  BY <1>1, LookedKeeps
<1>5. Walked(walk, edges, node, at) = IF l.cycle # <<>> THEN l ELSE Leave(l, node)
  BY Zenon DEF Walked
<1>6. CASE l.cycle # <<>>
  <2>. HIDE DEF l
  <2>. QED  BY <1>1, <1>4, <1>5, <1>6 DEF Came
<1>7. CASE l.cycle = <<>>
  <2>2. Came(edges, at, node, Leave(l, node))
    <3>. HIDE DEF l
    <3>. QED  BY <1>4, <1>7, Leaving1
  <2>. HIDE DEF l
  <2>. QED  BY <1>5, <1>7, <2>2
<1>. QED  BY <1>6, <1>7

(* What is not yet visited, and so how often a walk can call another, is finite. *)
LEMMA OpenFinite ==
  ASSUME NEW edges, IsFiniteSet(DOMAIN edges), NEW s \in Searches(DOMAIN edges)
  PROVE  /\ Open(s) \subseteq DOMAIN edges /\ IsFiniteSet(Open(s)) /\ Cardinality(Open(s)) \in Nat
         /\ Cardinality(Open(s)) <= Cardinality(DOMAIN edges) /\ Cardinality(DOMAIN edges) \in Nat
         /\ \A T \in SUBSET Open(s) : Cardinality(T) \in Nat /\ Cardinality(T) <= Cardinality(Open(s))
         /\ \A n \in Open(s) : Cardinality(Open(s) \ {n}) = Cardinality(Open(s)) - 1
<1>1. Open(s) \subseteq DOMAIN edges
  BY DEF Open, Searches
<1>2. IsFiniteSet(Open(s)) /\ Cardinality(Open(s)) <= Cardinality(DOMAIN edges)
  BY <1>1, FS_Subset
<1>3. Cardinality(Open(s)) \in Nat /\ Cardinality(DOMAIN edges) \in Nat
  BY <1>2, FS_CardinalityType
<1>4. ASSUME NEW T \in SUBSET Open(s)
      PROVE  Cardinality(T) \in Nat /\ Cardinality(T) <= Cardinality(Open(s))
  <2>1. IsFiniteSet(T) /\ Cardinality(T) <= Cardinality(Open(s))
    BY <1>2, FS_Subset
  <2>. QED  BY <2>1, FS_CardinalityType
<1>5. \A n \in Open(s) : Cardinality(Open(s) \ {n}) = Cardinality(Open(s)) - 1
  BY <1>2, FS_RemoveElement
<1>. QED  BY <1>1, <1>2, <1>3, <1>4, <1>5

(* Two walks that agree wherever there is less to be visited look alike. *)
LEMMA LookedAgree ==
  ASSUME NEW edges, NEW e \in Searches(DOMAIN edges), NEW walk, WalksWithin(walk, edges, e),
         NEW list \in Seq(DOMAIN edges), NEW other,
         \A next \in DOMAIN edges, s \in Searches(DOMAIN edges) :
           s.state[next] = Unvisited /\ s.cycle = <<>> /\ Open(s) \subseteq Open(e) =>
             other[next][s] = walk[next][s]
  PROVE  Looked(other, e, list) = Looked(walk, e, list)
<1>1. PICK h : /\ h[0] = e
               /\ \A i \in 1 .. Len(list) : h[i] = Look(walk, h[i - 1], list[i])
               /\ Looked(walk, e, list) = h[Len(list)]
  BY LooksInTurn
<1>2. PICK g : /\ g[0] = e
               /\ \A i \in 1 .. Len(list) : g[i] = Look(other, g[i - 1], list[i])
               /\ Looked(other, e, list) = g[Len(list)]
  BY LooksInTurn
<1>3. \A i \in 0 .. Len(list) : h[i] \in Searches(DOMAIN edges) /\ Open(h[i]) \subseteq Open(e)
  BY <1>1, LooksKeep
<1>4. Len(list) \in Nat /\ \A i \in 1 .. Len(list) : list[i] \in DOMAIN edges
  OBVIOUS
<1>. DEFINE A == {i \in Nat : i <= Len(list) => g[i] = h[i]}
<1>5. 0 \in A
  BY <1>1, <1>2
<1>6. ASSUME NEW n \in Nat, n \in A  PROVE n + 1 \in A
  <2>. SUFFICES ASSUME n + 1 <= Len(list) PROVE g[n + 1] = h[n + 1]
    OBVIOUS
  <2>. DEFINE s == h[n]
              next == list[n + 1]
  <2>1. n + 1 \in 1 .. Len(list) /\ n \in 0 .. Len(list) /\ (n + 1) - 1 = n /\ g[n] = s
    BY <1>4, <1>6
  <2>2. /\ h[n + 1] = Look(walk, s, next) /\ g[n + 1] = Look(other, s, next)
        /\ s \in Searches(DOMAIN edges) /\ Open(s) \subseteq Open(e) /\ next \in DOMAIN edges
    BY <1>1, <1>2, <1>3, <1>4, <2>1
  <2>. HIDE DEF s, next
  <2>3. CASE s.state[next] = Unvisited /\ s.cycle = <<>>
    <3>1. other[next][s] = walk[next][s]
      BY <2>2, <2>3
    <3>. QED  BY <2>2, <2>3, <3>1 DEF Look, Unvisited, Visiting
  <2>4. CASE ~(s.state[next] = Unvisited /\ s.cycle = <<>>)
    <3>1. s.cycle \in Seq(DOMAIN edges)
      BY <2>2 DEF Searches
    <3>2. CASE s.cycle # <<>>
      <4>1. Look(walk, s, next) = s /\ Look(other, s, next) = s
        BY <3>2 DEF Look
      <4>. QED  BY <2>2, <4>1
    <3>3. CASE s.cycle = <<>> /\ s.state[next] = Visiting
      <4>. DEFINE k == CHOOSE k \in DOMAIN s.stack : s.stack[k] = next
                  closed == [s EXCEPT !.cycle = SubSeq(s.stack, k, Len(s.stack))]
      <4>1. Look(walk, s, next) = closed
        BY <3>3, Zenon DEF Look, Unvisited, Visiting
      <4>2. Look(other, s, next) = closed
        BY <3>3, Zenon DEF Look, Unvisited, Visiting
      <4>. HIDE DEF closed
      <4>. QED  BY <2>2, <4>1, <4>2
    <3>4. CASE s.cycle = <<>> /\ s.state[next] # Visiting
      <4>1. Look(walk, s, next) = s /\ Look(other, s, next) = s
        BY <2>4, <3>4 DEF Look
      <4>. QED  BY <2>2, <4>1
    <3>. QED  BY <3>2, <3>3, <3>4
  <2>. QED  BY <2>3, <2>4
<1>7. Nat \subseteq A
  <2>. HIDE DEF A
  <2>. QED  BY <1>5, <1>6, Reaches
<1>. QED  BY <1>1, <1>2, <1>4, <1>7

LEMMA WalkedAgree ==
  ASSUME NEW edges, edges \in [DOMAIN edges -> Seq(DOMAIN edges)],
         NEW at \in Searches(DOMAIN edges), NEW node \in DOMAIN edges,
         NEW walk, WalksWithin(walk, edges, Enter(at, node)), NEW other,
         \A next \in DOMAIN edges, s \in Searches(DOMAIN edges) :
           s.state[next] = Unvisited /\ s.cycle = <<>> /\ Open(s) \subseteq Open(Enter(at, node)) =>
             other[next][s] = walk[next][s]
  PROVE  Walked(other, edges, node, at) = Walked(walk, edges, node, at)
<1>. DEFINE e == Enter(at, node)
<1>1. e \in Searches(DOMAIN edges) /\ edges[node] \in Seq(DOMAIN edges)
  BY Entering
<1>2. Looked(other, e, edges[node]) = Looked(walk, e, edges[node])
  BY <1>1, LookedAgree
<1>. QED  BY <1>2, Zenon DEF Walked

(* What a walk is where at most n more are to be visited once the node is entered. *)
Walks(walk, edges, n) ==
  \A node \in DOMAIN edges, at \in Searches(DOMAIN edges) :
    Cardinality(Open(at) \ {node}) < n =>
      /\ walk[node][at] = Walked(walk, edges, node, at)
      /\ at.state[node] = Unvisited /\ at.cycle = <<>> => Came(edges, at, node, walk[node][at])

LEMMA WalksOn ==
  ASSUME NEW edges, IsFiniteSet(DOMAIN edges), NEW walk, NEW n \in Nat, Walks(walk, edges, n),
         NEW node \in DOMAIN edges, NEW at \in Searches(DOMAIN edges),
         Cardinality(Open(at) \ {node}) <= n,
         NEW next \in DOMAIN edges, NEW s \in Searches(DOMAIN edges), s.state[next] = Unvisited,
         s.cycle = <<>>, Open(s) \subseteq Open(Enter(at, node))
  PROVE  /\ walk[next][s] = Walked(walk, edges, next, s)
         /\ Came(edges, s, next, walk[next][s])
<1>. DEFINE e == Enter(at, node)
<1>1. e \in Searches(DOMAIN edges) /\ Open(e) = Open(at) \ {node}
  BY Entering
<1>2. next \in Open(s)
  BY DEF Open, Searches
<1>3. Cardinality(Open(s)) \in Nat /\ Cardinality(Open(s)) <= n
  <2>1. Cardinality(Open(e)) \in Nat /\ Cardinality(Open(e)) <= n
    BY <1>1, OpenFinite
  <2>2. Cardinality(Open(s)) \in Nat /\ Cardinality(Open(s)) <= Cardinality(Open(e))
    <3>1. Open(s) \subseteq Open(e)
      OBVIOUS
    <3>. HIDE DEF e
    <3>. QED  BY <1>1, <3>1, OpenFinite
  <2>. HIDE DEF e
  <2>. QED  BY <2>1, <2>2
<1>4. Cardinality(Open(s) \ {next}) < n
  <2>1. Cardinality(Open(s) \ {next}) = Cardinality(Open(s)) - 1
    BY <1>2, OpenFinite
  <2>. QED  BY <1>3, <2>1
<1>. QED  BY <1>4 DEF Walks

(* A walk of which so much is known gives one of which one more is. *)
LEMMA WalksFurther ==
  ASSUME NEW edges, IsFiniteSet(DOMAIN edges), edges \in [DOMAIN edges -> Seq(DOMAIN edges)],
         NEW walk, NEW n \in Nat, Walks(walk, edges, n)
  PROVE  Walks([node \in DOMAIN edges |->
                 [at \in Searches(DOMAIN edges) |-> Walked(walk, edges, node, at)]], edges, n + 1)
<1>. DEFINE N == DOMAIN edges
            S == Searches(DOMAIN edges)
            further == [node \in N |-> [at \in S |-> Walked(walk, edges, node, at)]]
<1>1. \A node \in N, at \in S : further[node][at] = Walked(walk, edges, node, at)
  OBVIOUS
<1>. HIDE DEF further
<1>2. ASSUME NEW node \in N, NEW at \in S, Cardinality(Open(at) \ {node}) < n + 1
      PROVE  /\ further[node][at] = Walked(further, edges, node, at)
             /\ at.state[node] = Unvisited /\ at.cycle = <<>> =>
                  Came(edges, at, node, further[node][at])
  <2>0. Cardinality(Open(at) \ {node}) <= n
    <3>1. Open(at) \ {node} \in SUBSET Open(at)
      OBVIOUS
    <3>2. Cardinality(Open(at) \ {node}) \in Nat
      BY <3>1, OpenFinite
    <3>. QED  BY <1>2, <3>2
  <2>1. \A next \in N, s \in S :
          s.state[next] = Unvisited /\ s.cycle = <<>> /\ Open(s) \subseteq Open(Enter(at, node)) =>
            /\ walk[next][s] = Walked(walk, edges, next, s)
            /\ Came(edges, s, next, walk[next][s])
    BY <2>0, WalksOn
  <2>2. WalksWithin(walk, edges, Enter(at, node))
    BY <2>1 DEF WalksWithin
  <2>3. \A next \in N, s \in S :
          s.state[next] = Unvisited /\ s.cycle = <<>> /\ Open(s) \subseteq Open(Enter(at, node)) =>
            further[next][s] = walk[next][s]
    BY <1>1, <2>1
  <2>4. Walked(further, edges, node, at) = Walked(walk, edges, node, at)
    BY <2>2, <2>3, WalkedAgree
  <2>5. at.state[node] = Unvisited /\ at.cycle = <<>> =>
          Came(edges, at, node, Walked(walk, edges, node, at))
    BY <2>2, WalkedCame
  <2>. QED  BY <1>1, <2>4, <2>5
<1>3. Walks(further, edges, n + 1)
  BY <1>2 DEF Walks
<1>. QED  BY <1>3 DEF further

(* The walk of the search is defined, and does what it should wherever it starts. *)
LEMMA WalkCame ==
  ASSUME NEW edges, IsFiniteSet(DOMAIN edges), edges \in [DOMAIN edges -> Seq(DOMAIN edges)]
  PROVE  \A node \in DOMAIN edges, at \in Searches(DOMAIN edges) :
           /\ Walk(edges)[node][at] = Walked(Walk(edges), edges, node, at)
           /\ at.state[node] = Unvisited /\ at.cycle = <<>> =>
                Came(edges, at, node, Walk(edges)[node][at])
<1>. DEFINE N == DOMAIN edges
            S == Searches(DOMAIN edges)
            Again(walk) == [node \in N |-> [at \in S |-> Walked(walk, edges, node, at)]]
            A == {n \in Nat : \E walk : Walks(walk, edges, n)}
            m == Cardinality(N) + 1
<1>1. m \in Nat /\ \A at \in S, node \in N :
        Cardinality(Open(at) \ {node}) \in Nat /\ Cardinality(Open(at) \ {node}) < m
  <2>1. Cardinality(N) \in Nat
    BY FS_CardinalityType
  <2>2. ASSUME NEW at \in S, NEW node \in N
        PROVE  Cardinality(Open(at) \ {node}) \in Nat /\ Cardinality(Open(at) \ {node}) < m
    <3>1. Open(at) \ {node} \in SUBSET Open(at)
      OBVIOUS
    <3>2. /\ Cardinality(Open(at) \ {node}) \in Nat /\ Cardinality(Open(at)) \in Nat
          /\ Cardinality(Open(at) \ {node}) <= Cardinality(Open(at))
          /\ Cardinality(Open(at)) <= Cardinality(N)
      BY <3>1, OpenFinite
    <3>. QED  BY <2>1, <3>2
  <2>. QED  BY <2>1, <2>2
<1>2. \E walk : Walks(walk, edges, m)
  <2>1. 0 \in A
    <3>1. Walks(edges, edges, 0)
      <4>1. \A at \in S, node \in N : ~(Cardinality(Open(at) \ {node}) < 0)
        BY <1>1
      <4>. QED  BY <4>1 DEF Walks
    <3>. QED  BY <3>1
  <2>2. ASSUME NEW n \in Nat, n \in A  PROVE n + 1 \in A
    <3>1. PICK walk : Walks(walk, edges, n)
      BY <2>2
    <3>2. Walks(Again(walk), edges, n + 1)
      BY <3>1, WalksFurther
    <3>. HIDE DEF Again
    <3>. QED  BY <3>2
  <2>3. Nat \subseteq A
    <3>. HIDE DEF A
    <3>. QED  BY <2>1, <2>2, Reaches
  <2>. HIDE DEF m
  <2>. QED  BY <1>1, <2>3
<1>3. \E walk : walk = Again(walk)
  <2>1. PICK walk : Walks(walk, edges, m)
    BY <1>2
  <2>. DEFINE again == Again(walk)
  <2>2. Walks(again, edges, m + 1)
    BY <1>1, <2>1, WalksFurther
  <2>3. \A node \in N, at \in S : again[node][at] = Walked(again, edges, node, at)
    <3>1. \A node \in N, at \in S : Cardinality(Open(at) \ {node}) < m + 1
      <4>. HIDE DEF m
      <4>. QED  BY <1>1
    <3>. HIDE DEF again, m
    <3>. QED  BY <2>2, <3>1 DEF Walks
  <2>4. \A node \in N, at \in S : again[node][at] = Walked(walk, edges, node, at)
    OBVIOUS
  <2>5. \A node \in N, at \in S : Walked(walk, edges, node, at) = Walked(again, edges, node, at)
    <3>. HIDE DEF again
    <3>. QED  BY <2>3, <2>4
  <2>6. again = Again(again)
    <3>. QED  BY <2>5, Zenon
  <2>. HIDE DEF again, Again
  <2>. QED  BY <2>6
<1>. DEFINE w == Walk(edges)
<1>4. w = CHOOSE walk : walk = Again(walk)
  BY Zenon DEF Walk
<1>5. w = Again(w)
  <2>. HIDE DEF w, Again
  <2>. QED  BY <1>3, <1>4
<1>6. \A node \in N, at \in S : w[node][at] = Walked(w, edges, node, at)
  <2>. HIDE DEF w
  <2>1. w = [node \in N |-> [at \in S |-> Walked(w, edges, node, at)]]
    BY <1>5, Zenon
  <2>2. \A node \in N : w[node] = [at \in S |-> Walked(w, edges, node, at)]
    BY <2>1
  <2>. QED  BY <2>2
<1>. HIDE DEF w
<1>. DEFINE B == {n \in Nat : Walks(w, edges, n)}
<1>7. 0 \in B
  <2>1. \A at \in S, node \in N : ~(Cardinality(Open(at) \ {node}) < 0)
    BY <1>1
  <2>. QED  BY <2>1 DEF Walks
<1>8. ASSUME NEW n \in Nat, n \in B  PROVE n + 1 \in B
  <2>1. Walks(w, edges, n)
    BY <1>8
  <2>2. ASSUME NEW node \in N, NEW at \in S, Cardinality(Open(at) \ {node}) < n + 1,
               at.state[node] = Unvisited, at.cycle = <<>>
        PROVE  Came(edges, at, node, w[node][at])
    <3>1. Cardinality(Open(at) \ {node}) <= n
      BY <1>1, <2>2
    <3>2. WalksWithin(w, edges, Enter(at, node))
      BY <2>1, <3>1, WalksOn DEF WalksWithin
    <3>. QED  BY <1>6, <2>2, <3>2, WalkedCame
  <2>3. Walks(w, edges, n + 1)
    <3>1. \A node \in N, at \in S : Cardinality(Open(at) \ {node}) < n + 1 =>
             /\ w[node][at] = Walked(w, edges, node, at)
             /\ at.state[node] = Unvisited /\ at.cycle = <<>> => Came(edges, at, node, w[node][at])
      BY <1>6, <2>2
    <3>. QED  BY <3>1 DEF Walks
  <2>. QED  BY <2>3
<1>9. Walks(w, edges, m)
  <2>1. Nat \subseteq B
    <3>. HIDE DEF B
    <3>. QED  BY <1>7, <1>8, Reaches
  <2>. HIDE DEF m
  <2>. QED  BY <1>1, <2>1
<1>10. \A node \in N, at \in S : at.state[node] = Unvisited /\ at.cycle = <<>> =>
          Came(edges, at, node, w[node][at])
  <2>. HIDE DEF m
  <2>. QED  BY <1>1, <1>9 DEF Walks
<1>. QED  BY <1>6, <1>10 DEF w

(* The keys of a finite map come in an order that leaves none of them out. *)
LEMMA Enumerated ==
  ASSUME NEW S, IsFiniteSet(S), NEW order,
         order = CHOOSE keys \in Bijection(1 .. Cardinality(S), S) : TRUE
  PROVE  order \in Seq(S) /\ Range(order) = S
<1>. DEFINE m == Cardinality(S)
<1>1. m \in Nat /\ Bijection(1 .. m, S) # {}
  BY FS_CardinalityType DEF ExistsBijection
<1>2. order \in Bijection(1 .. m, S)
  BY <1>1
<1>3. order \in [1 .. m -> S] /\ \A s \in S : \E i \in 1 .. m : order[i] = s
  BY <1>2 DEF Bijection, Injection, Surjection
<1>4. order \in Seq(S) /\ DOMAIN order = 1 .. m
  BY <1>1, <1>3, SeqDef
<1>5. Range(order) = S
  BY <1>3, <1>4 DEF Range
<1>. QED  BY <1>4, <1>5

(* The search begins with one node after the other. *)
LEMMA BeginsInTurn ==
  ASSUME NEW walk, NEW at, NEW N, NEW list \in Seq(N)
  PROVE  \E h : /\ h[0] = at
                /\ \A i \in 1 .. Len(list) : h[i] = Begin(walk, h[i - 1], list[i])
                /\ Begun(walk, at, list) = h[Len(list)]
<1>. DEFINE Turn(f, i) == IF i = 0 THEN at ELSE Begin(walk, f[i - 1], list[i])
            A == {n \in Nat : \E f : f = [i \in 0 .. n |-> Turn(f, i)]}
<1>1. Len(list) \in Nat
  BY LenProperties
<1>2. 0 \in A
  <2>. DEFINE f == [i \in 0 .. 0 |-> at]
  <2>1. f = [i \in 0 .. 0 |-> Turn(f, i)]
    OBVIOUS
  <2>. HIDE DEF Turn, f
  <2>. QED  BY <2>1
<1>3. ASSUME NEW n \in Nat, n \in A  PROVE n + 1 \in A
  <2>1. PICK f : f = [i \in 0 .. n |-> Turn(f, i)]
    BY <1>3
  <2>. DEFINE g == [i \in 0 .. n + 1 |-> Turn(f, i)]
  <2>2. \A i \in 0 .. n : g[i] = f[i]
    <3>. HIDE DEF Turn
    <3>. QED  BY <2>1
  <2>3. \A i \in 0 .. n + 1 : Turn(f, i) = Turn(g, i)
    <3>. TAKE i \in 0 .. n + 1
    <3>1. CASE i = 0
      BY <3>1
    <3>2. CASE i # 0
      <4>1. i - 1 \in 0 .. n
        BY <3>2
      <4>2. f[i - 1] = g[i - 1]
        <5>. HIDE DEF g
        <5>. QED  BY <2>2, <4>1
      <4>. HIDE DEF g
      <4>. QED  BY <4>2
    <3>. QED  BY <3>1, <3>2
  <2>4. g = [i \in 0 .. n + 1 |-> Turn(g, i)]
    <3>. HIDE DEF Turn
    <3>. QED  BY <2>3
  <2>. HIDE DEF Turn, g
  <2>. QED  BY <2>4
<1>4. \E f : f = [i \in 0 .. Len(list) |-> Turn(f, i)]
  <2>1. Nat \subseteq A
    <3>. HIDE DEF A
    <3>. QED  BY <1>2, <1>3, Reaches
  <2>2. Len(list) \in A
    <3>. HIDE DEF A
    <3>. QED  BY <1>1, <2>1
  <2>. HIDE DEF Turn
  <2>. QED  BY <2>2
<1>. DEFINE h == CHOOSE f : f = [i \in 0 .. Len(list) |-> Turn(f, i)]
<1>5. Begun(walk, at, list) = h[Len(list)]
  BY Zenon DEF Begun
<1>6. h = [i \in 0 .. Len(list) |-> Turn(h, i)]
  <2>. HIDE DEF Turn
  <2>. QED  BY <1>4
<1>. HIDE DEF h
<1>7. h[0] = at /\ \A i \in 1 .. Len(list) : h[i] = Begin(walk, h[i - 1], list[i])
  BY <1>1, <1>6
<1>. QED  BY <1>5, <1>7

(* The search of plan.py:785 is sound: where it finds no cycle among the steps'
   dependencies there is none, for of any of the steps one depends on none of
   them. *)
THEOREM NoCycleUnseen ==
  ASSUME NEW edges, IsFiniteSet(DOMAIN edges), edges \in [DOMAIN edges -> Seq(DOMAIN edges)],
         FindCycle(edges) = <<>>
  PROVE  \A B \in SUBSET DOMAIN edges : B # {} => \E n \in B : Range(edges[n]) \cap B = {}
<1>. DEFINE N == DOMAIN edges
            S == Searches(N)
            walk == Walk(edges)
            start == [state |-> [n \in N |-> Unvisited], stack |-> <<>>, cycle |-> <<>>]
            list == CHOOSE keys \in Bijection(1 .. Cardinality(N), N) : TRUE
            end == Begun(walk, start, list)
            Fine(s, i) == /\ s \in S
                          /\ s.cycle = <<>> =>
                               /\ Sorted(edges, s) /\ s.stack = <<>>
                               /\ \A j \in 1 .. i : s.state[list[j]] = Done
<1>1. list \in Seq(N) /\ Range(list) = N
  BY Enumerated
<1>2. end.cycle = <<>>
  BY Zenon DEF FindCycle
<1>3. \A node \in N, at \in S : at.state[node] = Unvisited /\ at.cycle = <<>> =>
        Came(edges, at, node, walk[node][at])
  BY WalkCame
<1>4. Fine(start, 0)
  <2>1. start \in S
    BY DEF Searches, Unvisited, Visiting
  <2>2. Sorted(edges, start)
    BY DEF Sorted, Unvisited, Done
  <2>. QED  BY <2>1, <2>2
<1>. HIDE DEF walk, start, list, S
<1>5. PICK h : /\ h[0] = start
               /\ \A i \in 1 .. Len(list) : h[i] = Begin(walk, h[i - 1], list[i])
               /\ end = h[Len(list)]
  BY <1>1, BeginsInTurn
<1>. HIDE DEF end
<1>6. Len(list) \in Nat /\ DOMAIN list = 1 .. Len(list) /\ \A i \in 1 .. Len(list) : list[i] \in N
  BY <1>1, LenProperties, ElementOfSeq
<1>. DEFINE A == {i \in Nat : i <= Len(list) => Fine(h[i], i)}
<1>7. 0 \in A
  BY <1>4, <1>5
<1>8. ASSUME NEW n \in Nat, n \in A  PROVE n + 1 \in A
  <2>. SUFFICES ASSUME n + 1 <= Len(list) PROVE Fine(h[n + 1], n + 1)
    OBVIOUS
  <2>. DEFINE s == h[n]
              r == h[n + 1]
              node == list[n + 1]
  <2>1. /\ s \in S
        /\ s.cycle = <<>> => /\ Sorted(edges, s) /\ s.stack = <<>>
                             /\ \A j \in 1 .. n : s.state[list[j]] = Done
    BY <1>6, <1>8
  <2>2. node \in N /\ r = Begin(walk, s, node)
    <3>1. n + 1 \in 1 .. Len(list) /\ (n + 1) - 1 = n
      BY <1>6
    <3>. QED  BY <1>5, <1>6, <3>1
  <2>3. \A j \in 1 .. n : list[j] \in N
    BY <1>6
  <2>4. \A j \in 1 .. n + 1 : j = n + 1 \/ j \in 1 .. n
    OBVIOUS
  <2>5. /\ s.state \in [N -> {Unvisited, Visiting, Done}] /\ s.stack \in Seq(N) /\ s.cycle \in Seq(N)
        /\ \A n_1 \in N : s.state[n_1] = Visiting => n_1 \in Range(s.stack)
    BY <2>1 DEF Searches, S
  <2>. HIDE DEF s, r
  <2>6. CASE s.cycle = <<>> /\ s.state[node] = Unvisited
    <3>1. r = walk[node][s]
      BY <2>2, <2>6 DEF Begin
    <3>2. Came(edges, s, node, r)
      BY <1>3, <2>1, <2>2, <2>6, <3>1
    <3>3. r \in S
      BY <3>2 DEF Came, S
    <3>4. ASSUME r.cycle = <<>>
          PROVE  /\ Sorted(edges, r) /\ r.stack = <<>>
                 /\ \A j \in 1 .. n + 1 : r.state[list[j]] = Done
      <4>1. Onward(edges, s, r) /\ r.state[node] = Done
        BY <3>2, <3>4 DEF Came
      <4>2. Sorted(edges, r) /\ r.stack = <<>>
        BY <2>1, <2>6, <4>1 DEF Onward
      <4>3. \A j \in 1 .. n : r.state[list[j]] = Done
        BY <2>1, <2>3, <2>6, <4>1 DEF Onward
      <4>. QED  BY <2>4, <4>1, <4>2, <4>3
    <3>. QED  BY <3>3, <3>4 DEF r
  <2>7. CASE s.cycle # <<>>
    <3>1. r = s
      BY <2>2, <2>7 DEF Begin
    <3>. QED  BY <2>1, <2>7, <3>1 DEF r
  <2>8. CASE s.cycle = <<>> /\ s.state[node] # Unvisited
    <3>1. r = s
      BY <2>2, <2>8 DEF Begin
    <3>2. s.state[node] = Done
      <4>1. s.stack = <<>>
        BY <2>1, <2>8
      <4>2. Range(s.stack) = {}
        BY <4>1 DEF Range
      <4>. QED  BY <2>2, <2>5, <2>8, <4>2
    <3>3. \A j \in 1 .. n + 1 : s.state[list[j]] = Done
      BY <2>1, <2>4, <2>8, <3>2
    <3>. QED  BY <2>1, <2>8, <3>1, <3>3 DEF r
  <2>. QED  BY <2>6, <2>7, <2>8
<1>9. Fine(end, Len(list))
  <2>1. Nat \subseteq A
    <3>. HIDE DEF A
    <3>. QED  BY <1>7, <1>8, Reaches
  <2>. QED  BY <1>5, <1>6, <2>1
<1>10. \A n \in N : end.state[n] = Done
  BY <1>1, <1>2, <1>6, <1>9 DEF Range
<1>. QED  BY <1>2, <1>9, <1>10 DEF Sorted

(* --------------------- what is named as a cycle is one -------------------- *)

(* Each of them depends on the next, and the last on the first. *)
Closed(edges, cycle) ==
  \A k \in DOMAIN cycle : cycle[IF k = Len(cycle) THEN 1 ELSE k + 1] \in Range(edges[cycle[k]])

(* What is on the stack depends on what lies above it, and its top on the node
   that is looked at. *)
Path(edges, stack) == \A k \in 1 .. Len(stack) - 1 : stack[k + 1] \in Range(edges[stack[k]])
Below(edges, stack, next) == stack # <<>> => next \in Range(edges[stack[Len(stack)]])

(* A search that may walk to a node next, on a path. *)
Ahead(edges, s, next) ==
  /\ s.state[next] = Unvisited /\ s.cycle = <<>>
  /\ Path(edges, s.stack) /\ Below(edges, s.stack, next)

(* A path that comes back to one of its nodes is a cycle from there on. *)
LEMMA PathCloses ==
  ASSUME NEW edges, NEW stack \in Seq(DOMAIN edges), NEW k \in 1 .. Len(stack), Path(edges, stack),
         stack[k] \in Range(edges[stack[Len(stack)]])
  PROVE  Closed(edges, SubSeq(stack, k, Len(stack)))
<1>. DEFINE cycle == SubSeq(stack, k, Len(stack))
<1>1. Len(stack) \in Nat
  OBVIOUS
<1>2. /\ Len(cycle) = Len(stack) - k + 1 /\ DOMAIN cycle = 1 .. Len(cycle)
      /\ \A i \in 1 .. Len(cycle) : cycle[i] = stack[k + i - 1]
  BY <1>1, SubSeqProperties
<1>. HIDE DEF cycle
<1>3. ASSUME NEW i \in 1 .. Len(cycle)
      PROVE  cycle[IF i = Len(cycle) THEN 1 ELSE i + 1] \in Range(edges[cycle[i]])
  <2>1. CASE i = Len(cycle)
    <3>1. cycle[1] = stack[k] /\ cycle[i] = stack[Len(stack)]
      BY <1>1, <1>2, <2>1
    <3>. QED  BY <2>1, <3>1
  <2>2. CASE i # Len(cycle)
    <3>1. /\ i + 1 \in 1 .. Len(cycle) /\ k + (i + 1) - 1 = (k + i - 1) + 1
          /\ k + i - 1 \in 1 .. Len(stack) - 1
      <4>1. Len(cycle) = Len(stack) - k + 1
        BY <1>2
      <4>. HIDE DEF Path
      <4>. QED  BY <1>1, <2>2, <4>1
    <3>2. cycle[i + 1] = stack[(k + i - 1) + 1] /\ cycle[i] = stack[k + i - 1]
      BY <1>2, <3>1
    <3>3. stack[(k + i - 1) + 1] \in Range(edges[stack[k + i - 1]])
      BY <3>1 DEF Path
    <3>. QED  BY <2>2, <3>2, <3>3
  <2>. QED  BY <2>1, <2>2
<1>4. Closed(edges, cycle)
  BY <1>2, <1>3 DEF Closed
<1>. QED  BY <1>4 DEF cycle

(* The walk names only cycles wherever there is less to be visited. *)
ClosesWithin(walk, edges, e) ==
  \A next \in DOMAIN edges, s \in Searches(DOMAIN edges) :
    Open(s) \subseteq Open(e) /\ Ahead(edges, s, next) => Closed(edges, walk[next][s].cycle)

LEMMA LookCloses ==
  ASSUME NEW edges, NEW e \in Searches(DOMAIN edges), NEW walk, ClosesWithin(walk, edges, e),
         NEW s \in Searches(DOMAIN edges), NEW next \in DOMAIN edges, Open(s) \subseteq Open(e),
         Closed(edges, s.cycle),
         s.cycle = <<>> => Path(edges, s.stack) /\ s.stack # <<>> /\ Below(edges, s.stack, next)
  PROVE  Closed(edges, Look(walk, s, next).cycle)
<1>. DEFINE N == DOMAIN edges
            r == Look(walk, s, next)
<1>1. /\ s.state \in [N -> {Unvisited, Visiting, Done}] /\ s.stack \in Seq(N) /\ s.cycle \in Seq(N)
      /\ \A n \in N : s.state[n] = Visiting => n \in Range(s.stack)
  BY DEF Searches
<1>2. CASE s.cycle # <<>>
  BY <1>2 DEF Look
<1>3. CASE s.cycle = <<>> /\ s.state[next] = Unvisited
  <2>1. r = walk[next][s]
    BY <1>3 DEF Look, Unvisited, Visiting
  <2>2. Ahead(edges, s, next)
    BY <1>3 DEF Ahead
  <2>. QED  BY <2>1, <2>2 DEF ClosesWithin
<1>4. CASE s.cycle = <<>> /\ s.state[next] = Visiting
  <2>. DEFINE k == CHOOSE k \in DOMAIN s.stack : s.stack[k] = next
              cycle == SubSeq(s.stack, k, Len(s.stack))
  <2>1. r = [s EXCEPT !.cycle = cycle]
    BY <1>4, Zenon DEF Look, Unvisited, Visiting
  <2>2. k \in 1 .. Len(s.stack) /\ s.stack[k] = next
    BY <1>1, <1>4 DEF Range
  <2>3. Closed(edges, cycle)
    <3>1. next \in Range(edges[s.stack[Len(s.stack)]]) /\ Path(edges, s.stack)
      BY <1>4 DEF Below
    <3>. HIDE DEF k
    <3>. QED  BY <1>1, <2>2, <3>1, PathCloses
  <2>. HIDE DEF cycle
  <2>4. r.cycle = cycle
    BY <2>1 DEF Searches
  <2>. QED  BY <2>3, <2>4
<1>5. CASE s.cycle = <<>> /\ s.state[next] = Done
  BY <1>5 DEF Look, Unvisited, Visiting, Done
<1>. QED  BY <1>1, <1>2, <1>3, <1>4, <1>5

LEMMA NothingClosed ==
  ASSUME NEW edges
  PROVE  Closed(edges, <<>>) /\ Path(edges, <<>>)
  BY DEF Closed, Path

(* Looking at the dependencies of a node in turn. *)
LEMMA LookedCloses ==
  ASSUME NEW edges, NEW e \in Searches(DOMAIN edges), NEW walk, WalksWithin(walk, edges, e),
         ClosesWithin(walk, edges, e), e.cycle = <<>>, e.stack # <<>>, Path(edges, e.stack),
         NEW list \in Seq(DOMAIN edges), list = edges[e.stack[Len(e.stack)]]
  PROVE  Closed(edges, Looked(walk, e, list).cycle)
<1>1. PICK h : /\ h[0] = e
               /\ \A i \in 1 .. Len(list) : h[i] = Look(walk, h[i - 1], list[i])
               /\ Looked(walk, e, list) = h[Len(list)]
  BY LooksInTurn
<1>2. \A i \in 0 .. Len(list) :
           /\ h[i] \in Searches(DOMAIN edges) /\ Open(h[i]) \subseteq Open(e)
           /\ h[i].cycle = <<>> => Onward(edges, e, h[i])
  BY <1>1, LooksKeep
<1>3. /\ Len(list) \in Nat
      /\ \A i \in 1 .. Len(list) : list[i] \in DOMAIN edges /\ list[i] \in Range(list)
  <2>1. Len(list) \in Nat /\ DOMAIN list = 1 .. Len(list)
    BY LenProperties
  <2>2. \A i \in 1 .. Len(list) : list[i] \in DOMAIN edges
    BY <2>1, ElementOfSeq
  <2>. QED  BY <2>1, <2>2 DEF Range
<1>. DEFINE A == {i \in Nat : i <= Len(list) => Closed(edges, h[i].cycle)}
<1>4. 0 \in A
  BY <1>1, NothingClosed
<1>5. ASSUME NEW n \in Nat, n \in A  PROVE n + 1 \in A
  <2>. SUFFICES ASSUME n + 1 <= Len(list) PROVE Closed(edges, h[n + 1].cycle)
    OBVIOUS
  <2>1. n + 1 \in 1 .. Len(list) /\ (n + 1) - 1 = n /\ n \in 0 .. Len(list)
    BY <1>3
  <2>2. h[n + 1] = Look(walk, h[n], list[n + 1]) /\ list[n + 1] \in DOMAIN edges
    BY <1>1, <1>3, <2>1
  <2>3. Closed(edges, h[n].cycle)
    BY <1>5, <2>1
  <2>4. /\ h[n] \in Searches(DOMAIN edges) /\ Open(h[n]) \subseteq Open(e)
        /\ h[n].cycle = <<>> => Onward(edges, e, h[n])
    BY <1>2, <2>1
  <2>5. h[n].cycle = <<>> =>
          Path(edges, h[n].stack) /\ h[n].stack # <<>> /\ Below(edges, h[n].stack, list[n + 1])
    <3>1. h[n].cycle = <<>> => h[n].stack = e.stack
      BY <2>4 DEF Onward
    <3>2. Below(edges, e.stack, list[n + 1])
      BY <1>3, <2>1 DEF Below
    <3>. QED  BY <3>1, <3>2
  <2>. QED  BY <2>2, <2>3, <2>4, <2>5, LookCloses
<1>6. Closed(edges, h[Len(list)].cycle)
  <2>1. Nat \subseteq A
    <3>. HIDE DEF A
    <3>. QED  BY <1>4, <1>5, Reaches
  <2>. QED  BY <1>3, <2>1
<1>. QED  BY <1>1, <1>6

(* The same of the parts that a path needs. *)
LEMMA Entered ==
  ASSUME NEW edges, NEW at \in Searches(DOMAIN edges), NEW node \in DOMAIN edges
  PROVE  /\ Enter(at, node) \in Searches(DOMAIN edges)
         /\ Enter(at, node).stack = Append(at.stack, node) /\ Enter(at, node).cycle = at.cycle
         /\ Open(Enter(at, node)) = Open(at) \ {node}
<1>. DEFINE e == Enter(at, node)
<1>1. /\ e \in Searches(DOMAIN edges) /\ e.cycle = at.cycle
      /\ e.stack = Append(at.stack, node) /\ e.state = [at.state EXCEPT ![node] = Visiting]
      /\ Open(e) = Open(at) \ {node}
  BY Entering
<1>. QED  BY <1>1

(* One node further the stack is still a path. *)
LEMMA EnteringPath ==
  ASSUME NEW edges, NEW at \in Searches(DOMAIN edges), NEW node \in DOMAIN edges,
         Path(edges, at.stack), Below(edges, at.stack, node)
  PROVE  LET e == Enter(at, node)
         IN e.stack # <<>> /\ e.stack[Len(e.stack)] = node /\ Path(edges, e.stack)
<1>. DEFINE e == Enter(at, node)
            stack == Append(at.stack, node)
<1>1. e.stack = stack /\ at.stack \in Seq(DOMAIN edges)
  <2>1. e.stack = stack
    BY Entered
  <2>. QED  BY <2>1 DEF Searches
<1>2. /\ Len(at.stack) \in Nat /\ Len(stack) = Len(at.stack) + 1
      /\ \A k \in 1 .. Len(at.stack) : stack[k] = at.stack[k]
      /\ stack[Len(at.stack) + 1] = node /\ stack # <<>>
  BY <1>1, AppendProperties, LenProperties
<1>. HIDE DEF stack
<1>3. ASSUME NEW k \in 1 .. Len(stack) - 1
      PROVE  stack[k + 1] \in Range(edges[stack[k]])
  <2>1. k \in 1 .. Len(at.stack) /\ stack[k] = at.stack[k]
    BY <1>2
  <2>2. CASE k = Len(at.stack)
    <3>1. at.stack # <<>>
      BY <2>1
    <3>2. node \in Range(edges[at.stack[Len(at.stack)]])
      BY <3>1 DEF Below
    <3>. QED  BY <1>2, <2>1, <2>2, <3>2
  <2>3. CASE k # Len(at.stack)
    <3>1. k \in 1 .. Len(at.stack) - 1 /\ k + 1 \in 1 .. Len(at.stack)
      BY <1>2, <2>1, <2>3
    <3>2. stack[k + 1] = at.stack[k + 1]
      BY <1>2, <3>1
    <3>. QED  BY <2>1, <3>1, <3>2 DEF Path
  <2>. QED  BY <2>2, <2>3
<1>4. Path(edges, stack)
  BY <1>3 DEF Path
<1>5. stack[Len(stack)] = node
  BY <1>2
<1>. HIDE DEF e
<1>6. e.stack # <<>> /\ e.stack[Len(e.stack)] = node /\ Path(edges, e.stack)
  BY <1>1, <1>2, <1>4, <1>5
<1>. QED  BY <1>6 DEF e

(* And all the walks that have at most n nodes to visit. *)
Closes(walk, edges, n) ==
  \A next \in DOMAIN edges, s \in Searches(DOMAIN edges) :
    Cardinality(Open(s)) <= n /\ Ahead(edges, s, next) => Closed(edges, walk[next][s].cycle)

(* Whatever a walk names is a cycle, wherever it starts on a path. *)
LEMMA WalkCloses ==
  ASSUME NEW edges, IsFiniteSet(DOMAIN edges), edges \in [DOMAIN edges -> Seq(DOMAIN edges)],
         NEW node \in DOMAIN edges, NEW at \in Searches(DOMAIN edges), Ahead(edges, at, node)
  PROVE  Closed(edges, Walk(edges)[node][at].cycle)
<1>. DEFINE N == DOMAIN edges
            S == Searches(DOMAIN edges)
            w == Walk(edges)
            A == {n \in Nat : Closes(w, edges, n)}
<1>1. \A next \in N, s \in S :
        /\ w[next][s] = Walked(w, edges, next, s)
        /\ s.state[next] = Unvisited /\ s.cycle = <<>> => Came(edges, s, next, w[next][s])
  BY WalkCame
<1>. HIDE DEF w
<1>2. \A s \in S : Cardinality(Open(s)) \in Nat
  BY OpenFinite
<1>3. \A next \in N, s \in S : s.state[next] = Unvisited => Cardinality(Open(s)) # 0
  <2>. TAKE next \in N, s \in S
  <2>. HAVE s.state[next] = Unvisited
  <2>1. next \in Open(s) /\ IsFiniteSet(Open(s))
    BY OpenFinite DEF Open, Searches
  <2>. QED  BY <2>1, FS_EmptySet
<1>4. 0 \in A
  <2>1. \A next \in N, s \in S : ~(Cardinality(Open(s)) <= 0 /\ s.state[next] = Unvisited)
    BY <1>2, <1>3
  <2>2. Closes(w, edges, 0)
    BY <2>1 DEF Closes, Ahead
  <2>. QED  BY <2>2
<1>5. ASSUME NEW n \in Nat, n \in A  PROVE n + 1 \in A
  <2>0. SUFFICES ASSUME NEW next \in N, NEW s \in S, Cardinality(Open(s)) <= n + 1,
                        Ahead(edges, s, next)
                 PROVE  Closed(edges, w[next][s].cycle)
    BY DEF Closes
  <2>. DEFINE e == Enter(s, next)
              l == Looked(w, e, edges[next])
  <2>1. e \in S /\ e.cycle = <<>> /\ Open(e) = Open(s) \ {next}
    <3>1. s.cycle = <<>>
      BY <2>0 DEF Ahead
    <3>2. e \in Searches(DOMAIN edges) /\ e.cycle = s.cycle /\ Open(e) = Open(s) \ {next}
      BY Entered
    <3>. QED  BY <3>1, <3>2
  <2>2. e.stack # <<>> /\ e.stack[Len(e.stack)] = next /\ Path(edges, e.stack)
    BY <2>0, EnteringPath DEF Ahead
  <2>. HIDE DEF e
  <2>3. Cardinality(Open(e)) <= n
    <3>1. next \in Open(s)
      BY <2>0 DEF Open, Searches, Ahead
    <3>2. Cardinality(Open(e)) = Cardinality(Open(s)) - 1
      BY <2>1, <3>1, OpenFinite
    <3>. QED  BY <1>2, <2>0, <3>2
  <2>4. WalksWithin(w, edges, e)
    BY <1>1 DEF WalksWithin
  <2>5. ClosesWithin(w, edges, e)
    <3>1. ASSUME NEW m \in N, NEW t \in S, Open(t) \subseteq Open(e)
          PROVE  Cardinality(Open(t)) <= n
      <4>1. Open(t) \in SUBSET Open(e)
        BY <3>1
      <4>2. Cardinality(Open(t)) <= Cardinality(Open(e))
        BY <2>1, <4>1, OpenFinite
      <4>3. Cardinality(Open(t)) \in Nat /\ Cardinality(Open(e)) \in Nat
        BY <1>2, <2>1
      <4>. QED  BY <2>3, <4>2, <4>3
    <3>2. Closes(w, edges, n)
      BY <1>5
    <3>. QED  BY <3>1, <3>2 DEF ClosesWithin, Closes
  <2>6. Closed(edges, l.cycle)
    <3>1. edges[next] \in Seq(DOMAIN edges)
      OBVIOUS
    <3>. QED  BY <2>1, <2>2, <2>4, <2>5, <3>1, LookedCloses
  <2>7. w[next][s] = IF l.cycle # <<>> THEN l ELSE Leave(l, next)
    <3>1. Walked(w, edges, next, s) = IF l.cycle # <<>> THEN l ELSE Leave(l, next)
      BY Zenon DEF Walked, e
    <3>. QED  BY <1>1, <3>1
  <2>8. l \in S
    BY <2>1, <2>4, LookedKeeps
  <2>. HIDE DEF l
  <2>9. CASE l.cycle = <<>>
    <3>1. Leave(l, next).cycle = l.cycle
      BY <2>8 DEF Leave, Searches
    <3>. QED  BY <2>6, <2>7, <2>9, <3>1
  <2>10. CASE l.cycle # <<>>
    BY <2>6, <2>7, <2>10
  <2>. QED  BY <2>9, <2>10
<1>6. Closes(w, edges, Cardinality(Open(at)))
  <2>1. Nat \subseteq A
    <3>. HIDE DEF A
    <3>. QED  BY <1>4, <1>5, Reaches
  <2>. QED  BY <1>2, <2>1
<1>7. Closed(edges, w[node][at].cycle)
  BY <1>2, <1>6 DEF Closes
<1>. QED  BY <1>7 DEF w

(* What the search of plan.py:785 reports is a cycle: each of the steps it names
   depends on the next and the last on the first, so that no plan is refused for
   a cycle it does not have, and the corrective attempt is told which steps to
   break apart. *)
THEOREM CyclesAreReal ==
  ASSUME NEW edges, IsFiniteSet(DOMAIN edges), edges \in [DOMAIN edges -> Seq(DOMAIN edges)]
  PROVE  LET cycle == FindCycle(edges)
         IN /\ cycle \in Seq(DOMAIN edges)
            /\ \A k \in DOMAIN cycle :
                 cycle[IF k = Len(cycle) THEN 1 ELSE k + 1] \in Range(edges[cycle[k]])
<1>. DEFINE N == DOMAIN edges
            S == Searches(N)
            walk == Walk(edges)
            start == [state |-> [n \in N |-> Unvisited], stack |-> <<>>, cycle |-> <<>>]
            list == CHOOSE keys \in Bijection(1 .. Cardinality(N), N) : TRUE
            end == Begun(walk, start, list)
            Fine(s) == s \in S /\ Closed(edges, s.cycle) /\ (s.cycle = <<>> => s.stack = <<>>)
<1>1. list \in Seq(N)
  BY Enumerated
<1>2. FindCycle(edges) = end.cycle
  BY Zenon DEF FindCycle
<1>3. \A node \in N, at \in S : at.state[node] = Unvisited /\ at.cycle = <<>> =>
        /\ Came(edges, at, node, walk[node][at])
        /\ at.stack = <<>> => Closed(edges, walk[node][at].cycle)
  <2>. TAKE node \in N, at \in S
  <2>. HAVE at.state[node] = Unvisited /\ at.cycle = <<>>
  <2>1. Came(edges, at, node, walk[node][at])
    BY WalkCame
  <2>2. ASSUME at.stack = <<>> PROVE Closed(edges, walk[node][at].cycle)
    <3>1. Ahead(edges, at, node)
      BY <2>2, NothingClosed DEF Below, Ahead
    <3>. QED  BY <3>1, WalkCloses
  <2>. QED  BY <2>1, <2>2
<1>4. Fine(start)
  <2>1. start \in S
    BY DEF Searches, Unvisited, Visiting
  <2>. QED  BY <2>1, NothingClosed
<1>. HIDE DEF walk, start, list, S
<1>5. PICK h : /\ h[0] = start
               /\ \A i \in 1 .. Len(list) : h[i] = Begin(walk, h[i - 1], list[i])
               /\ end = h[Len(list)]
  BY <1>1, BeginsInTurn
<1>. HIDE DEF end
<1>6. Len(list) \in Nat /\ \A i \in 1 .. Len(list) : list[i] \in N
  BY <1>1, LenProperties, ElementOfSeq
<1>. DEFINE A == {i \in Nat : i <= Len(list) => Fine(h[i])}
<1>7. 0 \in A
  BY <1>4, <1>5
<1>8. ASSUME NEW n \in Nat, n \in A  PROVE n + 1 \in A
  <2>. SUFFICES ASSUME n + 1 <= Len(list) PROVE Fine(h[n + 1])
    OBVIOUS
  <2>. DEFINE s == h[n]
              r == h[n + 1]
              node == list[n + 1]
  <2>1. Fine(s)
    BY <1>6, <1>8
  <2>2. node \in N /\ r = Begin(walk, s, node)
    <3>1. n + 1 \in 1 .. Len(list) /\ (n + 1) - 1 = n
      BY <1>6
    <3>. QED  BY <1>5, <1>6, <3>1
  <2>. HIDE DEF s, r
  <2>3. CASE s.cycle = <<>> /\ s.state[node] = Unvisited
    <3>1. r = walk[node][s]
      BY <2>2, <2>3 DEF Begin
    <3>2. Came(edges, s, node, r) /\ Closed(edges, r.cycle)
      BY <1>3, <2>1, <2>2, <2>3, <3>1
    <3>3. r \in S /\ (r.cycle = <<>> => r.stack = <<>>)
      BY <2>1, <2>3, <3>2 DEF Came, Onward, S
    <3>. QED  BY <3>2, <3>3 DEF r
  <2>4. CASE ~(s.cycle = <<>> /\ s.state[node] = Unvisited)
    <3>1. r = s
      BY <2>2, <2>4 DEF Begin
    <3>. QED  BY <2>1, <3>1 DEF r
  <2>. QED  BY <2>3, <2>4
<1>9. Fine(end)
  <2>1. Nat \subseteq A
    <3>. HIDE DEF A
    <3>. QED  BY <1>7, <1>8, Reaches
  <2>. QED  BY <1>5, <1>6, <2>1
<1>10. end.cycle \in Seq(N)
  BY <1>9 DEF S, Searches
<1>. QED  BY <1>2, <1>9, <1>10 DEF Closed

(* The elements that are kept are picked one after the other. *)
LEMMA AmongInTurn ==
  ASSUME NEW S, NEW list \in Seq(S), NEW kept
  PROVE  \E h : /\ h[0] = <<>>
                /\ \A i \in 1 .. Len(list) :
                     h[i] = IF list[i] \in kept THEN Append(h[i - 1], list[i]) ELSE h[i - 1]
                /\ Among(list, kept) = h[Len(list)]
<1>. DEFINE Turn(f, i) ==
       IF i = 0 THEN <<>>
       ELSE IF list[i] \in kept THEN Append(f[i - 1], list[i]) ELSE f[i - 1]
            A == {n \in Nat : \E f : f = [i \in 0 .. n |-> Turn(f, i)]}
<1>1. Len(list) \in Nat
  BY LenProperties
<1>2. 0 \in A
  <2>. DEFINE f == [i \in 0 .. 0 |-> <<>>]
  <2>1. f = [i \in 0 .. 0 |-> Turn(f, i)]
    OBVIOUS
  <2>. HIDE DEF Turn, f
  <2>. QED  BY <2>1
<1>3. ASSUME NEW n \in Nat, n \in A  PROVE n + 1 \in A
  <2>1. PICK f : f = [i \in 0 .. n |-> Turn(f, i)]
    BY <1>3
  <2>. DEFINE g == [i \in 0 .. n + 1 |-> Turn(f, i)]
  <2>2. \A i \in 0 .. n : g[i] = f[i]
    <3>. HIDE DEF Turn
    <3>. QED  BY <2>1
  <2>3. \A i \in 0 .. n + 1 : Turn(f, i) = Turn(g, i)
    <3>. TAKE i \in 0 .. n + 1
    <3>1. CASE i = 0
      BY <3>1
    <3>2. CASE i # 0
      <4>1. i - 1 \in 0 .. n
        BY <3>2
      <4>2. f[i - 1] = g[i - 1]
        <5>. HIDE DEF g
        <5>. QED  BY <2>2, <4>1
      <4>. HIDE DEF g
      <4>. QED  BY <4>2
    <3>. QED  BY <3>1, <3>2
  <2>4. g = [i \in 0 .. n + 1 |-> Turn(g, i)]
    <3>. HIDE DEF Turn
    <3>. QED  BY <2>3
  <2>. HIDE DEF Turn, g
  <2>. QED  BY <2>4
<1>4. \E f : f = [i \in 0 .. Len(list) |-> Turn(f, i)]
  <2>1. Nat \subseteq A
    <3>. HIDE DEF A
    <3>. QED  BY <1>2, <1>3, Reaches
  <2>2. Len(list) \in A
    <3>. HIDE DEF A
    <3>. QED  BY <1>1, <2>1
  <2>. HIDE DEF Turn
  <2>. QED  BY <2>2
<1>. DEFINE h == CHOOSE f : f = [i \in 0 .. Len(list) |-> Turn(f, i)]
<1>5. Among(list, kept) = h[Len(list)]
  BY Zenon DEF Among
<1>6. h = [i \in 0 .. Len(list) |-> Turn(h, i)]
  <2>. HIDE DEF Turn
  <2>. QED  BY <1>4
<1>. HIDE DEF h
<1>7. /\ h[0] = <<>>
      /\ \A i \in 1 .. Len(list) :
           h[i] = IF list[i] \in kept THEN Append(h[i - 1], list[i]) ELSE h[i - 1]
  <2>1. \A i \in 0 .. Len(list) : h[i] = Turn(h, i)
    <3>. HIDE DEF Turn
    <3>. QED  BY <1>6
  <2>2. h[0] = <<>>
    BY <1>1, <2>1
  <2>3. \A i \in 1 .. Len(list) : i \in 0 .. Len(list) /\ i # 0
    BY <1>1
  <2>. QED  BY <2>1, <2>2, <2>3
<1>. QED  BY <1>5, <1>7

(* What is among the kept is what is on the list and kept, and all of a list of
   which everything is. *)
LEMMA AmongKept ==
  ASSUME NEW S, NEW list \in Seq(S), NEW kept
  PROVE  /\ Among(list, kept) \in Seq(S) /\ Range(Among(list, kept)) = Range(list) \cap kept
         /\ Range(list) \subseteq kept => Among(list, kept) = list
<1>1. PICK h : /\ h[0] = <<>>
               /\ \A i \in 1 .. Len(list) :
                    h[i] = IF list[i] \in kept THEN Append(h[i - 1], list[i]) ELSE h[i - 1]
               /\ Among(list, kept) = h[Len(list)]
  BY AmongInTurn
<1>2. /\ Len(list) \in Nat /\ DOMAIN list = 1 .. Len(list)
      /\ \A i \in 1 .. Len(list) : list[i] \in S
  OBVIOUS
<1>. DEFINE Kept(i) ==
       /\ h[i] \in Seq(S) /\ Range(h[i]) = {list[j] : j \in 1 .. i} \cap kept
       /\ Range(list) \subseteq kept => Len(h[i]) = i /\ \A j \in 1 .. i : h[i][j] = list[j]
     A == {i \in Nat : i <= Len(list) => Kept(i)}
<1>3. 0 \in A
  <2>1. Kept(0)
    <3>1. Range(<<>>) = {} /\ <<>> \in Seq(S) /\ Len(<<>>) = 0
      BY DEF Range
    <3>. QED  BY <1>1, <3>1
  <2>. QED  BY <2>1
<1>4. ASSUME NEW n \in Nat, n \in A  PROVE n + 1 \in A
  <2>. SUFFICES ASSUME n + 1 <= Len(list) PROVE Kept(n + 1)
    OBVIOUS
  <2>. DEFINE x == list[n + 1]
              before == h[n]
  <2>1. Kept(n) /\ n + 1 \in 1 .. Len(list) /\ (n + 1) - 1 = n /\ x \in S /\ x \in Range(list)
    <3>1. n <= Len(list) /\ n + 1 \in 1 .. Len(list) /\ (n + 1) - 1 = n
      BY <1>2
    <3>2. Kept(n)
      <4>. HIDE DEF Kept
      <4>. QED  BY <1>4, <3>1
    <3>3. x \in S /\ x \in Range(list)
      BY <1>2, <3>1 DEF Range
    <3>. HIDE DEF Kept
    <3>. QED  BY <3>1, <3>2, <3>3
  <2>2. h[n + 1] = IF x \in kept THEN Append(before, x) ELSE before
    BY <1>1, <2>1
  <2>3. 1 .. n + 1 = 1 .. n \cup {n + 1}
    OBVIOUS
  <2>4. {list[j] : j \in 1 .. n + 1} = {list[j] : j \in 1 .. n} \cup {x}
    BY <2>3
  <2>5. /\ before \in Seq(S) /\ Range(before) = {list[j] : j \in 1 .. n} \cap kept
        /\ Range(list) \subseteq kept => Len(before) = n /\ \A j \in 1 .. n : before[j] = list[j]
    BY <2>1
  <2>. HIDE DEF before, x
  <2>6. CASE x \in kept
    <3>. DEFINE after == Append(before, x)
    <3>1. /\ after \in Seq(S) /\ Len(after) = Len(before) + 1 /\ Len(before) \in Nat
          /\ DOMAIN after = 1 .. Len(before) + 1 /\ DOMAIN before = 1 .. Len(before)
          /\ \A k \in 1 .. Len(before) : after[k] = before[k]
          /\ after[Len(before) + 1] = x
      BY <2>1, <2>5, AppendProperties, LenProperties
    <3>. HIDE DEF after
    <3>2. Range(after) = Range(before) \cup {x}
      <4>1. \A k \in DOMAIN after : k \in DOMAIN before \/ k = Len(before) + 1
        BY <3>1
      <4>2. \A k \in DOMAIN before : k \in DOMAIN after
        BY <3>1
      <4>3. Len(before) + 1 \in DOMAIN after
        BY <3>1
      <4>. QED  BY <3>1, <4>1, <4>2, <4>3 DEF Range
    <3>3. h[n + 1] = after
      BY <2>2, <2>6 DEF after
    <3>4. Range(h[n + 1]) = {list[j] : j \in 1 .. n + 1} \cap kept
      BY <2>4, <2>5, <2>6, <3>2, <3>3
    <3>5. ASSUME Range(list) \subseteq kept
          PROVE  Len(after) = n + 1 /\ \A j \in 1 .. n + 1 : after[j] = list[j]
      <4>1. Len(before) = n /\ \A j \in 1 .. n : before[j] = list[j]
        BY <2>5, <3>5
      <4>2. \A j \in 1 .. n + 1 : j \in 1 .. n \/ j = n + 1
        OBVIOUS
      <4>. QED  BY <3>1, <4>1, <4>2 DEF x
    <3>. QED  BY <3>1, <3>3, <3>4, <3>5
  <2>7. CASE x \notin kept
    <3>1. h[n + 1] = before
      BY <2>2, <2>7
    <3>. QED  BY <2>1, <2>4, <2>5, <2>7, <3>1
  <2>. QED  BY <2>6, <2>7
<1>5. Kept(Len(list))
  <2>1. Nat \subseteq A
    <3>. HIDE DEF A
    <3>. QED  BY <1>3, <1>4, Reaches
  <2>2. Len(list) \in A
    <3>. HIDE DEF A
    <3>. QED  BY <1>2, <2>1
  <2>. HIDE DEF Kept
  <2>. QED  BY <1>2, <2>2
<1>6. {list[j] : j \in 1 .. Len(list)} = Range(list)
  BY <1>2 DEF Range
<1>7. ASSUME Range(list) \subseteq kept  PROVE Among(list, kept) = list
  <2>1. /\ h[Len(list)] \in Seq(S) /\ Len(h[Len(list)]) = Len(list)
        /\ \A j \in 1 .. Len(list) : h[Len(list)][j] = list[j]
    BY <1>5, <1>7
  <2>. QED  BY <1>1, <1>2, <2>1, SeqEqual
<1>. QED  BY <1>1, <1>5, <1>6, <1>7

(* A plan that can be run to its end: of any of its steps one depends on none of
   the others. *)
Runnable(plan) ==
  /\ plan.order \in Seq(StepIds(plan)) /\ StepIds(plan) # {}
  /\ plan.after \in [StepIds(plan) -> SUBSET StepIds(plan)]
  /\ \A B \in SUBSET StepIds(plan) : B # {} => \E s \in B : plan.after[s] \cap B = {}

(* And one whose steps are within what the caller declared. *)
SoundPlan(plan, ids, declared) ==
  /\ Runnable(plan) /\ StepIds(plan) \subseteq ids /\ DOMAIN plan.steps = StepIds(plan)
  /\ \A s \in StepIds(plan) :
       /\ plan.steps[s].tier \in Tier /\ plan.steps[s].tools \subseteq declared.tools
       /\ plan.steps[s].class \in Class /\ ~(plan.steps[s].class > declared.class)

LEMMA ListsAreFinite ==
  ASSUME NEW list, IsList(list)
  PROVE  /\ Len(list) \in Nat /\ DOMAIN list = 1 .. Len(list) /\ IsFiniteSet(Range(list))
         /\ \A k \in DOMAIN list : list[k] \in Range(list)
<1>1. list \in Seq(Range(list))
  BY DEF IsList
<1>2. Len(list) \in Nat /\ DOMAIN list = 1 .. Len(list)
  BY <1>1, LenProperties
<1>3. list \in Surjection(DOMAIN list, Range(list))
  <2>1. list \in [DOMAIN list -> Range(list)]
    BY <1>1, <1>2
  <2>. QED  BY <2>1 DEF Surjection, Range
<1>4. IsFiniteSet(DOMAIN list)
  BY <1>2, FS_Interval
<1>. QED  BY <1>2, <1>3, <1>4, FS_Surjection DEF Range

(* Where nothing is wrong with a raw step its fields are there and fine. *)
LEMMA RawIsFine ==
  ASSUME NEW ids, NEW raw, IsRaw(raw, ids), StepIssues(raw) = {}
  PROVE  raw.step_id \in ids /\ IsList(raw.depends_on) /\ raw.data_classification \in Class
<1>1. raw # Malformed
  BY DEF StepIssues
<1>2. StepFields \subseteq DOMAIN raw /\ \A f \in StepFields : Shape(raw, f) = "fine"
  <2>. DEFINE missing == {Issue("missing_field", f, StepLabel(raw)) : f \in StepFields \ DOMAIN raw}
              misshapen == {Issue(Shape(raw, f), f, StepLabel(raw)) :
                  f \in {f \in StepFields \cap DOMAIN raw : Shape(raw, f) # "fine"}}
  <2>1. missing = {} /\ misshapen = {}
    <3>. HIDE DEF StepFields
    <3>. QED  BY <1>1 DEF StepIssues
  <2>2. StepFields \subseteq DOMAIN raw
    BY <2>1
  <2>3. {f \in StepFields \cap DOMAIN raw : Shape(raw, f) # "fine"} = {}
    BY <2>1
  <2>. QED  BY <2>2, <2>3
<1>3. {"step_id", "depends_on", "data_classification"} \subseteq StepFields
  BY DEF StepFields
<1>4. /\ raw.step_id \in ids \cup {Malformed, Overlong}
      /\ raw.depends_on = Malformed \/ IsList(raw.depends_on)
      /\ raw.data_classification \in Class \cup {Malformed}
  BY <1>1, <1>2, <1>3 DEF IsRaw
<1>5. IdShape(raw) = "fine" /\ TextShape(raw, "depends_on") = "fine" /\ ClassShape(raw) = "fine"
  BY <1>2, <1>3 DEF Shape
<1>6. raw.step_id # Malformed /\ raw.step_id # Overlong
  BY <1>5 DEF IdShape
<1>7. raw.depends_on # Malformed /\ raw.data_classification # Malformed
  BY <1>5 DEF TextShape, ClassShape
<1>. QED  BY <1>4, <1>6, <1>7

(* Where nothing is wrong with a document its list of steps is used as it is. *)
LEMMA DocumentIsFine ==
  ASSUME NEW document, NEW ids, IsDocument(document, ids), NEW declared, NEW maxSteps,
         Issues(document, declared, maxSteps) = {}
  PROVE  LET steps == document.fields.steps
         IN /\ IsList(steps) /\ steps # <<>>
            /\ \A k \in DOMAIN steps : /\ steps[k].step_id \in ids /\ IsList(steps[k].depends_on)
                                       /\ steps[k].data_classification \in Class
            /\ IdIssues(steps) = {} /\ DeclarationIssues(steps, declared) = {} /\ DagIssues(steps) = {}
<1>. DEFINE raws == document.fields.steps
            fine == {raw \in Range(raws) : StepIssues(raw) = {}}
<1>1. document.text = "object"
  <2>1. ParseIssues(document) = {}
    BY DEF Issues
  <2>2. document.text # "not json" /\ document.text # "array"
    BY <2>1 DEF ParseIssues
  <2>. QED  BY <2>2 DEF IsDocument
<1>2. ListIssues(document.fields, maxSteps) = {}
  <2>. SUFFICES ASSUME ListIssues(document.fields, maxSteps) # {} PROVE FALSE
    OBVIOUS
  <2>. QED  BY <1>1 DEF Issues
<1>3. "steps" \in DOMAIN document.fields /\ raws # Malformed /\ raws # <<>>
  BY <1>2 DEF ListIssues
<1>4. IsList(raws) /\ \A raw \in Range(raws) : IsRaw(raw, ids)
  BY <1>1, <1>3 DEF IsDocument
<1>5. /\ \A k \in DOMAIN raws : StepIssues(raws[k]) = {}
      /\ IdIssues(WellFormed(raws)) = {} /\ DeclarationIssues(WellFormed(raws), declared) = {}
      /\ DagIssues(WellFormed(raws)) = {}
  <2>1. (UNION {StepIssues(raws[k]) : k \in DOMAIN raws}) \cup IdIssues(WellFormed(raws))
          \cup DeclarationIssues(WellFormed(raws), declared) \cup DagIssues(WellFormed(raws)) = {}
    BY <1>1, <1>2 DEF Issues
  <2>2. /\ IdIssues(WellFormed(raws)) = {} /\ DeclarationIssues(WellFormed(raws), declared) = {}
        /\ DagIssues(WellFormed(raws)) = {}
    BY <2>1
  <2>3. \A k \in DOMAIN raws : StepIssues(raws[k]) = {}
    BY <2>1
  <2>. QED  BY <2>2, <2>3
<1>6. \A k \in DOMAIN raws : raws[k] \in Range(raws)
  BY <1>4, ListsAreFinite
<1>7. WellFormed(raws) = raws
  <2>1. Range(raws) \subseteq fine
    BY <1>5 DEF Range
  <2>2. raws \in Seq(Range(raws))
    BY <1>4 DEF IsList
  <2>3. Among(raws, fine) = raws
    <3>. HIDE DEF raws, fine
    <3>. QED  BY <2>1, <2>2, AmongKept
  <2>. QED  BY <2>3 DEF WellFormed
<1>. HIDE DEF raws
<1>8. \A k \in DOMAIN raws : /\ raws[k].step_id \in ids /\ IsList(raws[k].depends_on)
                             /\ raws[k].data_classification \in Class
  BY <1>4, <1>5, <1>6, RawIsFine
<1>. QED  BY <1>3, <1>4, <1>5, <1>7, <1>8 DEF raws

(* validate_plan_document (plan.py): a document nothing is wrong with gives a plan
   as declared, of which every step names steps of the plan only, and no steps
   wait for one another. *)
THEOREM ValidPlansAreSound ==
  ASSUME NEW document, NEW ids, IsDocument(document, ids), NEW declared, NEW maxSteps,
         declared.class \in Class, Issues(document, declared, maxSteps) = {}
  PROVE  SoundPlan(PlanOf(document), ids, declared)
<1>. DEFINE steps == document.fields.steps
            plan == PlanOf(document)
            known == {steps[k].step_id : k \in DOMAIN steps}
            edges == EdgesOf(steps)
<1>1. /\ IsList(steps) /\ steps # <<>>
      /\ \A k \in DOMAIN steps : /\ steps[k].step_id \in ids /\ IsList(steps[k].depends_on)
                                 /\ steps[k].data_classification \in Class
      /\ IdIssues(steps) = {} /\ DeclarationIssues(steps, declared) = {} /\ DagIssues(steps) = {}
  BY DocumentIsFine
<1>2. /\ plan.order = [k \in DOMAIN steps |-> steps[k].step_id]
      /\ plan.steps = [id \in known |-> [tier |-> LastNamed(steps, id).tier,
                                         class |-> LastNamed(steps, id).data_classification,
                                         tools |-> LastNamed(steps, id).tools]]
      /\ plan.after = [id \in known |-> Range(LastNamed(steps, id).depends_on)]
  BY DEF PlanOf
<1>. HIDE DEF steps, plan
<1>3. Len(steps) \in Nat \ {0} /\ DOMAIN steps = 1 .. Len(steps)
  <2>1. Len(steps) \in Nat /\ DOMAIN steps = 1 .. Len(steps)
    BY <1>1, ListsAreFinite
  <2>2. Len(steps) # 0
    BY <1>1 DEF IsList
  <2>. QED  BY <2>1, <2>2
<1>4. \A k \in DOMAIN steps : \A j \in 1 .. k - 1 : steps[j].step_id # steps[k].step_id
  <2>1. {k \in DOMAIN steps : \E j \in 1 .. k - 1 : steps[j].step_id = steps[k].step_id} = {}
    BY <1>1 DEF IdIssues
  <2>. QED  BY <2>1
<1>5. \A k \in DOMAIN steps : LastNamed(steps, steps[k].step_id) = steps[k]
  <2>. TAKE k \in DOMAIN steps
  <2>. DEFINE named(i) == /\ steps[i].step_id = steps[k].step_id
                          /\ \A j \in i + 1 .. Len(steps) : steps[j].step_id # steps[k].step_id
              last == CHOOSE i \in DOMAIN steps : named(i)
  <2>1. \A i, j \in DOMAIN steps : i < j => steps[i].step_id # steps[j].step_id
    BY <1>3, <1>4
  <2>2. \A i \in DOMAIN steps : steps[i].step_id = steps[k].step_id => i = k
    BY <1>3, <2>1
  <2>3. named(k)
    <3>1. \A j \in k + 1 .. Len(steps) : j \in DOMAIN steps /\ k < j
      BY <1>3
    <3>. QED  BY <2>1, <3>1
  <2>4. last \in DOMAIN steps /\ named(last)
    <3>. HIDE DEF named
    <3>. QED  BY <2>3
  <2>5. last = k
    <3>. HIDE DEF last
    <3>. QED  BY <2>2, <2>4
  <2>6. LastNamed(steps, steps[k].step_id) = steps[last]
    BY Zenon DEF LastNamed
  <2>. HIDE DEF last
  <2>. QED  BY <2>5, <2>6
<1>6. StepIds(plan) = known /\ known \subseteq ids /\ known # {}
  <2>1. DOMAIN plan.order = DOMAIN steps /\ \A k \in DOMAIN steps : plan.order[k] = steps[k].step_id
    BY <1>2
  <2>2. 1 \in DOMAIN steps
    BY <1>3
  <2>. QED  BY <1>1, <2>1, <2>2 DEF StepIds
<1>7. plan.order \in Seq(known)
  <2>1. plan.order \in [1 .. Len(steps) -> known]
    BY <1>2, <1>3
  <2>. QED  BY <1>3, <2>1, SeqDef
<1>8. \A k \in DOMAIN steps : /\ steps[k].tier \in Tier /\ steps[k].tools \subseteq declared.tools
                             /\ ~(steps[k].data_classification > declared.class)
  <2>. TAKE k \in DOMAIN steps
  <2>. DEFINE step == steps[k]
              refused(reason, field, wrong) ==
               IF wrong THEN {Issue(reason, field, step.step_id)} ELSE {}
              all == refused("tool_not_allowlisted", "tools", ~(step.tools \subseteq declared.tools))
            \cup refused("tier_not_configured", "tier", step.tier \notin Tier)
            \cup refused("classification_laundering", "data_classification",
                         step.data_classification > declared.class)
  <2>1. \A x \in all : x \in DeclarationIssues(steps, declared)
    BY Zenon DEF DeclarationIssues
  <2>2. all = {}
    <3>. HIDE DEF all
    <3>. QED  BY <1>1, <2>1
  <2>. QED  BY <2>2
<1>9. known = Range(plan.order) /\ IsFiniteSet(known)
  <2>1. known = Range(plan.order)
    BY <1>6 DEF StepIds, Range
  <2>2. IsList(plan.order)
    BY <1>7, <2>1 DEF IsList
  <2>. QED  BY <2>1, <2>2, ListsAreFinite
<1>10. /\ \A k \in DOMAIN steps : Range(steps[k].depends_on) \subseteq known \ {steps[k].step_id}
       /\ FindCycle(edges) = <<>>
  <2>. DEFINE cycle == FindCycle(edges)
              dangling(step, d) ==
                CASE d = step.step_id -> {Issue("self_dependency", "depends_on", step.step_id)}
                  [] d # step.step_id /\ d \notin known ->
                       {Issue("unknown_dependency", "depends_on", step.step_id)}
                  [] OTHER -> {}
              astray(k) == UNION {dangling(steps[k], d) : d \in Range(steps[k].depends_on)}
              cyclic == IF cycle = <<>> THEN {} ELSE {Issue("dependency_cycle", "depends_on", cycle[1])}
  <2>1. DagIssues(steps) = (UNION {astray(k) : k \in DOMAIN steps}) \cup cyclic
    BY Zenon DEF DagIssues
  <2>2. (UNION {astray(k) : k \in DOMAIN steps}) \cup cyclic = {}
    <3>. HIDE DEF cyclic, astray
    <3>. QED  BY <1>1, <2>1
  <2>3. cycle = <<>>
    <3>1. cyclic = {}
      <4>. HIDE DEF astray, cyclic
      <4>. QED  BY <2>2
    <3>. HIDE DEF cycle
    <3>. QED  BY <3>1
  <2>4. ASSUME NEW k \in DOMAIN steps, NEW d \in Range(steps[k].depends_on)
        PROVE  d \in known \ {steps[k].step_id}
    <3>1. astray(k) = {}
      <4>1. ASSUME NEW x \in astray(k)  PROVE FALSE
        <5>. HIDE DEF astray, cyclic
        <5>. QED  BY <2>2, <4>1, Zenon
      <4>. HIDE DEF astray
      <4>. QED  BY <4>1
    <3>2. dangling(steps[k], d) = {}
      <4>1. \A x \in dangling(steps[k], d) : x \in astray(k)
        <5>. HIDE DEF dangling
        <5>. QED  BY Zenon
      <4>. HIDE DEF astray, dangling
      <4>. QED  BY <3>1, <4>1
    <3>3. d # steps[k].step_id
      BY <3>2
    <3>4. d \in known
      <4>. HIDE DEF known
      <4>. QED  BY <3>2, <3>3
    <3>. QED  BY <3>3, <3>4
  <2>. QED  BY <2>3, <2>4
<1>11. \A k \in DOMAIN steps : /\ edges[steps[k].step_id] = steps[k].depends_on
                              /\ steps[k].depends_on \in Seq(known)
                              /\ plan.after[steps[k].step_id] = Range(steps[k].depends_on)
  <2>. TAKE k \in DOMAIN steps
  <2>. DEFINE id == steps[k].step_id
              list == steps[k].depends_on
  <2>1. id \in known /\ list \in Seq(Range(list)) /\ Range(list) \subseteq known \ {id}
    BY <1>1, <1>10 DEF IsList
  <2>2. Among(list, known \ {id}) = list
    <3>. HIDE DEF list, id, known
    <3>. QED  BY <2>1, AmongKept
  <2>3. edges[id] = Among(LastNamed(steps, id).depends_on, known \ {id})
    BY <2>1 DEF EdgesOf
  <2>4. edges[id] = list
    BY <1>5, <2>2, <2>3
  <2>5. list \in Seq(known)
    <3>1. list \in [1 .. Len(list) -> known]
      BY <2>1
    <3>. HIDE DEF list, known
    <3>. QED  BY <2>1, <3>1, SeqDef
  <2>6. plan.after[id] = Range(list)
    BY <1>2, <1>5, <2>1
  <2>. QED  BY <2>4, <2>5, <2>6
<1>12. \A id \in known : \E k \in DOMAIN steps : id = steps[k].step_id
  OBVIOUS
<1>13. edges \in [known -> Seq(known)] /\ DOMAIN edges = known
  <2>1. DOMAIN edges = known /\ edges = [id \in known |-> edges[id]]
    BY DEF EdgesOf
  <2>2. \A id \in known : edges[id] \in Seq(known)
    BY <1>11, <1>12
  <2>. HIDE DEF edges, known
  <2>. QED  BY <2>1, <2>2
<1>14. \A id \in known : plan.after[id] = Range(edges[id]) /\ plan.after[id] \in SUBSET known
  <2>. TAKE id \in known
  <2>1. PICK k \in DOMAIN steps : id = steps[k].step_id
    BY <1>12
  <2>2. plan.after[id] = Range(edges[id])
    BY <1>11, <2>1
  <2>3. Range(steps[k].depends_on) \subseteq known
    BY <1>10
  <2>. QED  BY <1>11, <2>1, <2>2, <2>3
<1>15. \A B \in SUBSET known : B # {} => \E s \in B : plan.after[s] \cap B = {}
  <2>1. \A B \in SUBSET known : B # {} => \E s \in B : Range(edges[s]) \cap B = {}
    <3>1. edges \in [DOMAIN edges -> Seq(DOMAIN edges)] /\ IsFiniteSet(DOMAIN edges)
      BY <1>9, <1>13
    <3>2. FindCycle(edges) = <<>>
      BY <1>10
    <3>. HIDE DEF edges, known
    <3>3. \A B \in SUBSET DOMAIN edges : B # {} => \E s \in B : Range(edges[s]) \cap B = {}
      BY <3>1, <3>2, NoCycleUnseen
    <3>. QED  BY <1>13, <3>3
  <2>. HIDE DEF edges, known
  <2>. QED  BY <1>14, <2>1
<1>16. plan.after \in [known -> SUBSET known] /\ DOMAIN plan.steps = known
  <2>1. plan.after = [id \in known |-> plan.after[id]] /\ DOMAIN plan.steps = known
    BY <1>2
  <2>. HIDE DEF known
  <2>. QED  BY <1>14, <2>1
<1>17. ASSUME NEW s \in known
       PROVE  /\ plan.steps[s].tier \in Tier /\ plan.steps[s].tools \subseteq declared.tools
              /\ plan.steps[s].class \in Class /\ ~(plan.steps[s].class > declared.class)
  <2>1. PICK k \in DOMAIN steps : s = steps[k].step_id
    BY <1>12
  <2>2. /\ plan.steps[s].tier = steps[k].tier /\ plan.steps[s].tools = steps[k].tools
        /\ plan.steps[s].class = steps[k].data_classification
    BY <1>2, <1>5, <2>1
  <2>. QED  BY <1>1, <1>8, <2>2
<1>18. SoundPlan(plan, ids, declared)
  <2>1. \A s \in known : plan.steps[s].class <= declared.class
    BY <1>17 DEF Class
  <2>. HIDE DEF known
  <2>. QED  BY <1>6, <1>7, <1>15, <1>16, <1>17, <2>1 DEF SoundPlan, Runnable
<1>. QED  BY <1>18 DEF plan

(* ready_steps: a step that is ready has not committed and depends on steps that
   have; and while any step of the plan has not, some step is ready: the loop
   always has one to dispatch, and a gated plan one to ask for. *)
THEOREM SomeStepReady ==
  ASSUME NEW plan, Runnable(plan), NEW done \in SUBSET StepIds(plan)
  PROVE  LET ready == ReadySteps(plan, done)
         IN /\ \A k \in DOMAIN ready : /\ ready[k] \in StepIds(plan) \ done
                                       /\ plan.after[ready[k]] \subseteq done
            /\ done # StepIds(plan) => 1 \in DOMAIN ready
<1>. DEFINE S == StepIds(plan)
            kept == {s \in S \ done : plan.after[s] \subseteq done}
            ready == ReadySteps(plan, done)
<1>1. /\ plan.order \in Seq(S) /\ plan.after \in [S -> SUBSET S]
      /\ \A B \in SUBSET S : B # {} => \E s \in B : plan.after[s] \cap B = {}
  BY DEF Runnable
<1>2. Range(plan.order) = S
  BY DEF StepIds, Range
<1>3. ready = Among(plan.order, kept)
  BY DEF ReadySteps
<1>. HIDE DEF S, kept, ready
<1>4. ready \in Seq(S) /\ Range(ready) = S \cap kept
  BY <1>1, <1>2, <1>3, AmongKept
<1>5. Len(ready) \in Nat /\ DOMAIN ready = 1 .. Len(ready)
  BY <1>4, LenProperties
<1>6. \A k \in DOMAIN ready : ready[k] \in kept
  BY <1>4 DEF Range
<1>7. ASSUME done # S  PROVE 1 \in DOMAIN ready
  <2>1. done \subseteq S
    BY DEF S
  <2>2. PICK s \in S \ done : plan.after[s] \cap (S \ done) = {}
    BY <1>1, <1>7, <2>1
  <2>3. plan.after[s] \subseteq done
    BY <1>1, <2>2
  <2>4. s \in Range(ready)
    BY <1>4, <2>2, <2>3 DEF kept
  <2>5. DOMAIN ready # {}
    BY <2>4 DEF Range
  <2>. QED  BY <1>5, <2>5
<1>8. \A s \in kept : s \in S \ done /\ plan.after[s] \subseteq done
  BY DEF kept
<1>9. /\ \A k \in DOMAIN ready : /\ ready[k] \in S \ done
                                 /\ plan.after[ready[k]] \subseteq done
      /\ done # S => 1 \in DOMAIN ready
  BY <1>6, <1>7, <1>8
<1>. QED  BY <1>9 DEF S, ready

(* ---------------------- what the operators return ------------------------ *)

(* A gate is that of the tier it is asked of, whatever is asked of it. *)
LEMMA GateTyped ==
  ASSUME NEW t \in Tier, NEW class \in Class, NEW estimate, NEW policy
  PROVE  Gate(<<t>>, class, estimate, policy) \in GateType /\ Gate(<<t>>, class, estimate, policy).tier = t
<1>. DEFINE tiers == <<t>>
            weight(k) == 4 * EgressRank(tiers[k]) + Leaving(tiers[k], class)
            best == {k \in DOMAIN tiers : \A j \in DOMAIN tiers : weight(j) <= weight(k)}
            leaving == Leaving(t, class)
            gate == Gate(tiers, class, estimate, policy)
<1>1. leaving \in Class \cup {NotLeaving}
  BY TiersAssumption DEF Leaving, Class, NotLeaving
<1>2. DOMAIN tiers = {1} /\ tiers[1] = t
  OBVIOUS
<1>3. weight(1) \in Int
  BY <1>1, <1>2 DEF EgressRank, Class, NotLeaving
<1>4. MostPermissive(tiers, class) = tiers[First(best)]
  BY DEF MostPermissive
<1>5. best = {1}
  <2>. HIDE DEF tiers, weight
  <2>. QED  BY <1>2, <1>3
<1>6. First({1}) = 1
  BY FirstIsLeast
<1>7. MostPermissive(tiers, class) = t
  <2>. HIDE DEF tiers, best
  <2>. QED  BY <1>2, <1>4, <1>5, <1>6
<1>. HIDE DEF tiers, leaving
<1>8. gate = [egress  |-> leaving # NotLeaving /\ leaving >= policy.gateEgressAt,
              cost    |-> /\ policy.gateCost # NoAmount
                          /\ estimate.money # NoAmount
                          /\ estimate.money > policy.gateCost,
              tier    |-> t, leaving |-> leaving]
  BY <1>7 DEF Gate, leaving
<1>9. /\ (leaving # NotLeaving /\ leaving >= policy.gateEgressAt) \in BOOLEAN
      /\ (policy.gateCost # NoAmount /\ estimate.money # NoAmount /\ estimate.money > policy.gateCost)
           \in BOOLEAN
  OBVIOUS
<1>. DEFINE fires == leaving # NotLeaving /\ leaving >= policy.gateEgressAt
            costs == /\ policy.gateCost # NoAmount
                     /\ estimate.money # NoAmount
                     /\ estimate.money > policy.gateCost
<1>. HIDE DEF fires, costs
<1>10. [egress |-> fires, cost |-> costs, tier |-> t, leaving |-> leaving] \in GateType
  BY <1>1, <1>9 DEF GateType, fires, costs
<1>11. gate \in GateType /\ gate.tier = t
  <2>1. gate.tier = t
    BY <1>8
  <2>. QED  BY <1>8, <1>10, <2>1 DEF fires, costs
<1>. QED  BY <1>11 DEF tiers

(* An intent of fields that are in order is one. *)
LEMMA MintTyped ==
  ASSUME NEW t \in Tier, NEW tools \in SUBSET Tool, NEW class \in Class, NEW tokens \in Nat \ {0},
         NEW money \in Positive, NEW turns \in Nat \ {0}, NEW estimate, NEW by \in Minters, NEW policy
  PROVE  Mint(t, tools, class, tokens, money, turns, estimate, by, policy) \in IntentType
<1>. DEFINE gate == Gate(<<t>>, class, estimate, policy)
            new == [tier |-> t, egress |-> EgressRank(t), tools |-> tools, class |-> class,
                    tokens |-> tokens, money |-> money, turns |-> turns, by |-> by, gate |-> gate]
<1>1. gate \in GateType /\ gate.tier = t
  BY GateTyped
<1>2. EgressRank(t) \in 0 .. 1
  BY DEF EgressRank
<1>3. new = Mint(t, tools, class, tokens, money, turns, estimate, by, policy)
  BY DEF Mint
<1>. HIDE DEF gate
<1>4. new \in IntentType
  BY <1>1, <1>2 DEF IntentType
<1>. QED  BY <1>3, <1>4

(* What a superseding revision inherits and what it is given. *)
LEMMA SupersedeTyped ==
  ASSUME NEW old \in IntentType, NEW changes, NEW by \in Minters, NEW policy,
         "tier" \in DOMAIN changes => changes["tier"] \in Tier,
         "tools" \in DOMAIN changes => changes["tools"] \in SUBSET Tool,
         "class" \in DOMAIN changes => changes["class"] \in Class,
         "tokens" \in DOMAIN changes => changes["tokens"] \in Nat \ {0},
         "money" \in DOMAIN changes => changes["money"] \in Positive,
         "turns" \in DOMAIN changes => changes["turns"] \in Nat \ {0}
  PROVE  Supersede(old, changes, by, policy) \in IntentType
<1>. DEFINE new == [f \in Changeable |-> IF f \in DOMAIN changes THEN changes[f] ELSE old[f]]
            money == IF new.money = NoAmount THEN old.money ELSE new.money
<1>1. /\ old.tier \in Tier /\ old.tools \in SUBSET Tool /\ old.class \in Class
      /\ old.tokens \in Nat \ {0} /\ old.money \in Positive /\ old.turns \in Nat \ {0}
  BY DEF IntentType
<1>2. /\ new.tier = IF "tier" \in DOMAIN changes THEN changes["tier"] ELSE old.tier
      /\ new.tools = IF "tools" \in DOMAIN changes THEN changes["tools"] ELSE old.tools
      /\ new.class = IF "class" \in DOMAIN changes THEN changes["class"] ELSE old.class
      /\ new.tokens = IF "tokens" \in DOMAIN changes THEN changes["tokens"] ELSE old.tokens
      /\ new.money = IF "money" \in DOMAIN changes THEN changes["money"] ELSE old.money
      /\ new.turns = IF "turns" \in DOMAIN changes THEN changes["turns"] ELSE old.turns
  BY DEF Changeable
<1>3. Supersede(old, changes, by, policy) =
        Mint(new.tier, new.tools, new.class, new.tokens, money, new.turns,
             [tokens |-> old.tokens, money |-> old.money], by, policy)
  BY DEF Supersede
<1>. HIDE DEF new
<1>4. /\ new.tier \in Tier /\ new.tools \in SUBSET Tool /\ new.class \in Class
      /\ new.tokens \in Nat \ {0} /\ new.money \in Positive /\ new.turns \in Nat \ {0}
  BY <1>1, <1>2
<1>5. money \in Positive
  BY <1>1, <1>4
<1>. HIDE DEF money
<1>. QED  BY <1>3, <1>4, <1>5, MintTyped

(* The first revision of a planned step, under a verdict that did not reject it. *)
LEMMA MintForStepTyped ==
  ASSUME NEW step, step.tools \in SUBSET Tool, step.class \in Class,
         NEW verdict \in VerdictType, verdict.tier # NoTier,
         NEW turns \in Nat \ {0}, NEW by \in Minters, NEW policy
  PROVE  MintForStep(step, verdict, turns, by, policy) \in IntentType
<1>1. verdict.tier \in Tier /\ verdict.estimate \in EstimateType
  BY DEF VerdictType
<1>2. verdict.estimate.tokens \in Nat /\ verdict.estimate.money \in Amount
  BY <1>1 DEF EstimateType
<1>3. StepTokens(verdict.estimate) \in Nat \ {0}
  BY <1>2 DEF StepTokens, StepBudgetMultiplier, Greater
<1>4. StepMoney(verdict.estimate) \in Positive
  BY <1>2 DEF StepMoney, StepBudgetMultiplier, Positive, Amount, NoAmount
<1>. QED  BY <1>1, <1>3, <1>4, MintTyped DEF MintForStep

(* The default envelope of a bypassed trajectory. *)
LEMMA MintBypassTyped ==
  ASSUME NEW decl, decl.tier \in Tier \cup {NoTier}, decl.tools \in SUBSET Tool, decl.class \in Class,
         decl.turns \in Nat \ {0}, NEW tokens \in Nat \ {0}, NEW money \in Positive, NEW policy
  PROVE  MintBypass(decl, tokens, money, policy) \in IntentType
<1>1. (IF decl.tier = NoTier THEN DefaultTier ELSE decl.tier) \in Tier
  BY TiersAssumption
<1>2. "bypass_default" \in Minters
  BY DEF Minters
<1>. QED  BY <1>1, <1>2, MintTyped DEF MintBypass

(* What a granted deviation widens an envelope by. *)
LEMMA WideningTyped ==
  ASSUME NEW ask \in AskType, NEW old \in IntentType, NEW decl, Grantable(ask, decl),
         ask.category \in Categories \ {"tier_violation", "outside_tool"},
         NEW by \in Minters, NEW policy
  PROVE  Supersede(old, Widening(ask, old), by, policy) \in IntentType
<1>. DEFINE changes == Widening(ask, old)
<1>1. /\ old.tools \in SUBSET Tool /\ old.tokens \in Nat \ {0} /\ old.turns \in Nat \ {0}
  BY DEF IntentType
<1>2. /\ ask.tools \in SUBSET Tool /\ ask.next \in Tier \cup {NoTier} /\ ask.tokens \in Nat
      /\ ask.slice \in Nat /\ ask.turns \in Nat /\ ask.class \in Class
  BY DEF AskType
<1>3. CASE ask.category = "undeclared_tool"
  <2>1. changes = [tools |-> old.tools \cup ask.tools]
    BY <1>3 DEF Widening
  <2>. HIDE DEF changes
  <2>2. DOMAIN changes = {"tools"} /\ changes["tools"] \in SUBSET Tool
    BY <1>1, <1>2, <2>1
  <2>3. Supersede(old, changes, by, policy) \in IntentType
    BY <2>2, SupersedeTyped
  <2>. QED  BY <2>3 DEF changes
<1>4. CASE ask.category = "tier_escalation"
  <2>1. changes = [tier |-> ask.next] /\ ask.next # NoTier
    BY <1>4 DEF Widening, Grantable
  <2>. HIDE DEF changes
  <2>2. DOMAIN changes = {"tier"} /\ changes["tier"] \in Tier
    BY <1>2, <2>1
  <2>3. Supersede(old, changes, by, policy) \in IntentType
    BY <2>2, SupersedeTyped
  <2>. QED  BY <2>3 DEF changes
<1>5. CASE ask.category = "turn_overrun"
  <2>1. changes = [turns |-> old.turns + ask.turns]
    BY <1>5 DEF Widening
  <2>. HIDE DEF changes
  <2>2. DOMAIN changes = {"turns"} /\ changes["turns"] \in Nat \ {0}
    BY <1>1, <1>2, <2>1
  <2>3. Supersede(old, changes, by, policy) \in IntentType
    BY <2>2, SupersedeTyped
  <2>. QED  BY <2>3 DEF changes
<1>6. CASE ask.category = "budget_overrun"
  <2>1. changes = [tokens |-> Greater(ask.tokens, old.tokens) + ask.slice]
    BY <1>6 DEF Widening
  <2>. HIDE DEF changes
  <2>2. DOMAIN changes = {"tokens"} /\ changes["tokens"] = Greater(ask.tokens, old.tokens) + ask.slice
    BY <2>1
  <2>3. Greater(ask.tokens, old.tokens) + ask.slice \in Nat \ {0}
    BY <1>1, <1>2 DEF Greater
  <2>4. Supersede(old, changes, by, policy) \in IntentType
    BY <2>2, <2>3, SupersedeTyped
  <2>. QED  BY <2>4 DEF changes
<1>7. CASE ask.category = "classification_exceeded"
  <2>1. changes = [class |-> ask.class]
    BY <1>7 DEF Widening
  <2>. HIDE DEF changes
  <2>2. DOMAIN changes = {"class"} /\ changes["class"] \in Class
    BY <1>2, <2>1
  <2>3. Supersede(old, changes, by, policy) \in IntentType
    BY <2>2, SupersedeTyped
  <2>. QED  BY <2>3 DEF changes
<1>. QED  BY <1>3, <1>4, <1>5, <1>6, <1>7 DEF Categories

(* evaluate_step names the tier of every step it does not reject, and only of those. *)
LEMMA StepVerdictTyped ==
  ASSUME NEW step, step.class \in Class, NEW estimate \in EstimateType, NEW policy, NEW provider
  PROVE  StepVerdict(step, estimate, policy, provider) \in VerdictType
<1>. DEFINE tier == Resolved(step)
            gate == Gate(<<tier>>, step.class, estimate, policy)
            human == RequiresHuman(gate, policy.mode)
            redlined == tier # step.tier
            verdict == StepVerdict(step, estimate, policy, provider)
            reason == IF redlined THEN "tier_ceiling_substitution"
                      ELSE IF human THEN GateReason(gate, policy.mode)
                      ELSE "auto_approved"
            outcome == IF redlined THEN "redlined" ELSE "approved"
<1>1. ASSUME NEW r \in Reasons  PROVE Rejected(r, estimate) \in VerdictType
  <2>1. NoGate \in GateType
    BY DEF NoGate, GateType, NotLeaving
  <2>. QED  BY <2>1 DEF Rejected, VerdictType, Outcomes
<1>2. {"tier_not_configured", "no_admitting_tier", "unpriced_egress", "tier_unavailable"} \subseteq Reasons
  BY DEF Reasons
<1>3. CASE step.tier \in Tier /\ tier # NoTier
  <2>1. tier \in Tier
    BY <1>3, MovesAreAdmitted DEF Resolved
  <2>2. gate \in GateType
    BY <2>1, GateTyped
  <2>3. human \in BOOLEAN
    BY DEF RequiresHuman
  <2>4. reason \in Reasons /\ outcome \in Outcomes /\ outcome # "rejected"
    BY DEF GateReason, Reasons, Outcomes
  <2>5. tier # NoTier
    BY <1>3
  <2>. DEFINE given == [outcome |-> outcome, reason |-> reason, tier |-> tier, gate |-> gate, human |-> human,
                        estimate |-> estimate]
  <2>6. \/ verdict = given
        \/ \E r \in {"unpriced_egress", "tier_unavailable"} : verdict = Rejected(r, estimate)
    BY <1>3 DEF StepVerdict
  <2>7. given \in VerdictType
    <3>. HIDE DEF outcome, reason, tier, gate, human
    <3>. QED  BY <2>1, <2>2, <2>3, <2>4, <2>5 DEF VerdictType
  <2>. HIDE DEF given, verdict
  <2>8. verdict \in VerdictType
    BY <1>1, <1>2, <2>6, <2>7
  <2>. QED  BY <2>8 DEF verdict
<1>4. CASE ~(step.tier \in Tier /\ tier # NoTier)
  <2>1. \E r \in {"tier_not_configured", "no_admitting_tier"} : verdict = Rejected(r, estimate)
    BY <1>4 DEF StepVerdict
  <2>. HIDE DEF verdict
  <2>2. verdict \in VerdictType
    BY <1>1, <1>2, <2>1
  <2>. QED  BY <2>2 DEF verdict
<1>. QED  BY <1>3, <1>4

(* evaluate_plan speaks of every step, and where it does not reject the plan
   every step has its tier. *)
LEMMA PlanVerdictTyped ==
  ASSUME NEW plan, \A s \in DOMAIN plan : plan[s].class \in Class,
         NEW estimates, \A s \in DOMAIN plan : estimates[s] \in EstimateType,
         NEW policy, NEW provider, NEW rooms
  PROVE  LET says == PlanVerdict(plan, estimates, policy, provider, rooms)
         IN /\ says.steps \in [DOMAIN plan -> VerdictType]
            /\ says.outcome \in {"rejected", "gated", "approved"}
            /\ says.outcome # "rejected" => \A s \in DOMAIN plan : says.steps[s].tier # NoTier
<1>. DEFINE says == PlanVerdict(plan, estimates, policy, provider, rooms)
            all(reason) == [s \in DOMAIN plan |-> Rejected(reason, estimates[s])]
            each == [s \in DOMAIN plan |-> StepVerdict(plan[s], estimates[s], policy, provider)]
<1>1. ASSUME NEW r \in Reasons  PROVE all(r) \in [DOMAIN plan -> VerdictType]
  <2>1. NoGate \in GateType
    BY DEF NoGate, GateType, NotLeaving
  <2>2. \A s \in DOMAIN plan : Rejected(r, estimates[s]) \in VerdictType
    BY <2>1 DEF Rejected, VerdictType, Outcomes
  <2>. QED  BY <2>2
<1>2. each \in [DOMAIN plan -> VerdictType]
  BY StepVerdictTyped
<1>3. {"budget_exceeded", "estimates_exceed_headroom"} \subseteq Reasons
  BY DEF Reasons
<1>4. says.steps = all("budget_exceeded") \/ says.steps = all("estimates_exceed_headroom") \/ says.steps = each
  <2>. HIDE DEF all, each
  <2>1. says.steps = IF \E room \in rooms : Binds(room) THEN all("budget_exceeded")
                     ELSE IF ~EstimatesFit(DOMAIN plan, estimates, rooms) THEN all("estimates_exceed_headroom")
                     ELSE each
    BY Zenon DEF PlanVerdict, all, each
  <2>. HIDE DEF says
  <2>. QED  BY <2>1
<1>5. says.outcome = IF \E s \in DOMAIN plan : says.steps[s].outcome = "rejected" THEN "rejected"
                     ELSE IF \E s \in DOMAIN plan : says.steps[s].human THEN "gated"
                     ELSE "approved"
  BY Zenon DEF PlanVerdict
<1>. HIDE DEF says, all, each
<1>6. says.steps \in [DOMAIN plan -> VerdictType]
  BY <1>1, <1>2, <1>3, <1>4
<1>7. says.outcome # "rejected" => \A s \in DOMAIN plan : says.steps[s].tier # NoTier
  BY <1>5, <1>6 DEF VerdictType
<1>. QED  BY <1>5, <1>6, <1>7 DEF says

(* The subsets of a finite set by their sizes, one element less at a time. *)
LEMMA OneLess ==
  ASSUME NEW E, IsFiniteSet(E), NEW S \in SUBSET E
  PROVE  /\ IsFiniteSet(S) /\ Cardinality(S) \in Nat /\ Cardinality(S) <= Cardinality(E)
         /\ Cardinality(S) <= 0 => S = {}
         /\ \A x \in S : S \ {x} \in SUBSET E /\ Cardinality(S \ {x}) = Cardinality(S) - 1
<1>1. IsFiniteSet(S) /\ Cardinality(S) <= Cardinality(E)
  BY FS_Subset
<1>2. Cardinality(S) \in Nat
  BY <1>1, FS_CardinalityType
<1>3. Cardinality(S) <= 0 => S = {}
  BY <1>1, <1>2, FS_EmptySet
<1>4. \A x \in S : Cardinality(S \ {x}) = Cardinality(S) - 1
  BY <1>1, FS_RemoveElement
<1>. QED  BY <1>1, <1>2, <1>3, <1>4

(* A finite set of amounts has a sum. *)
LEMMA AmountsTyped ==
  ASSUME NEW E, IsFiniteSet(E), NEW field, \A e \in E : e[field] \in Nat
  PROVE  Amounts(E, field) \in Nat
<1>. DEFINE pick(S) == CHOOSE x \in S : TRUE
            Sum(f, S) == IF S = {} THEN 0 ELSE pick(S)[field] + f[S \ {pick(S)}]
            Upto(n) == {S \in SUBSET E : Cardinality(S) <= n}
            A == {n \in Nat : \E f : f = [S \in Upto(n) |-> Sum(f, S)]}
            sums == CHOOSE f : f = [S \in SUBSET E |-> Sum(f, S)]
            B == {n \in Nat : \A S \in Upto(n) : sums[S] \in Nat}
            N == Cardinality(E)
<1>1. Amounts(E, field) = sums[E]
  BY DEF Amounts, MapThenSumSet, MapThenFoldSet
<1>2. \A S \in SUBSET E : S # {} => pick(S) \in S
  OBVIOUS
<1>. HIDE DEF pick
<1>3. ASSUME NEW n \in Nat, NEW S \in Upto(n + 1), S # {}
      PROVE  S \ {pick(S)} \in Upto(n) /\ pick(S) \in E
  <2>1. pick(S) \in S /\ S \in SUBSET E /\ Cardinality(S) <= n + 1 /\ Cardinality(S) \in Nat
    BY <1>2, <1>3, OneLess
  <2>2. S \ {pick(S)} \in SUBSET E /\ Cardinality(S \ {pick(S)}) = Cardinality(S) - 1
    BY <2>1, OneLess
  <2>3. Cardinality(S) - 1 <= n
    BY <2>1
  <2>. QED  BY <2>1, <2>2, <2>3
<1>4. \A n \in Nat : Upto(n) \subseteq Upto(n + 1)
  BY OneLess
<1>5. \A S \in Upto(0) : S = {}
  BY OneLess
<1>6. N \in Nat /\ Upto(N) = SUBSET E
  BY OneLess
<1>. HIDE DEF Upto, N
<1>7. 0 \in A
  <2>. DEFINE f == [S \in Upto(0) |-> 0]
  <2>1. \A S \in Upto(0) : Sum(f, S) = 0
    BY <1>5
  <2>. HIDE DEF Sum
  <2>2. f = [S \in Upto(0) |-> Sum(f, S)]
    BY <2>1
  <2>. HIDE DEF f
  <2>. QED  BY <2>2
<1>8. ASSUME NEW n \in Nat, n \in A  PROVE n + 1 \in A
  <2>1. PICK f : f = [S \in Upto(n) |-> Sum(f, S)]
    BY <1>8
  <2>. DEFINE g == [S \in Upto(n + 1) |-> Sum(f, S)]
  <2>2. \A S \in Upto(n) : g[S] = f[S]
    <3>. HIDE DEF Sum
    <3>. QED  BY <1>4, <2>1
  <2>3. \A S \in Upto(n + 1) : g[S] = Sum(f, S)
    <3>. HIDE DEF Sum
    <3>. QED  OBVIOUS
  <2>. HIDE DEF g
  <2>4. \A S \in Upto(n + 1) : Sum(f, S) = Sum(g, S)
    BY <1>3, <2>2
  <2>5. g = [S \in Upto(n + 1) |-> Sum(g, S)]
    <3>. HIDE DEF Sum
    <3>1. g = [S \in Upto(n + 1) |-> g[S]]
      BY DEF g
    <3>. QED  BY <2>3, <2>4, <3>1
  <2>. HIDE DEF Sum
  <2>. QED  BY <2>5
<1>9. Nat \subseteq A
  <2>. HIDE DEF A
  <2>. QED  BY <1>7, <1>8, Reaches
<1>10. sums = [S \in SUBSET E |-> Sum(sums, S)]
  <2>1. \E f : f = [S \in SUBSET E |-> Sum(f, S)]
    <3>. HIDE DEF Sum
    <3>1. \E f : f = [S \in Upto(N) |-> Sum(f, S)]
      BY <1>6, <1>9
    <3>. QED  BY <1>6, <3>1
  <2>. HIDE DEF Sum
  <2>. QED  BY <2>1
<1>. HIDE DEF sums
<1>11. \A S \in SUBSET E : sums[S] = Sum(sums, S)
  <2>. HIDE DEF Sum
  <2>. QED  BY <1>10
<1>12. \A n \in Nat : \A S \in Upto(n) : S \in SUBSET E
  BY DEF Upto
<1>17. sums[{}] = 0
  <2>1. {} \in SUBSET E
    OBVIOUS
  <2>2. sums[{}] = Sum(sums, {})
    <3>. HIDE DEF Sum
    <3>. QED  BY <1>11, <2>1
  <2>3. Sum(sums, {}) = 0
    OBVIOUS
  <2>. QED  BY <2>2, <2>3
<1>13. 0 \in B
  BY <1>5, <1>17
<1>14. ASSUME NEW n \in Nat, n \in B  PROVE n + 1 \in B
  <2>1. ASSUME NEW S \in Upto(n + 1)  PROVE sums[S] \in Nat
    <3>1. CASE S = {}
      BY <1>17, <3>1
    <3>2. CASE S # {}
      <4>1. S \ {pick(S)} \in Upto(n) /\ pick(S) \in E /\ S \in SUBSET E
        BY <1>3, <1>12, <3>2
      <4>2. sums[S \ {pick(S)}] \in Nat
        BY <1>14, <4>1
      <4>3. sums[S] = pick(S)[field] + sums[S \ {pick(S)}]
        BY <1>11, <3>2, <4>1
      <4>4. pick(S)[field] \in Nat
        BY <4>1
      <4>. QED  BY <4>2, <4>3, <4>4
    <3>. QED  BY <3>1, <3>2
  <2>. QED  BY <2>1
<1>15. Nat \subseteq B
  <2>. HIDE DEF B
  <2>. QED  BY <1>13, <1>14, Reaches
<1>16. sums[E] \in Nat
  <2>1. E \in Upto(N)
    BY <1>6
  <2>. QED  BY <1>6, <1>15, <2>1
<1>. QED  BY <1>1, <1>16

(* A finite set of numbers that is not empty has a greatest. *)
LEMMA Greatest ==
  ASSUME NEW T, IsFiniteSet(T), T \subseteq Nat, T # {}
  PROVE  \E x \in T : \A y \in T : y <= x
<1>. DEFINE A == {n \in Nat : \A S \in SUBSET T :
                    S # {} /\ Cardinality(S) <= n => \E x \in S : \A y \in S : y <= x}
<1>1. 0 \in A
  BY OneLess
<1>2. ASSUME NEW n \in Nat, n \in A  PROVE n + 1 \in A
  <2>1. ASSUME NEW S \in SUBSET T, S # {}, Cardinality(S) <= n + 1
        PROVE  \E x \in S : \A y \in S : y <= x
    <3>1. PICK z \in S : TRUE
      BY <2>1
    <3>2. S \ {z} \in SUBSET T /\ Cardinality(S \ {z}) <= n
      <4>1. Cardinality(S \ {z}) = Cardinality(S) - 1 /\ Cardinality(S) \in Nat
        BY OneLess
      <4>. QED  BY <2>1, <4>1
    <3>3. CASE S \ {z} = {}
      <4>1. \A y \in S : y <= z
        BY <3>3
      <4>. QED  BY <4>1
    <3>4. CASE S \ {z} # {}
      <4>1. PICK x \in S \ {z} : \A y \in S \ {z} : y <= x
        BY <1>2, <3>2, <3>4
      <4>2. x \in Nat /\ z \in Nat /\ \A y \in S : y \in Nat
        OBVIOUS
      <4>3. CASE z <= x
        BY <4>1, <4>3
      <4>4. CASE x <= z
        <5>1. \A y \in S : y <= z
          BY <4>1, <4>2, <4>4
        <5>. QED  BY <5>1
      <4>. QED  BY <4>2, <4>3, <4>4
    <3>. QED  BY <3>3, <3>4
  <2>. QED  BY <2>1
<1>3. Nat \subseteq A
  <2>. HIDE DEF A
  <2>. QED  BY <1>1, <1>2, Reaches
<1>4. Cardinality(T) \in A
  BY <1>3, OneLess
<1>5. Cardinality(T) <= Cardinality(T)
  BY OneLess
<1>. QED  BY <1>4, <1>5

(* The rank a p80 is taken at is one of the samples'. *)
LEMMA P80Typed ==
  ASSUME NEW samples, IsFiniteSet(samples), samples # {}, \A e \in samples : e.tokens \in Nat
  PROVE  P80(samples) \in Nat
<1>. DEFINE n == Cardinality(samples)
            rank == (8 * n + 9) \div 10
            upTo(v) == {e \in samples : e.tokens <= v}
            reached == {e.tokens : e \in {d \in samples : Cardinality(upTo(d.tokens)) >= rank}}
            amounts == {e.tokens : e \in samples}
<1>1. n \in Nat /\ n # 0
  BY FS_CardinalityType, FS_EmptySet
<1>2. PICK d \in samples : \A e \in samples : e.tokens <= d.tokens
  <2>1. IsFiniteSet(amounts)
    <3>. DEFINE f == [e \in samples |-> e.tokens]
    <3>1. f \in Surjection(samples, amounts)
      BY DEF Surjection
    <3>. HIDE DEF f, amounts
    <3>. QED  BY <3>1, FS_Surjection
  <2>2. amounts \subseteq Nat /\ amounts # {}
    OBVIOUS
  <2>. HIDE DEF amounts
  <2>3. PICK x \in amounts : \A y \in amounts : y <= x
    BY <2>1, <2>2, Greatest
  <2>. QED  BY <2>3 DEF amounts
<1>3. upTo(d.tokens) = samples
  BY <1>2
<1>4. rank <= n
  <2>. HIDE DEF n
  <2>. QED  BY <1>1
<1>5. d.tokens \in reached
  <2>1. n >= rank
    <3>. HIDE DEF n
    <3>. QED  BY <1>1, <1>4
  <2>2. Cardinality(upTo(d.tokens)) >= rank
    BY <1>3, <2>1
  <2>. HIDE DEF rank, upTo
  <2>. QED  BY <2>2
<1>6. reached \subseteq Nat
  <2>. HIDE DEF rank, upTo
  <2>. QED  OBVIOUS
<1>7. P80(samples) = CHOOSE v \in reached : \A w \in reached : v <= w
  BY Zenon DEF P80
<1>. HIDE DEF reached
<1>8. \E v \in reached : \A w \in reached : v <= w
  BY <1>5, <1>6, Least
<1>. QED  BY <1>6, <1>7, <1>8

(* What a list holds is finitely many things. *)
LEMMA ListedFinite ==
  ASSUME NEW list, list \in Seq({list[k] : k \in DOMAIN list})
  PROVE  IsFiniteSet({list[k] : k \in DOMAIN list})
<1>. DEFINE E == {list[k] : k \in DOMAIN list}
<1>1. Range(list) = E
  BY DEF Range
<1>. HIDE DEF E
<1>2. IsList(list)
  BY <1>1 DEF IsList, E
<1>3. IsFiniteSet(E)
  BY <1>1, <1>2, ListsAreFinite
<1>. QED  BY <1>3 DEF E

(* What a step is expected to spend, whatever the history says. *)
LEMMA EstimateTyped ==
  ASSUME NEW t \in Tier, NEW entries \in SUBSET EntryType, IsFiniteSet(entries)
  PROVE  Estimate(t, entries) \in EstimateType
<1>. DEFINE own == {e \in entries : e.tier = t}
            tokens == IF Cardinality(own) >= MinSamples THEN P80(own) ELSE StepTokensDefault[t]
            money == IF t \in Claiming THEN UnitPrice[t] * tokens ELSE NoAmount
<1>1. IsFiniteSet(own) /\ \A e \in own : e.tokens \in Nat
  <2>1. own \in SUBSET entries
    OBVIOUS
  <2>. QED  BY <2>1, FS_Subset DEF EntryType
<1>2. Cardinality(own) >= MinSamples => own # {}
  <2>1. Cardinality({}) = 0
    BY FS_EmptySet
  <2>. QED  BY <2>1, BudgetAssumption
<1>. HIDE DEF own
<1>3. tokens \in Nat
  BY <1>1, <1>2, P80Typed, BudgetAssumption
<1>. HIDE DEF tokens
<1>4. money \in Amount
  <2>1. CASE t \in Claiming
    <3>1. UnitPrice[t] \in Nat
      BY <2>1, TiersAssumption, BudgetAssumption
    <3>. QED  BY <1>3, <2>1, <3>1 DEF Amount
  <2>. QED  BY <2>1 DEF Amount
<1>5. Estimate(t, entries) = [tokens |-> tokens, money |-> money]
  BY DEF Estimate, tokens, own
<1>. HIDE DEF money
<1>. QED  BY <1>3, <1>4, <1>5 DEF EstimateType

(* What a turn is charged with is an entry of the ledger. *)
LEMMA ChargeTyped ==
  ASSUME NEW entries, IsFiniteSet(entries), NEW turn \in Nat \ {0}, NEW t \in Tier, NEW tokens \in Nat,
         NEW total \in BOOLEAN
  PROVE  Charge(entries, turn, t, tokens, total) \in EntryType
<1>. DEFINE money == IF t \in Claiming /\ total THEN UnitPrice[t] * tokens ELSE NoAmount
            n == Cardinality(entries) + 1
<1>1. n \in Nat \ {0}
  BY FS_CardinalityType
<1>2. money \in Amount
  <2>1. CASE t \in Claiming /\ total
    <3>1. UnitPrice[t] \in Nat
      BY <2>1, TiersAssumption, BudgetAssumption
    <3>2. UnitPrice[t] * tokens \in Nat
      BY <3>1
    <3>. QED  BY <2>1, <3>2, Zenon DEF Amount
  <2>2. CASE ~(t \in Claiming /\ total)
    BY <2>2, Zenon DEF Amount
  <2>. QED  BY <2>1, <2>2
<1>3. Charge(entries, turn, t, tokens, total) =
        [n |-> n, turn |-> turn, tier |-> t, tokens |-> tokens, total |-> total, money |-> money]
  BY DEF Charge
<1>. HIDE DEF n, money
<1>4. [n |-> n, turn |-> turn, tier |-> t, tokens |-> tokens, total |-> total, money |-> money] \in EntryType
  BY <1>1, <1>2 DEF EntryType
<1>. QED  BY <1>3, <1>4

(* What one ceiling says of a finite ledger. *)
LEMMA HeadroomTyped ==
  ASSUME NEW ceiling, ceiling.scope \in {"trajectory", "day", "project"},
         ceiling.tokens \in Int, ceiling.money \in Int,
         NEW entries \in SUBSET EntryType, IsFiniteSet(entries),
         NEW tokens \in Nat, NEW money \in Amount, NEW strict \in BOOLEAN
  PROVE  Headroom(ceiling, entries, tokens, money, strict) \in HeadroomType
<1>. DEFINE spentTokens == Amounts(entries, "tokens") + tokens
            spentMoney == Amounts(Priced(entries), "money") + (IF money = NoAmount THEN 0 ELSE money)
            lost == {e \in entries : ~e.total}
            leftTokens == Left(ceiling.tokens, spentTokens)
            leftMoney == Left(ceiling.money, spentMoney)
            over == Over(ceiling.tokens, spentTokens)
            exceeded == over \/ Over(ceiling.money, spentMoney)
            unpriced == Cardinality(lost)
            binding == strict /\ ceiling.money # NoAmount
<1>1. Amounts(entries, "tokens") \in Nat
  <2>1. \A e \in entries : e["tokens"] \in Nat
    BY DEF EntryType
  <2>. QED  BY <2>1, AmountsTyped
<1>2. Amounts(Priced(entries), "money") \in Nat
  <2>1. IsFiniteSet(Priced(entries))
    BY FS_Subset DEF Priced
  <2>2. \A e \in Priced(entries) : e["money"] \in Nat
    BY DEF Priced, EntryType, Amount
  <2>. QED  BY <2>1, <2>2, AmountsTyped
<1>3. spentTokens \in Int /\ spentMoney \in Int
  BY <1>1, <1>2 DEF Amount, NoAmount
<1>. HIDE DEF spentTokens, spentMoney
<1>4. leftTokens \in Int /\ leftMoney \in Int
  BY <1>3 DEF Left, NoAmount
<1>5. unpriced \in Nat
  <2>1. IsFiniteSet(lost)
    BY FS_Subset
  <2>. QED  BY <2>1, FS_CardinalityType
<1>6. over \in BOOLEAN /\ exceeded \in BOOLEAN /\ binding \in BOOLEAN
  BY DEF Over
<1>7. Headroom(ceiling, entries, tokens, money, strict) =
        [scope |-> ceiling.scope, tokens |-> leftTokens, money |-> leftMoney, tokensOver |-> over,
         exceeded |-> exceeded, untotalled |-> unpriced, strict |-> binding]
  BY Zenon DEF Headroom, spentTokens, spentMoney
<1>. HIDE DEF leftTokens, leftMoney, over, exceeded, unpriced, binding
<1>8. [scope |-> ceiling.scope, tokens |-> leftTokens, money |-> leftMoney, tokensOver |-> over,
       exceeded |-> exceeded, untotalled |-> unpriced, strict |-> binding] \in HeadroomType
  BY <1>4, <1>5, <1>6 DEF HeadroomType
<1>. QED  BY <1>7, <1>8

(* There are as many deviations as there are categories, at most. *)
LEMMA DeviatesFinite ==
  ASSUME NEW facts, NEW intent, NEW allowlist
  PROVE  /\ Deviates(facts, intent, allowlist) \subseteq Categories
         /\ Cardinality(Deviates(facts, intent, allowlist)) \in Nat
<1>. DEFINE found == Deviates(facts, intent, allowlist)
<1>1. found \subseteq Categories
  BY DEF Deviates
<1>2. IsFiniteSet(Categories)
  <2>1. IsFiniteSet({})
    BY FS_EmptySet
  <2>2. \A S, x : IsFiniteSet(S) => IsFiniteSet(S \cup {x})
    BY FS_AddElement
  <2>3. Categories = {} \cup {"tier_violation"} \cup {"tier_escalation"} \cup {"classification_exceeded"}
           \cup {"undeclared_tool"} \cup {"outside_tool"} \cup {"budget_overrun"} \cup {"turn_overrun"}
    BY DEF Categories
  <2>. QED  BY <2>1, <2>2, <2>3, Zenon
<1>. HIDE DEF found
<1>3. IsFiniteSet(found)
  BY <1>1, <1>2, FS_Subset
<1>4. Cardinality(found) \in Nat
  BY <1>3, FS_CardinalityType
<1>. QED  BY <1>1, <1>4 DEF found

(* What is asked is something found that may be granted. *)
LEMMA FirstAskedTyped ==
  ASSUME NEW found \in SUBSET Categories, NEW scope, Asking(found, scope) # {}
  PROVE  FirstAsked(found, scope) \in Categories \ {"tier_violation", "outside_tool"}
<1>. DEFINE asking == Asking(found, scope)
            places == {k \in DOMAIN Precedence : Precedence[k] \in asking}
<1>1. asking \subseteq Categories \ {"tier_violation", "outside_tool"}
  BY DEF Asking, Disposition
<1>2. places \subseteq Nat
  BY DEF Precedence
<1>3. \A c \in Categories : \E k \in DOMAIN Precedence : Precedence[k] = c
  BY DEF Precedence, Categories
<1>. HIDE DEF asking
<1>4. places # {}
  BY <1>1, <1>3 DEF asking
<1>5. FirstAsked(found, scope) = Precedence[First(places)]
  BY DEF FirstAsked, asking
<1>6. First(places) \in places
  <2>. HIDE DEF places
  <2>. QED  BY <1>2, <1>4, FirstIsLeast
<1>. QED  BY <1>1, <1>5, <1>6

(* The turns a process runs on are at least one, whatever the stored row is. *)
LEMMA TurnsTyped ==
  ASSUME NEW stored, NEW m \in Nat \ {0}
  PROVE  Effective("max_turns_per_step", stored, 100 * m) \div 100 \in Nat \ {0}
<1>. DEFINE key == "max_turns_per_step"
<1>1. CASE Usable(key, stored)
  <2>. DEFINE value == [type |-> "fraction", hundredths |-> stored[key]]
              x == stored[key]
  <2>1. Coerces(key, value) /\ value.hundredths = x
    BY <1>1 DEF Usable
  <2>2. Bounds[key] = [low |-> 100, high |-> 20000]
    BY DEF Bounds
  <2>3. Bounds[key].low = 100 /\ Bounds[key].high = 20000
    BY <2>2
  <2>4. Effective(key, stored, 100 * m) = x
    BY <1>1 DEF Effective
  <2>. HIDE DEF key, value, x
  <2>5. x \in 100 .. 20000
    BY <2>1, <2>3 DEF Coerces
  <2>6. x \div 100 \in Nat \ {0}
    <3>1. x \in Int /\ x >= 100
      BY <2>5
    <3>2. x \div 100 \in Int
      BY <3>1
    <3>3. x \div 100 >= 1
      BY <3>1
    <3>. QED  BY <3>2, <3>3
  <2>. QED  BY <2>4, <2>6 DEF key
<1>2. CASE ~Usable(key, stored)
  <2>1. Effective(key, stored, 100 * m) = 100 * m
    BY <1>2 DEF Effective
  <2>2. (100 * m) \div 100 = m
    OBVIOUS
  <2>. QED  BY <2>1, <2>2
<1>. QED  BY <1>1, <1>2
=============================================================================
