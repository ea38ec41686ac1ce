--------------------------- MODULE AudioGate_proofs ---------------------------
(***************************************************************************)
(* What Take and Give of the audio gate preserve.                          *)
(***************************************************************************)
EXTENDS AudioGate, TLAPS

\* A gate is free exactly when it was given as often as it was taken.
GoodGate(g) == g \in Gates /\ (g.holder = "none" <=> g.depth = 0)

LEMMA TakeGood ==
  ASSUME NEW g, GoodGate(g), NEW task \in GateTasks, NEW owner \in GateOwners
  PROVE  GoodGate(Take(g, task, owner)) /\ Take(g, task, owner).holder = task
BY DEF GoodGate, Gates, GateTasks, Take

LEMMA GiveGood ==
  ASSUME NEW g, GoodGate(g), NEW task \in GateTasks
  PROVE  GoodGate(Give(g, task))
<1>1. CASE g.holder # task
  BY <1>1 DEF GoodGate, Gates, Give, GateOwners
<1>2. CASE g.holder = task /\ g.depth = 1
  BY <1>2 DEF GoodGate, Gates, Give, FreeGate, GateOwners
<1>3. CASE g.holder = task /\ g.depth # 1
  <2>1. g.depth \in Nat /\ g.depth # 0
    BY <1>3 DEF GoodGate, Gates, GateTasks
  <2>2. Give(g, task) = [g EXCEPT !.depth = g.depth - 1, !.owner = "none"]
    BY <1>3, <2>1 DEF Give
  <2>3. g.depth - 1 \in Nat \ {0}
    BY <1>3, <2>1
  <2>4. ASSUME NEW d \in Nat \ {0} PROVE GoodGate([g EXCEPT !.depth = d, !.owner = "none"])
    BY <2>1, <1>3 DEF GoodGate, Gates, GateTasks, GateOwners
  <2> QED
    BY <2>2, <2>3, <2>4
<1> QED
  BY <1>1, <1>2, <1>3

\* A give by a task that does not hold the gate leaves the holder alone.
LEMMA GiveKeepsHolder ==
  ASSUME NEW g \in Gates, NEW task, g.holder # task
  PROVE  Give(g, task).holder = g.holder
BY DEF Give, Gates

\* To give the gate back makes nobody its holder.
LEMMA GiveMakesNoHolder ==
  ASSUME NEW g \in Gates, NEW task
  PROVE  Give(g, task).holder \in {g.holder, "none"}
BY DEF Give, Gates, FreeGate

=============================================================================
