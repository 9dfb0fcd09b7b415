-------------------------------- MODULE Gate --------------------------------
(***************************************************************************)
(* gate (internal/detector/gate.go): a stream of percentages turned into a *)
(* firing state, with a sustain period to open and a gap to close.         *)
(***************************************************************************)
EXTENDS Integers

CONSTANTS Threshold, Sustain

ASSUME GateAssumption == Threshold \in Nat \ {0} /\ Sustain \in Nat

NoTime == -1

NewGate == [aboveSince |-> NoTime, firing |-> FALSE]

\* Mutant: closes at the threshold.
RearmsAtOnce(v) == v < Threshold

\* value < threshold - min(rearmGap, threshold/2), doubled to stay in Int.
Rearms(v) == 2 * v < 2 * Threshold - (IF Threshold < 10 THEN Threshold ELSE 10)

\* What is left of a gate in the state file: aboveSince starts over.
RestoreGate(firing) == [NewGate EXCEPT !.firing = firing]

Opening(g, t) == IF g.aboveSince = NoTime THEN t ELSE g.aboveSince

Update(g, t, v) ==
    CASE g.firing /\ Rearms(v)            -> NewGate
      [] g.firing /\ ~Rearms(v)           -> g
      [] ~g.firing /\ v < Threshold       -> NewGate
      [] ~g.firing /\ ~(v < Threshold)    ->
            [aboveSince |-> Opening(g, t), firing |-> t - Opening(g, t) >= Sustain]
=============================================================================
