----------------------------- MODULE OneUseCommit -----------------------------
(***************************************************************************)
(* What the preview and confirmation protocol of the Web application       *)
(* promises (docs/superpowers/specs, F-026, section 8), without files,     *)
(* versions or tokens: an offered mutation takes effect at most once, only *)
(* one is executed at a time, and what is over stays over.                 *)
(***************************************************************************)
EXTENDS Integers

CONSTANT Plans

VARIABLES
  offer,      \* "none", "open", "running", "done" or "void"
  effects     \* how often the mutation took effect

oneUseVars == <<offer, effects>>

Init == offer = [p \in Plans |-> "none"] /\ effects = [p \in Plans |-> 0]

Becomes(p, from, to) ==
  /\ offer[p] \in from
  /\ offer' = [offer EXCEPT ![p] = to]

Offer(p) == Becomes(p, {"none"}, "open") /\ UNCHANGED effects

Run(p) ==
  /\ \A q \in Plans : offer[q] # "running"
  /\ Becomes(p, {"open"}, "running")
  /\ UNCHANGED effects

Succeed(p) ==
  /\ Becomes(p, {"running"}, "done")
  /\ effects' = [effects EXCEPT ![p] = @ + 1]

\* A failed execution may be repeated or not.
GiveBack(p) == Becomes(p, {"running"}, "open") /\ UNCHANGED effects
Withdraw(p) == Becomes(p, {"none", "open", "running"}, "void") /\ UNCHANGED effects

\* The process ends: what was offered is void, what was done stays done.
Forget ==
  /\ offer' = [p \in Plans |-> IF offer[p] \in {"open", "running"}
                               THEN "void" ELSE offer[p]]
  /\ UNCHANGED effects

Next ==
  \/ \E p \in Plans : \/ Offer(p) \/ Run(p) \/ Succeed(p)
                      \/ GiveBack(p) \/ Withdraw(p)
  \/ Forget

Spec == Init /\ [][Next]_oneUseVars
===============================================================================
