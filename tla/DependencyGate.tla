---------------------------- MODULE DependencyGate ----------------------------
(***************************************************************************)
(* What the scheduler promises of "Depends on:": an issue is made ready    *)
(* only when everything it was said to depend on, at one time, is settled. *)
(* Numbers come into being, and a pull request that is closed stays so.    *)
(***************************************************************************)
EXTENDS Naturals

CONSTANTS
  Issues,    \* numbers of issues
  PRs        \* numbers of pull requests, out of the same sequence

VARIABLES
  state,     \* of each number: "none", "open" or "closed"
  needs,     \* of each issue: every set of numbers it has depended on
  readied    \* issues the scheduler has made ready

gateVars == <<state, needs, readied>>

Numbers == Issues \cup PRs

(* An open issue that is no pull request holds nobody up.                  *)
Settled(d) == state[d] = "closed" \/ (d \in Issues /\ state[d] = "open")

Free(i) == \E D \in needs[i] : D # {} /\ \A d \in D : Settled(d)

Init ==
  /\ state \in [Numbers -> {"none", "open"}]
  /\ needs \in [Issues -> SUBSET SUBSET Numbers]
  /\ readied = {}

(* Numbers are opened and closed, dependencies added.                      *)
Changes ==
  /\ \A d \in Numbers : state[d] = "closed" => state'[d] = "closed"
  /\ \A d \in Numbers : state'[d] = "none" => state[d] = "none"
  /\ \A i \in Issues : needs[i] \subseteq needs'[i]
  /\ UNCHANGED readied

MakesReady(i) ==
  /\ Free(i)
  /\ readied' = readied \cup {i}
  /\ UNCHANGED <<state, needs>>

Next == Changes \/ \E i \in Issues : MakesReady(i)

Spec == Init /\ [][Next]_gateVars
=============================================================================
