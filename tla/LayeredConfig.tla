--------------------------- MODULE LayeredConfig ---------------------------
(***************************************************************************)
(* What a ConfigRepository promises: it is a stack of layers, one for each *)
(* source.  A layer gives values to some sites (paths of params, mostly).  *)
(* A site is a unit: its value comes from one layer as a whole, the newest *)
(* that has a say on it, and other sites are not affected.                 *)
(*                                                                         *)
(* Two sites are related if one is within the other.  A layer overrides    *)
(* all sites related to its own, since both cannot have a value.           *)
(***************************************************************************)
EXTENDS Integers, SequencesExt

CONSTANT Site  \* paths

VARIABLES
  values,    \* site -> value, what one reads from the repository
  newest     \* site -> value, the layer added last

vars == <<values, newest>>

Related(site1, site2) == IsPrefix(site1, site2) \/ IsPrefix(site2, site1)

IsLayer(f) ==
  /\ DOMAIN f \subseteq Site
  /\ \A site1, site2 \in DOMAIN f : Related(site1, site2) => site1 = site2

Overlay(lower, upper) ==
  LET kept == {site \in DOMAIN lower :
                 \A s \in DOMAIN upper : ~Related(site, s)}
  IN  [site \in kept \cup DOMAIN upper |->
         IF site \in DOMAIN upper THEN upper[site] ELSE lower[site]]

Empty == [site \in {} |-> 0]

Init == values = Empty /\ newest = Empty

\* A new source; what it says can be anything.
AddLayer ==
  /\ IsLayer(newest')
  /\ values' = Overlay(values, newest')

Next == AddLayer

Spec == Init /\ [][Next]_vars
=============================================================================
