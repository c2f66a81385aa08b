-------------------------- MODULE MCRuleScheduler --------------------------
(***************************************************************************)
(* Instances of RuleScheduler for TLC: contents of the rules table.        *)
(***************************************************************************)
EXTENDS RuleScheduler

CONSTANTS p1, p2

Rule(id, trigger, cooldown) == [id |-> id, trigger |-> trigger, cooldown |-> cooldown]
Every(n) == [kind |-> "interval", interval |-> n]
Changes(refs, td, vd) ==
    [kind |-> "on_change", refs |-> refs, time_deadband |-> td, value_deadband |-> vd]
NoDeadband == [type |-> "none", threshold |-> 0]
Absolute(n) == [type |-> "absolute", threshold |-> n]
Percent(n) == [type |-> "percent", threshold |-> n]

\* An OnChange rule with a cooldown; that rule edited; an interval rule in its
\* place.
Edited ==
    << << Rule("r1", Changes({p1}, 0, Percent(50)), 1) >>,
       << Rule("r1", Changes({p1}, 1, Absolute(1)), 0) >>,
       << Rule("r2", Every(1), 0) >> >>

\* An OnChange rule of two points.
TwoPoints == << << Rule("r1", Changes({p1, p2}, 0, NoDeadband), 0) >> >>
=============================================================================
