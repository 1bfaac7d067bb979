---------------------------- MODULE MCPlannedRun ----------------------------
(***************************************************************************)
(* Drafts for PlannedRun: a route over two tasks, two phases in a row, and *)
(* a foreach task over the items of another.                               *)
(***************************************************************************)
EXTENDS PlannedRun

Blank ==
  [tasks |-> TaskIds, kind |-> [t \in TaskIds |-> "codex"],
   phase_id |-> [t \in TaskIds |-> "P"],
   depends_on |-> [t \in TaskIds |-> {}], phase_depends_on |-> [p \in PhaseIds |-> {}],
   refs |-> [t \in TaskIds |-> {}], route |-> <<>>, items |-> <<>>]

\* r chooses between m and c; d is on its own.
Routed ==
  [Blank EXCEPT
     !.depends_on = [Blank.depends_on EXCEPT !["m"] = {"r"}, !["c"] = {"r"}],
     !.route = "r" :> [values |-> {"x", "y"}, cases |-> ("x" :> {"m"}), default |-> {"c"}]]

\* r activates m and c for x, and c alone otherwise; m waits for d.
Overlapping ==
  [Routed EXCEPT
     !.depends_on = [Routed.depends_on EXCEPT !["m"] = {"r", "d"}],
     !.route = "r" :> [values |-> {"x", "y"}, cases |-> ("x" :> {"m", "c"}), default |-> {"c"}]]

\* Two routing tasks, each with one case task
TwoRoutes ==
  [Blank EXCEPT
     !.depends_on = [Blank.depends_on EXCEPT !["m"] = {"r"}, !["c"] = {"d"}],
     !.route = "r" :> [values |-> {"x", "y"}, cases |-> ("x" :> {"m"}), default |-> {}] @@
               "d" :> [values |-> {"x", "y"}, cases |-> ("y" :> {"c"}), default |-> {}]]

Phased ==
  [Blank EXCEPT
     !.phase_id = [Blank.phase_id EXCEPT !["c"] = "Q", !["d"] = "Q"],
     !.phase_depends_on = [Blank.phase_depends_on EXCEPT !["Q"] = {"P"}],
     !.depends_on = [Blank.depends_on EXCEPT !["m"] = {"r"}]]

Mapped ==
  [Blank EXCEPT
     !.depends_on = [Blank.depends_on EXCEPT !["m"] = {"r"}],
     !.items = "m" :> "r", !.kind = [Blank.kind EXCEPT !["d"] = "acp", !["c"] = "local"]]

MCTaskList == <<"d", "m", "r", "c">>
MCPhaseList == <<"Q", "P">>

AllDrafts == {Routed, Overlapping, TwoRoutes, Phased, Mapped}
=============================================================================
