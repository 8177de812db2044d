--------------------------- MODULE ModuleRegistry ---------------------------
(***************************************************************************)
(* Modules that an organization enables and disables, ivadoo/extensibility. *)
(* Whether the modules a module depends on, or that depend on it, are      *)
(* enabled is read before the transaction that changes its state.          *)
(***************************************************************************)
EXTENDS Integers, FiniteSets

CONSTANTS
    Modules,       \* registered ModuleManifest codes
    DependsOn,     \* the dependencies of each
    Required,      \* modules that are always enabled
    DefaultOn      \* modules that are enabled until somebody says otherwise

ASSUME ManifestsAreWellFormed ==
    /\ DependsOn \in [Modules -> SUBSET Modules]
    /\ \A m \in Modules : m \notin DependsOn[m]
    /\ Required \subseteq Modules /\ DefaultOn \subseteq Modules

\* extensibility/defaults.py registers each module with those that it depends on,
\* all of them enabled by default.
ASSUME DefaultsAreClosed ==
    \A m \in Required \union DefaultOn : DependsOn[m] \subseteq Required \union DefaultOn

VARIABLES
    installation,   \* state of the ModuleInstallation of each module
    switching       \* <<module, enable>> of calls that passed their checks

registry == <<installation, switching>>

\* No row, a row in one of two states; "installed" is overwritten on creation.
RegistryInit ==
    /\ installation = [m \in Modules |-> "default"]
    /\ switching = {}

\* is_module_enabled.
IsEnabled(m) == \/ m \in Required
                \/ installation[m] = "enabled"
                \/ installation[m] = "default" /\ m \in DefaultOn

\* dependents_of.
Dependents(m) == {n \in Modules : m \in DependsOn[n]}

\* Fault: whether other modules depend on it is not asked.
CheckOwnDependencies(m, enable) ==
    /\ enable \/ m \notin Required
    /\ enable => \A d \in DependsOn[m] : IsEnabled(d)
    /\ switching' = switching \union {<<m, enable>>}
    /\ UNCHANGED installation

\* set_module_state before its transaction.
CheckSwitch(m, enable) ==
    /\ enable \/ m \notin Required
    /\ IF enable THEN \A d \in DependsOn[m] : IsEnabled(d)
       ELSE \A n \in Dependents(m) : ~IsEnabled(n)
    /\ switching' = switching \union {<<m, enable>>}
    /\ UNCHANGED installation

Switch(m, enable) ==
    /\ <<m, enable>> \in switching
    /\ installation' = [installation EXCEPT ![m] =
                          IF enable THEN "enabled" ELSE "disabled"]
    /\ switching' = switching \ {<<m, enable>>}

-----------------------------------------------------------------------------
(* Properties.                                                             *)

RegistryTypeOK ==
    /\ installation \in [Modules -> {"default", "enabled", "disabled"}]
    /\ switching \subseteq Modules \X BOOLEAN

\* Every enabled module has the modules that it depends on.
DependenciesEnabled ==
    \A m \in Modules : IsEnabled(m) => \A d \in DependsOn[m] : IsEnabled(d)

=============================================================================
