-------------------------------- MODULE Access --------------------------------
(***************************************************************************)
(* Who may call what: Identity, Authorization and ModuleRegistry composed. *)
(* Every authenticated request passes the gate of the module it is for,    *)
(* and managing access or modules asks for a permission.                   *)
(***************************************************************************)
EXTENDS Authorization, ModuleRegistry

VARIABLE overlapped   \* were two switches of modules under way at a time (history)

access == <<identity, authorization, registry>>

AccessInit == IdentityInit /\ AuthorizationInit /\ RegistryInit

\* OpaqueBearerAuthentication.authenticate up to assert_api_module_enabled.
CallModule(s, m) == Resolve(s) /\ IsEnabled(m)

CallApi == \E s \in Sessions, m \in Modules : CallModule(s, m)

\* ModuleActionView.
ManageModules ==
    \E s \in Sessions :
       /\ Manages(s)
       /\ \E m \in Modules, enable \in BOOLEAN : CheckSwitch(m, enable)
       /\ EndCall(s)
       /\ UNCHANGED <<now, enabled, session, login, factors, authorization>>

SwitchModule ==
    /\ \E m \in Modules, enable \in BOOLEAN : Switch(m, enable)
    /\ UNCHANGED <<identity, authorization>>

AccessNext ==
    \/ (Tick \/ LogIn \/ CallApi \/ UseSession \/ ManageFactors \/ AdministerUsers)
         /\ UNCHANGED <<authorization, registry>>
    \/ ManageAccess /\ UNCHANGED registry
    \/ ManageModules \/ SwitchModule

AccessSpec == AccessInit /\ [][AccessNext]_access

\* The same, watched by a history variable.
WatchedInit == AccessInit /\ overlapped = FALSE
WatchedNext ==
    /\ AccessNext
    /\ overlapped' = (overlapped \/ \E x, y \in switching' : x # y)
WatchedSpec == WatchedInit /\ [][WatchedNext]_<<access, overlapped>>

-----------------------------------------------------------------------------
(* Properties.                                                             *)

AccessTypeOK == IdentityTypeOK /\ AuthorizationTypeOK /\ RegistryTypeOK

\* set_module_state keeps the modules that enabled ones depend on enabled, as
\* long as no two of its calls overlap ("Enable dependencies first", "Disable
\* dependent modules first").
DependenciesWhileAlone == overlapped \/ DependenciesEnabled

=============================================================================
