----------------------- MODULE AccountStoreRefinement -----------------------
(***************************************************************************)
(* AccountStore implements ConnectionDirectory as long as the process does *)
(* not die, roll-backs succeed and commands do not overlap: the switch     *)
(* takes effect when the registry is written, a deletion when the          *)
(* credential is gone.                                                     *)
(***************************************************************************)
EXTENDS AccountStore

\* The files as they were when the running command began, while it may still
\* take back what it did to them.
ConfigPending == pc \in {"auth", "route", "registry", "undoConfig"}
AuthPending == pc \in {"route", "registry", "undoConfig", "undoAuth"}
RegistryPending == cmd.late \/ pc \in {"secret", "file", "relist"}

CommittedConfig == ConfigText(IF ConfigPending THEN cmd.prev.config ELSE config)
CommittedAuth == IF AuthPending THEN cmd.prev.auth ELSE auth
CommittedRegistry == IF RegistryPending THEN cmd.reg ELSE ReadRegistry

Directory == INSTANCE ConnectionDirectory WITH
  listed <- CommittedRegistry.accounts,
  active <- CommittedRegistry.active,
  selected <- CommittedConfig.provider,
  login <- IF CommittedAuth = None THEN None ELSE CommittedAuth.owner

\* Every behaviour of the store is one of the directory.
ImplementsDirectory == Directory!Spec

=============================================================================
