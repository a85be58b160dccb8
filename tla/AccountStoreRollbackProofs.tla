--------------------- MODULE AccountStoreRollbackProofs ---------------------
(***************************************************************************)
(* When commands do not overlap, the process does not die and roll-backs   *)
(* succeed, the files of AccountStore fit together between commands, for   *)
(* every instance and even with a Codex beside the commands.  When no      *)
(* Codex replaces the login meanwhile either, a failed switch leaves the   *)
(* files as they were, a switch that succeeds installs one connection      *)
(* everywhere, and the store implements ConnectionDirectory.  Two          *)
(* properties survive a crash and a failed roll-back: a listed connection  *)
(* stays usable, and its provider table is not dropped.                    *)
(***************************************************************************)
EXTENDS AccountStoreProofs, AccountStoreRefinement

\* A write that fails leaves the old file or the new one, and one that puts
\* a file back succeeds.
Reliable == Faults \cap {"undo", "crash"} = {} /\ ~ Windows

\* The steps after which the route may still be put back.
RoutePending == pc \in {"registry", "undoConfig", "undoAuth", "undoRoute"}
CommittedRoute == IF RoutePending THEN cmd.prev.route ELSE route

\* Steps at which a switch has computed what it installs.
InstallSteps == {"config", "auth", "route", "registry"}

\* The provider connection c selects; the account a login is of.
ProviderOf(c) == IF c \in Apis THEN c ELSE None
OwnerOf(a) == IF a = None THEN None ELSE a.owner

\* The API connection in use, or None.
ActiveApi(r) == IF ActiveIsApi(r) THEN r.active ELSE None

(***************************************************************************)
(* The registry and what the running command will make of it.              *)
(***************************************************************************)
\* r lists what the registry lists, or adopts the login in auth.json too.
Adopts(r) ==
  /\ ~ ActiveIsApi(ReadRegistry)
  /\ \E p \in Plus :
       /\ r = [active |-> p, accounts |-> ReadRegistry.accounts \cup {p}]
       /\ Serial => auth \in Auth /\ auth.owner = p

\* What the running command holds of the registry.
PendingInv ==
  /\ pc \in {"snapshot", "commit"} => cmd.reg = ReadRegistry \/ Adopts(cmd.reg)
  /\ pc \in {"unlist", "secret", "file", "relist"} =>
       cmd.target \in cmd.reg.accounts /\ cmd.target # cmd.reg.active
  /\ pc \in {"secret", "file", "relist"} =>
       ReadRegistry = [cmd.reg EXCEPT !.accounts = @ \ {cmd.target}]
  /\ pc = "catalogGone" => cmd.target # ReadRegistry.active
  /\ cmd.late => pc \in UndoSteps
  /\ pc = "undoRegistry" => cmd.late
  /\ save.pc \in {"store", "write"} => save.reg = ReadRegistry

\* A file the switch has not replaced, or has put back, is as it was read.
BackupInv ==
  pc \in AfterRead =>
    /\ ~ ConfigPending => config = cmd.prev.config
    /\ ~ AuthPending /\ Serial => auth = cmd.prev.auth
    /\ ~ RoutePending => route = cmd.prev.route
    /\ pc \in {"prepare", "catalog", "undoRegistry"} /\ cmd.target \in Apis =>
         cmd.prev.catalog = (cmd.target \in catalogs)
    /\ cmd.target \in Apis /\ ~ cmd.prev.catalog =>
         ConfigText(cmd.prev.config).provider # cmd.target

\* What a switch is going to install, and the part of it that is written.
InstallInv ==
  pc \in InstallSteps =>
    /\ cmd.nextConfig \in Config
    /\ cmd.nextConfig.provider = ProviderOf(cmd.target)
    /\ cmd.nextConfig.keys = {cmd.target} \cap Apis
    /\ cmd.reg.accounts \cap Apis \subseteq cmd.nextConfig.defs
    /\ cmd.target \in Apis => cmd.target \in catalogs
    /\ cmd.target \in Plus =>
         cmd.nextAuth = [owner |-> cmd.target, token |-> snapshot[cmd.target]]
    /\ cmd.nextAuth \in Auth
    /\ cmd.target \in Apis => cmd.nextAuth.owner \in cmd.reg.accounts \cup {OwnerOf(cmd.prev.auth)}
    /\ ConfigPending => config = cmd.nextConfig
    /\ AuthPending /\ Serial => auth = cmd.nextAuth
    /\ RoutePending => route = [key |-> cmd.target, provider |-> cmd.nextConfig.provider]

\* The files as the last completed command left them fit together.
CommittedInv ==
  /\ CommittedConfig.provider = ActiveApi(CommittedRegistry)
  /\ CommittedConfig.keys \subseteq {CommittedConfig.provider}
  /\ CommittedConfig.provider \in catalogs \cup {None}
  /\ CommittedRoute # None => CommittedRoute.provider = CommittedConfig.provider
  /\ pc \in SwitchSteps => CommittedConfig.fileAuth

\* All of it: the inductive invariant.
StoreInv ==
  /\ PendingInv /\ BackupInv /\ InstallInv /\ CommittedInv
  /\ BaselineIsPlusConfig /\ KeyOnlyWhileActive

-----------------------------------------------------------------------------
(***************************************************************************)
(* What writes and the locals of a command come to.                        *)
(***************************************************************************)

\* A write that fails leaves the old file or the new one.
LEMMA FailedWrites ==
  ASSUME ~ Windows
  PROVE  \A old, new : AfterFailedWrite(old, new) \subseteq {old, new}
BY DEF AfterFailedWrite

\* A write that puts a file back succeeds, and the process does not die.
LEMMA ReliableWrites ==
  ASSUME Reliable
  PROVE  /\ \A old, new : AfterFailedWrite(old, new) \subseteq {old, new}
         /\ "undo" \notin Faults /\ "crash" \notin Faults /\ ~ Windows
BY FailedWrites DEF Reliable

\* A registry that was absent reads like an empty one after as before.
LEMMA RegistryReads ==
  ASSUME NEW new \in Registry, registry' \in {new, registry}
  PROVE  /\ ReadRegistry' \in {new, ReadRegistry}
         /\ registry' = new => ReadRegistry' = new
BY NoneAssumption DEF ReadRegistry

\* What a command that begins puts into its locals.
LEMMA BegunSteps ==
  /\ MarkInvalidBegin => cmd'.reg = ReadRegistry /\ ~ cmd'.late
  /\ SaveCurrentOfApi => cmd'.reg = ReadRegistry /\ ~ cmd'.late
  /\ SaveCurrentBegin =>
       /\ cmd'.reg = [active |-> auth.owner,
                      accounts |-> ReadRegistry.accounts \cup {auth.owner}]
       /\ cmd'.nextAuth = auth
       /\ ~ cmd'.late
  /\ \A t \in Conn : SwitchBegin(t) \/ DeleteBegin(t) =>
       cmd'.reg = ReadRegistry /\ cmd'.target = t /\ ~ cmd'.late
<1>1. MarkInvalidBegin => cmd'.reg = ReadRegistry /\ ~ cmd'.late
  BY BegunLocals DEF MarkInvalidBegin
<1>2. SaveCurrentOfApi => cmd'.reg = ReadRegistry /\ ~ cmd'.late
  <2> SUFFICES ASSUME SaveCurrentOfApi
               PROVE  cmd'.reg = ReadRegistry /\ ~ cmd'.late
    OBVIOUS
  <2>1. cmd' = [NoCommand EXCEPT !.target = ReadRegistry.active, !.reg = ReadRegistry]
    BY DEF SaveCurrentOfApi
  <2>2. QED
    BY <2>1, BegunLocals
<1>3. SaveCurrentBegin =>
        /\ cmd'.reg = [active |-> auth.owner,
                       accounts |-> ReadRegistry.accounts \cup {auth.owner}]
        /\ cmd'.nextAuth = auth
        /\ ~ cmd'.late
  <2> DEFINE r == [active |-> auth.owner, accounts |-> ReadRegistry.accounts \cup {auth.owner}]
  <2> SUFFICES ASSUME SaveCurrentBegin
               PROVE  cmd'.reg = r /\ cmd'.nextAuth = auth /\ ~ cmd'.late
    OBVIOUS
  <2>1. cmd' = [NoCommand EXCEPT !.reg = r, !.nextAuth = auth]
    BY DEF SaveCurrentBegin
  <2> HIDE DEF r
  <2> DEFINE new == [NoCommand EXCEPT !.reg = r, !.nextAuth = auth]
  <2>2. new.reg = r /\ new.nextAuth = auth /\ ~ new.late
    BY DEF NoCommand
  <2> HIDE DEF new
  <2>3. QED
    BY <2>1, <2>2 DEF new
<1>4. \A t \in Conn : SwitchBegin(t) \/ DeleteBegin(t) =>
        cmd'.reg = ReadRegistry /\ cmd'.target = t /\ ~ cmd'.late
  <2> SUFFICES ASSUME NEW t \in Conn, SwitchBegin(t) \/ DeleteBegin(t)
               PROVE  cmd'.reg = ReadRegistry /\ cmd'.target = t /\ ~ cmd'.late
    OBVIOUS
  <2>1. cmd' = [NoCommand EXCEPT !.target = t, !.reg = ReadRegistry]
    BY DEF SwitchBegin, DeleteBegin
  <2>2. QED
    BY <2>1, BegunLocals
<1>5. QED
  BY <1>1, <1>2, <1>3, <1>4

\* Every step keeps the lists a command is going to write those it should.
LEMMA PendingStep ==
  OneWriter /\ Reliable /\ TypeInv /\ RegistryInv /\ PendingInv /\ [Next]_vars => PendingInv'
<1> SUFFICES ASSUME OneWriter, Reliable, TypeInv, RegistryInv, PendingInv, [Next]_vars
             PROVE  PendingInv'
  OBVIOUS
<1> USE DEF PendingInv, SwitchSteps, UndoSteps
<1>0. cmd \in Command /\ save \in ApiSave /\ ReadRegistry \in Registry
  BY ReadTypes DEF TypeInv, TypeOK
<1>1. CASE MarkInvalidBegin
  <2>1. cmd'.reg = ReadRegistry /\ ~ cmd'.late
    BY <1>1, BegunSteps
  <2>2. pc = "idle" /\ pc' = "commit" /\ save.pc = "idle" /\ UNCHANGED <<registry, save>>
    BY <1>1 DEF MarkInvalidBegin, MainMayStart, OneWriter, files
  <2>3. QED
    BY <2>1, <2>2 DEF ReadRegistry
<1>2. CASE SaveCurrentOfApi
  <2>1. cmd'.reg = ReadRegistry /\ ~ cmd'.late
    BY <1>2, BegunSteps
  <2>2. pc = "idle" /\ pc' = "commit" /\ save.pc = "idle" /\ UNCHANGED <<registry, save>>
    BY <1>2 DEF SaveCurrentOfApi, MainMayStart, OneWriter, files
  <2>3. QED
    BY <2>1, <2>2 DEF ReadRegistry
<1>3. CASE SaveCurrentBegin
  <2>1. /\ cmd'.reg = [active |-> auth.owner, accounts |-> ReadRegistry.accounts \cup {auth.owner}]
        /\ ~ cmd'.late
    BY <1>3, BegunSteps
  <2>2. /\ pc = "idle" /\ pc' = "snapshot" /\ save.pc = "idle"
        /\ UNCHANGED <<registry, auth, save>>
        /\ ~ ActiveIsApi(ReadRegistry) /\ auth \in Auth
    BY <1>3 DEF SaveCurrentBegin, MainMayStart, OneWriter, files, TypeInv, TypeOK, FileTypes
  <2>3. ReadRegistry' = ReadRegistry
    BY <2>2 DEF ReadRegistry
  <2>4. Adopts(cmd.reg)'
    <3>1. auth.owner \in Plus /\ auth' \in Auth /\ auth'.owner = auth.owner
      BY <2>2 DEF Auth
    <3>2. ~ ActiveIsApi(ReadRegistry)'
      BY <2>2, <2>3 DEF ActiveIsApi
    <3>3. cmd'.reg = [active |-> auth.owner, accounts |-> ReadRegistry'.accounts \cup {auth.owner}]
      BY <2>1, <2>3
    <3>4. QED
      BY <3>1, <3>2, <3>3 DEF Adopts
  <2>5. QED
    BY <2>1, <2>2, <2>4
<1>4. CASE SaveCurrentSnapshot
  <2>1. /\ pc = "snapshot" /\ UNCHANGED <<registry, auth, save>>
        /\ \/ pc' = "commit" /\ cmd' = cmd
           \/ pc' = "idle" /\ cmd' = NoCommand
    BY <1>4 DEF SaveCurrentSnapshot, WriteSnapshot, KeepLocals
  <2>2. QED
    BY <2>1, IdleLocals DEF RegistryInv, Adopts, ActiveIsApi, ReadRegistry
<1>5. CASE WriteRegistry \/ UndoRegistry \/ DeleteRelist
  <2>1. pc # "idle" /\ pc' = "idle" /\ cmd' = NoCommand /\ save' = save
    BY <1>5 DEF WriteRegistry, UndoRegistry, DeleteRelist, Write, Restore, KeepLocals
  <2>2. QED
    BY <2>1, IdleLocals DEF RegistryInv
<1>6. ASSUME NEW t \in Conn, SwitchBegin(t)
      PROVE  PendingInv'
  <2>1. ~ cmd'.late
    BY <1>6, BegunSteps
  <2>2. pc = "idle" /\ pc' = "sync" /\ save.pc = "idle" /\ UNCHANGED save
    BY <1>6 DEF SwitchBegin, MainMayStart, OneWriter
  <2>3. QED
    BY <2>1, <2>2
<1>7. CASE SwitchSync \/ SwitchBaseline \/ SwitchWriteConfig \/ SwitchWriteAuth \/ SwitchWriteRoute
  <2>1. /\ pc \in SwitchSteps \ UndoSteps /\ save' = save
        /\ pc' \in (SwitchSteps \cup {"idle"}) \ {"undoRegistry"}
        /\ cmd' \in {cmd, NoCommand}
    BY <1>7
       DEF SwitchSync, SwitchBaseline, SwitchWriteConfig, SwitchWriteAuth, SwitchWriteRoute,
           Write, WriteSnapshot, KeepLocals
  <2>2. QED
    BY <2>1, IdleLocals DEF RegistryInv
<1>8. CASE SwitchRead \/ SwitchCatalog \/ SwitchToPlus
  <2>1. /\ pc \in SwitchSteps \ UndoSteps /\ save' = save
        /\ pc' \in {"prepare", "config", "idle"}
        /\ ~ cmd'.late
    BY <1>0, <1>8, StepLocals, IdleLocals
       DEF SwitchRead, SwitchCatalog, SwitchToPlus, files, RegistryInv
  <2>2. QED
    BY <2>1 DEF RegistryInv
<1>9. CASE SwitchCommit
  <2>1. /\ pc = "registry" /\ save' = save
        /\ \/ pc' = "idle" /\ cmd' = NoCommand
           \/ pc' = "undoConfig"
    BY <1>9 DEF SwitchCommit, Write
  <2>2. QED
    BY <2>1, IdleLocals DEF RegistryInv
<1>10. CASE UndoConfig \/ UndoAuth \/ UndoRoute
  <2>1. pc \in UndoSteps /\ pc' \in {"undoAuth", "undoRoute", "undoCatalog"}
        /\ UNCHANGED <<cmd, save>>
    BY <1>10 DEF UndoConfig, UndoAuth, UndoRoute, Restore, KeepLocals
  <2>2. QED
    BY <2>1 DEF RegistryInv
<1>11. CASE UndoCatalog
  <2>1. /\ pc = "undoCatalog" /\ UNCHANGED save
        /\ \/ pc' = "idle" /\ cmd' = NoCommand
           \/ pc' = "undoRegistry" /\ cmd.late /\ cmd' = cmd
    BY <1>11 DEF UndoCatalog, KeepLocals
  <2>2. QED
    BY <2>1, IdleLocals DEF RegistryInv
<1>12. ASSUME NEW t \in Conn, DeleteBegin(t)
       PROVE  PendingInv'
  <2>1. cmd'.reg = ReadRegistry /\ cmd'.target = t /\ ~ cmd'.late
    BY <1>12, BegunSteps
  <2>2. /\ pc = "idle" /\ pc' = "unlist" /\ save.pc = "idle" /\ UNCHANGED save
        /\ t \in ReadRegistry.accounts /\ t # ReadRegistry.active
    BY <1>12 DEF DeleteBegin, MainMayStart, OneWriter
  <2>3. QED
    BY <2>1, <2>2
<1>13. CASE DeleteUnlist
  <2> DEFINE new == [cmd.reg EXCEPT !.accounts = @ \ {cmd.target}]
  <2>1. new \in Registry
    BY <1>0 DEF Command, Registry
  <2>2. /\ pc = "unlist" /\ save' = save
        /\ pc' \in {"secret", "file", "idle"}
        /\ registry' \in {new} \cup AfterFailedWrite(registry, new)
        /\ pc' # "idle" => registry' = new
        /\ cmd' = IF pc' = "idle" THEN NoCommand ELSE cmd
    BY <1>13 DEF DeleteUnlist, Write, KeepLocals
  <2>3. pc' # "idle" => ReadRegistry' = new
    BY <2>1, <2>2, NoneAssumption DEF ReadRegistry
  <2>4. CASE pc' = "idle"
    BY <2>2, <2>4, IdleLocals DEF RegistryInv
  <2>5. CASE pc' # "idle"
    BY <2>2, <2>3, <2>5 DEF RegistryInv
  <2>6. QED
    BY <2>4, <2>5
<1>14. CASE DeleteSecret
  <2>1. ReadRegistry' = ReadRegistry
    BY <1>14 DEF DeleteSecret, ReadRegistry
  <2>2. pc = "secret" /\ pc' \in {"catalogGone", "relist"} /\ UNCHANGED <<cmd, save>>
    BY <1>14 DEF DeleteSecret
  <2>3. QED
    BY <2>1, <2>2 DEF RegistryInv
<1>15. CASE DeleteCatalog
  <2>1. pc = "catalogGone" /\ pc' = "idle" /\ cmd' = NoCommand /\ save' = save
    BY <1>15 DEF DeleteCatalog, KeepLocals
  <2>2. QED
    BY <2>1, IdleLocals DEF RegistryInv
<1>16. CASE DeleteSnapshot
  <2>1. ReadRegistry' = ReadRegistry
    BY <1>16 DEF DeleteSnapshot, ReadRegistry
  <2>2. /\ pc = "file" /\ pc' \in {"idle", "relist"} /\ save' = save
        /\ cmd' = IF pc' = "idle" THEN NoCommand ELSE cmd
    BY <1>16 DEF DeleteSnapshot, KeepLocals
  <2>3. QED
    BY <2>1, <2>2, IdleLocals DEF RegistryInv
<1>17. CASE Repair
  <2>1. /\ pc \in {"idle", "historyRoute"} /\ pc' \in {"idle", "historyRoute"}
        /\ UNCHANGED <<registry, cmd, save>>
    BY <1>17 DEF Repair, EnsureFileAuth, EnsureProviders, EnsureRoute, Write, MainMayStart
  <2>2. ReadRegistry' = ReadRegistry
    BY <2>1 DEF ReadRegistry
  <2>3. QED
    BY <2>1, <2>2
<1>18. ASSUME NEW a \in Apis, SaveApiBegin(a)
       PROVE  PendingInv'
  <2>1. pc = "idle" /\ UNCHANGED <<registry, pc, cmd>> /\ save'.reg = ReadRegistry
    BY <1>18 DEF SaveApiBegin, OneWriter, files
  <2>2. QED
    BY <2>1 DEF ReadRegistry
<1>19. CASE SaveApiSecret
  <2>1. save.pc = "store" /\ UNCHANGED <<registry, pc, cmd>>
        /\ (save'.reg = save.reg \/ save' = NoSave)
    BY <1>0, <1>19 DEF SaveApiSecret, ApiSave
  <2>2. QED
    BY <2>1, IdleLocals DEF ReadRegistry, RegistryInv
<1>20. CASE SaveApiRegistry \/ SaveApiUndo
  <2>1. save.pc # "idle" /\ UNCHANGED <<pc, cmd>> /\ save'.pc \in {"undo", "idle"}
    BY <1>0, <1>20, IdleLocals DEF SaveApiRegistry, SaveApiUndo, ApiSave
  <2>2. QED
    BY <2>1 DEF RegistryInv
<1>21. CASE Codex
  <2>1. UNCHANGED <<registry, pc, cmd, save>> /\ (Serial => pc = "idle")
    BY <1>21 DEF Codex, CodexRefresh, CodexLogin, CodexMayRun, Serial
  <2>2. ReadRegistry' = ReadRegistry
    BY <2>1 DEF ReadRegistry
  <2>3. pc # "idle" /\ Adopts(cmd.reg) => Adopts(cmd.reg)'
    BY <2>1, <2>2 DEF Adopts, ActiveIsApi
  <2>4. QED
    BY <2>1, <2>2, <2>3
<1>22. CASE UNCHANGED vars
  BY <1>22 DEF vars, files, Adopts, ActiveIsApi, ReadRegistry
<1>23. QED
  <2>1. ~ Crash
    BY ReliableWrites DEF Crash
  <2>2. QED
    BY <1>1, <1>2, <1>3, <1>4, <1>5, <1>6, <1>7, <1>8, <1>9, <1>10, <1>11, <1>12, <1>13,
       <1>14, <1>15, <1>16, <1>17, <1>18, <1>19, <1>20, <1>21, <1>22, <2>1
       DEF Next, SaveCurrent, Switch, Delete, SaveApi

-----------------------------------------------------------------------------
(***************************************************************************)
(* The steps of a switch, and what they write.                             *)
(***************************************************************************)
LaterSteps ==
  \/ SwitchRead \/ SwitchBaseline \/ SwitchCatalog \/ SwitchToPlus
  \/ SwitchWriteConfig \/ SwitchWriteAuth \/ SwitchWriteRoute \/ SwitchCommit
  \/ UndoConfig \/ UndoAuth \/ UndoRoute \/ UndoCatalog

\* What a Codex beside a switch does to what the switch works on.
Beside == ~ Serial /\ UNCHANGED <<config, route, catalogs, snapshot, pc, cmd>>

\* Nothing but the switch itself, and perhaps a Codex, runs between its steps.
LEMMA NextLater ==
  ASSUME OneWriter, Reliable, RegistryInv, [Next]_vars, pc' \in AfterRead
  PROVE  LaterSteps \/ Beside \/ UNCHANGED vars
<1> USE DEF AfterRead, AfterSync, SwitchSteps
<1>1. ~ SaveCurrent /\ ~ Delete /\ ~ Repair /\ ~ Crash
  BY ReliableWrites
     DEF SaveCurrent, MarkInvalidBegin, SaveCurrentOfApi, SaveCurrentBegin,
         SaveCurrentSnapshot, WriteSnapshot, WriteRegistry, Delete, DeleteBegin, DeleteUnlist,
         DeleteSecret, DeleteCatalog, DeleteSnapshot, DeleteRelist, Repair, EnsureFileAuth,
         EnsureProviders, EnsureRoute, Write, Restore, Crash
<1>2. Codex => Beside
  BY DEF Codex, CodexRefresh, CodexLogin, CodexMayRun, Serial, Beside
<1>3. ~ SaveApi
  BY DEF SaveApi, SaveApiBegin, SaveApiSecret, SaveApiRegistry, SaveApiUndo, RegistryInv,
         OneWriter
<1>4. ~ SwitchSync /\ ~ UndoRegistry /\ \A t \in Conn : ~ SwitchBegin(t)
  BY DEF SwitchSync, WriteSnapshot, UndoRegistry, Restore, SwitchBegin
<1>5. QED
  BY <1>1, <1>2, <1>3, <1>4 DEF Next, Switch, LaterSteps

\* What the record of the files read holds.
LEMMA ReadFields ==
  ASSUME NEW prev, NEW cfg, NEW login, NEW r, NEW listed \in BOOLEAN,
         prev = [config |-> cfg, auth |-> login, route |-> r, catalog |-> listed]
  PROVE  /\ prev.config = cfg /\ prev.auth = login /\ prev.route = r
         /\ prev.catalog <=> listed
OBVIOUS

\* The locals of a switch once it has read the files.
LEMMA PrevLocals ==
  ASSUME cmd \in Command
  PROVE  /\ SwitchRead /\ pc' # "idle" =>
              /\ pc' = "prepare"
              /\ cmd'.target = cmd.target /\ cmd'.reg = cmd.reg /\ cmd'.late = cmd.late
              /\ cmd'.prev.config = config /\ cmd'.prev.auth = auth /\ cmd'.prev.route = route
              /\ cmd'.prev.catalog <=> cmd.target \in catalogs
<1> DEFINE prev == [config |-> config, auth |-> auth, route |-> route,
                    catalog |-> cmd.target \in catalogs]
<1> SUFFICES ASSUME SwitchRead, pc' # "idle"
             PROVE  /\ pc' = "prepare"
                    /\ cmd'.target = cmd.target /\ cmd'.reg = cmd.reg /\ cmd'.late = cmd.late
                    /\ cmd'.prev.config = config /\ cmd'.prev.auth = auth
                    /\ cmd'.prev.route = route
                    /\ cmd'.prev.catalog <=> cmd.target \in catalogs
  OBVIOUS
<1>1. pc' = "prepare" /\ cmd' = [cmd EXCEPT !.prev = prev]
  BY DEF SwitchRead
<1>2. /\ prev.config = config /\ prev.auth = auth /\ prev.route = route
      /\ prev.catalog <=> cmd.target \in catalogs
  BY ReadFields
<1> HIDE DEF prev
<1>3. cmd'.target = cmd.target /\ cmd'.reg = cmd.reg /\ cmd'.late = cmd.late /\ cmd'.prev = prev
  BY <1>1, ReadLocals
<1>4. QED
  BY <1>1, <1>2, <1>3

\* Every step keeps or puts back the files as the switch read them.
LEMMA BackupStep ==
  ASSUME OneWriter, Reliable, TypeInv, RegistryInv, PendingInv, BackupInv, CommittedInv,
         [Next]_vars
  PROVE  BackupInv'
<1> SUFFICES ASSUME pc' \in AfterRead PROVE BackupInv'
  BY DEF BackupInv
<1> USE DEF BackupInv, AfterRead, AfterSync, SwitchSteps, ConfigPending, AuthPending,
            RoutePending
<1>0. /\ cmd \in Command /\ cmd.prev.catalog \in BOOLEAN
      /\ None \notin Apis
  BY AccountAssumption DEF TypeInv, TypeOK, Command, Files
<1>1. CASE SwitchRead
  <2>1. pc = "read" /\ UNCHANGED files
    BY <1>1 DEF SwitchRead
  <2>2. /\ pc' = "prepare" /\ cmd'.target = cmd.target
        /\ cmd'.prev.config = config /\ cmd'.prev.auth = auth /\ cmd'.prev.route = route
        /\ cmd'.prev.catalog <=> cmd.target \in catalogs
    BY <1>0, <1>1, PrevLocals
  <2>3. cmd'.prev.catalog \in BOOLEAN
    BY TypeStep DEF TypeInv, TypeOK, Command, Files
  <2>4. ConfigText(config).provider \in catalogs \cup {None}
    BY <2>1 DEF CommittedInv, CommittedConfig
  <2>5. ConfigText(cmd.prev.config)' = ConfigText(config)
    BY <2>2 DEF ConfigText
  <2>6. QED
    BY <1>0, <2>1, <2>2, <2>3, <2>4, <2>5 DEF files
<1>2. CASE SwitchBaseline
  <2>1. /\ pc = "prepare" /\ pc' = "catalog" /\ cmd' = cmd
        /\ UNCHANGED <<config, auth, route, catalogs>>
    BY <1>2 DEF SwitchBaseline, Write, KeepLocals
  <2>2. QED
    BY <2>1
<1>3. CASE SwitchCatalog \/ SwitchToPlus
  <2>1. /\ pc \in {"prepare", "catalog"} /\ pc' = "config"
        /\ cmd'.target = cmd.target /\ cmd'.prev = cmd.prev
    BY <1>0, <1>3, StepLocals DEF SwitchCatalog, SwitchToPlus
  <2>2. UNCHANGED <<config, auth, route>>
    BY <1>3 DEF SwitchCatalog, SwitchToPlus, files
  <2>3. QED
    BY <2>1, <2>2
<1>4. CASE SwitchWriteConfig
  <2>1. pc = "config" /\ pc' \in {"auth", "undoConfig"} /\ cmd' = cmd /\ UNCHANGED <<auth, route>>
    BY <1>4 DEF SwitchWriteConfig, Write, KeepLocals
  <2>2. QED
    BY <2>1
<1>5. CASE SwitchWriteAuth
  <2>1. pc = "auth" /\ pc' \in {"route", "undoConfig"} /\ cmd' = cmd /\ UNCHANGED <<config, route>>
    BY <1>5 DEF SwitchWriteAuth, Write, KeepLocals
  <2>2. QED
    BY <2>1
<1>6. CASE SwitchWriteRoute
  <2>1. pc = "route" /\ pc' \in {"registry", "undoConfig"} /\ cmd' = cmd
    BY <1>6 DEF SwitchWriteRoute, Write, KeepLocals
  <2>2. QED
    BY <2>1
<1>7. CASE SwitchCommit
  <2>1. pc = "registry" /\ pc' = "undoConfig" /\ cmd'.target = cmd.target /\ cmd'.prev = cmd.prev
    BY <1>0, <1>7, LateLocals DEF SwitchCommit, Write
  <2>2. QED
    BY <2>1
<1>8. CASE UndoConfig
  <2>1. pc = "undoConfig" /\ pc' = "undoAuth" /\ cmd' = cmd /\ config' = cmd.prev.config
    BY <1>8, ReliableWrites DEF UndoConfig, Restore, KeepLocals
  <2>2. QED
    BY <2>1
<1>9. CASE UndoAuth
  <2>1. /\ pc = "undoAuth" /\ pc' = "undoRoute" /\ cmd' = cmd /\ auth' = cmd.prev.auth
        /\ config' = config
    BY <1>9, ReliableWrites DEF UndoAuth, Restore, KeepLocals
  <2>2. QED
    BY <2>1
<1>10. CASE UndoRoute
  <2>1. /\ pc = "undoRoute" /\ pc' = "undoCatalog" /\ cmd' = cmd /\ route' = cmd.prev.route
        /\ UNCHANGED <<config, auth>>
    BY <1>10, ReliableWrites DEF UndoRoute, Restore, KeepLocals
  <2>2. QED
    BY <2>1
<1>11. CASE UndoCatalog
  <2>1. /\ pc = "undoCatalog" /\ pc' = "undoRegistry" /\ cmd' = cmd
        /\ UNCHANGED <<config, auth, route>>
    BY <1>11 DEF UndoCatalog, KeepLocals
  <2>2. cmd.target \in Apis => cmd.prev.catalog = (cmd.target \in catalogs')
    BY <1>0, <1>11, ReliableWrites, AccountAssumption DEF UndoCatalog
  <2>3. QED
    BY <2>1, <2>2
<1>12. CASE UNCHANGED vars
  BY <1>12 DEF vars, files
<1>13. CASE Beside
  <2>1. ConfigText(cmd.prev.config)' = ConfigText(cmd.prev.config)
    BY <1>13 DEF Beside, ConfigText
  <2>2. QED
    BY <1>13, <2>1 DEF Beside
<1>14. QED
  BY <1>1, <1>2, <1>3, <1>4, <1>5, <1>6, <1>7, <1>8, <1>9, <1>10, <1>11, <1>12, <1>13,
     NextLater DEF LaterSteps

\* The config a switch installs, whatever the baseline it is built on.
LEMMA ApiInstall ==
  ASSUME NEW base \in Config, base.keys = {}, NEW a \in Apis, NEW r \in Registry,
         NEW c, c = RetainProviders(ApiConfig(base, a), r)
  PROVE  /\ c \in Config
         /\ c.provider = a /\ c.keys = {a}
         /\ r.accounts \cap Apis \subseteq c.defs
<1>1. /\ ApiConfig(base, a) \in Config
      /\ ApiConfig(base, a).provider = a /\ ApiConfig(base, a).keys = {a}
  BY DEF ApiConfig, Config
<1>2. QED
  BY <1>1 DEF RetainProviders, Config, Registry, Conn

\* The same for a ChatGPT account, on a base that selects no API provider.
LEMMA PlusInstall ==
  ASSUME NEW base \in Config, base.provider = None, base.keys = {}, NEW r \in Registry,
         NEW c, c = RetainProviders(base, r)
  PROVE  /\ c \in Config
         /\ c.provider = None /\ c.keys = {}
         /\ r.accounts \cap Apis \subseteq c.defs
BY DEF RetainProviders, Config, Registry, Conn

\* What a switch has in hand once its config and login are computed.
LEMMA PreparedConfig ==
  ASSUME cmd \in Command
  PROVE  /\ SwitchCatalog /\ pc' # "idle" =>
              /\ baseline # None /\ catalogs' = catalogs \cup {cmd.target}
              /\ cmd'.nextConfig = RetainProviders(ApiConfig(ApiBase, cmd.target), cmd.reg)
         /\ SwitchToPlus /\ pc' # "idle" =>
              /\ PlusBase # None
              /\ cmd'.nextConfig = RetainProviders(PlusBase, cmd.reg)
<1>1. ASSUME SwitchCatalog, pc' # "idle"
      PROVE  /\ baseline # None /\ catalogs' = catalogs \cup {cmd.target}
             /\ cmd'.nextConfig = RetainProviders(ApiConfig(ApiBase, cmd.target), cmd.reg)
  <2> DEFINE new == RetainProviders(ApiConfig(ApiBase, cmd.target), cmd.reg)
  <2>1. /\ baseline # None /\ catalogs' = catalogs \cup {cmd.target}
        /\ \E a \in AuthsForApi(cmd.reg, cmd.prev.auth) :
             cmd' = [cmd EXCEPT !.nextConfig = new, !.nextAuth = a]
    BY <1>1 DEF SwitchCatalog
  <2> HIDE DEF new
  <2>2. cmd'.nextConfig = new
    BY <2>1 DEF Command
  <2>3. QED
    BY <2>1, <2>2 DEF new
<1>2. ASSUME SwitchToPlus, pc' # "idle"
      PROVE  PlusBase # None /\ cmd'.nextConfig = RetainProviders(PlusBase, cmd.reg)
  <2> DEFINE new == RetainProviders(PlusBase, cmd.reg)
             login == [owner |-> cmd.target, token |-> snapshot[cmd.target]]
  <2>1. PlusBase # None /\ cmd' = [cmd EXCEPT !.nextConfig = new, !.nextAuth = login]
    BY <1>2 DEF SwitchToPlus
  <2> HIDE DEF new, login
  <2>2. cmd'.nextConfig = new
    BY <2>1 DEF Command
  <2>3. QED
    BY <2>1, <2>2 DEF new
<1>3. QED
  BY <1>1, <1>2

\* Every step of a switch writes what was prepared for its connection.
LEMMA InstallStep ==
  ASSUME OneWriter, Reliable, TypeInv, RegistryInv, PendingInv, BackupInv, InstallInv,
         CommittedInv, BaselineIsPlusConfig, [Next]_vars
  PROVE  InstallInv'
<1> SUFFICES ASSUME pc' \in InstallSteps PROVE InstallInv'
  BY DEF InstallInv
<1> USE DEF InstallInv, InstallSteps, ConfigPending, AuthPending, RoutePending
<1>0. /\ cmd \in Command /\ cmd.reg \in Registry /\ None \notin Apis
      /\ baseline \in Config \cup {None} /\ config \in Config \cup {None}
      /\ auth \in Auth \cup {None} /\ snapshot \in [Plus -> Token \cup {None}]
      /\ Plus \cap Apis = {}
  BY AccountAssumption DEF TypeInv, TypeOK, Command, FileTypes
<1>1. CASE SwitchCatalog
  <2>1. /\ pc = "catalog" /\ pc' = "config" /\ cmd.target \in Apis
        /\ cmd'.target = cmd.target /\ cmd'.reg = cmd.reg /\ cmd'.prev = cmd.prev
        /\ cmd'.nextAuth \in AuthsForApi(cmd.reg, cmd.prev.auth)
    BY <1>0, <1>1, StepLocals DEF SwitchCatalog, TypeInv, LocalsOK
  <2>2. /\ baseline # None /\ catalogs' = catalogs \cup {cmd.target}
        /\ cmd'.nextConfig = RetainProviders(ApiConfig(ApiBase, cmd.target), cmd.reg)
    BY <1>0, <1>1, <2>1, PreparedConfig
  <2>3. /\ cmd'.nextConfig \in Config
        /\ cmd'.nextConfig.provider = cmd.target /\ cmd'.nextConfig.keys = {cmd.target}
        /\ cmd.reg.accounts \cap Apis \subseteq cmd'.nextConfig.defs
    BY <1>0, <2>1, <2>2, ApiInstall DEF ApiBase, BaselineIsPlusConfig
  <2>4. cmd.prev.auth \in Auth \cup {None}
    BY DEF TypeInv, TypeOK, Command, Files
  <2>5. cmd'.nextAuth \in Auth
    BY <1>0, <2>1, <2>4, AuthsForApiType DEF TypeInv, TypeOK
  <2>6. cmd'.nextAuth.owner \in cmd.reg.accounts \cup {OwnerOf(cmd.prev.auth)}
    <3>1. HasTokens(cmd.prev.auth) => cmd.prev.auth # None
      BY DEF HasTokens
    <3>2. QED
      BY <2>1, <3>1 DEF AuthsForApi, OwnerOf
  <2>7. QED
    BY <1>0, <2>1, <2>2, <2>3, <2>5, <2>6 DEF ProviderOf, OwnerOf
<1>2. CASE SwitchToPlus
  <2>1. /\ pc = "prepare" /\ pc' = "config" /\ cmd.target \in Plus
        /\ cmd'.target = cmd.target /\ cmd'.reg = cmd.reg /\ cmd'.prev = cmd.prev
        /\ cmd'.nextAuth = [owner |-> cmd.target, token |-> snapshot[cmd.target]]
        /\ snapshot[cmd.target] # None /\ snapshot' = snapshot
    BY <1>0, <1>2, StepLocals DEF SwitchToPlus, files
  <2>2. PlusBase # None /\ cmd'.nextConfig = RetainProviders(PlusBase, cmd.reg)
    BY <1>0, <1>2, <2>1, PreparedConfig
  <2>3. PlusBase \in Config /\ PlusBase.provider = None /\ PlusBase.keys = {}
    <3>1. CASE ActiveIsApi(cmd.reg)
      BY <1>0, <2>2, <3>1 DEF PlusBase, BaselineIsPlusConfig
    <3>2. CASE ~ ActiveIsApi(cmd.reg)
      <4>1. PlusBase = CommittedConfig /\ CommittedRegistry = cmd.reg
        BY <2>1, <3>2
           DEF PlusBase, CommittedConfig, CommittedRegistry, RegistryPending, BackupInv,
               RegistryInv, SwitchSteps, UndoSteps, AfterRead, AfterSync
      <4>2. CommittedConfig.provider = None /\ CommittedConfig.keys \subseteq {None}
        BY <3>2, <4>1 DEF CommittedInv, ActiveApi
      <4>3. CommittedConfig \in Config
        BY <2>1, ReadTypes DEF CommittedConfig, TypeInv, TypeOK
      <4>4. CommittedConfig.keys \subseteq Apis
        BY <4>3 DEF Config
      <4>5. QED
        BY <1>0, <4>1, <4>2, <4>3, <4>4
    <3>3. QED
      BY <3>1, <3>2
  <2>4. /\ cmd'.nextConfig \in Config
        /\ cmd'.nextConfig.provider = None /\ cmd'.nextConfig.keys = {}
        /\ cmd.reg.accounts \cap Apis \subseteq cmd'.nextConfig.defs
    BY <1>0, <2>2, <2>3, PlusInstall
  <2>5. cmd'.nextAuth \in Auth
    BY <1>0, <2>1 DEF Auth
  <2>6. QED
    BY <1>0, <2>1, <2>4, <2>5 DEF ProviderOf
<1>3. CASE SwitchWriteConfig
  <2>1. /\ pc = "config" /\ pc' = "auth" /\ cmd' = cmd /\ config' = cmd.nextConfig
        /\ UNCHANGED <<snapshot, catalogs>>
    BY <1>3 DEF SwitchWriteConfig, Write, KeepLocals
  <2>2. QED
    BY <2>1
<1>4. CASE SwitchWriteAuth
  <2>1. /\ pc = "auth" /\ pc' = "route" /\ cmd' = cmd /\ auth' = cmd.nextAuth
        /\ UNCHANGED <<config, snapshot, catalogs>>
    BY <1>4 DEF SwitchWriteAuth, Write, KeepLocals
  <2>2. QED
    BY <2>1
<1>5. CASE SwitchWriteRoute
  <2>1. /\ pc = "route" /\ pc' = "registry" /\ cmd' = cmd
        /\ route' = [key |-> cmd.target, provider |-> cmd.nextConfig.provider]
        /\ UNCHANGED <<config, auth, snapshot, catalogs>>
    BY <1>5 DEF SwitchWriteRoute, Write, KeepLocals
  <2>2. QED
    BY <2>1
<1>6. CASE UNCHANGED vars
  BY <1>6 DEF vars, files
<1>7. ~ SwitchRead /\ ~ SwitchBaseline /\ ~ SwitchCommit
  BY DEF SwitchRead, SwitchBaseline, SwitchCommit, Write
<1>8. ~ UndoConfig /\ ~ UndoAuth /\ ~ UndoRoute /\ ~ UndoCatalog
  BY DEF UndoConfig, UndoAuth, UndoRoute, UndoCatalog, Restore
<1>9. CASE Beside
  BY <1>9 DEF Beside
<1>10. QED
  <2>1. pc' \in AfterRead
    BY DEF AfterRead, AfterSync, SwitchSteps
  <2>2. QED
    BY <1>1, <1>2, <1>3, <1>4, <1>5, <1>6, <1>7, <1>8, <1>9, <2>1, NextLater DEF LaterSteps

-----------------------------------------------------------------------------
(***************************************************************************)
(* What a step does to the files as the last completed command left them.  *)
(***************************************************************************)
committed == <<CommittedRegistry, CommittedConfig, CommittedRoute>>

\* The login moves as said, unless a Codex beside the command may replace it.
SameLogin == Serial => CommittedAuth' = CommittedAuth

\* Nothing: the command has not taken effect, takes back what it did, or was
\* never one that changes these files.
Stutters ==
  /\ UNCHANGED committed /\ SameLogin
  /\ pc' \in SwitchSteps => pc \in SwitchSteps \/ CommittedConfig.fileAuth

\* The switch takes effect.
Installs ==
  /\ pc = "registry" /\ pc' = "idle"
  /\ CommittedRegistry' = [cmd.reg EXCEPT !.active = cmd.target]
  /\ CommittedConfig' = cmd.nextConfig
  /\ Serial => CommittedAuth' = cmd.nextAuth
  /\ CommittedRoute' = [key |-> cmd.target, provider |-> cmd.nextConfig.provider]

\* The list changes: a login is adopted, a connection listed or deleted.
Relists ==
  /\ UNCHANGED <<CommittedConfig, CommittedRoute>> /\ SameLogin
  /\ pc' \notin SwitchSteps
  /\ \/ /\ ~ ActiveIsApi(CommittedRegistry)
        /\ \E p \in Plus :
             /\ CommittedRegistry' =
                  [active |-> p, accounts |-> CommittedRegistry.accounts \cup {p}]
             /\ Serial => CommittedAuth \in Auth /\ CommittedAuth.owner = p
     \/ \E a \in Apis :
          CommittedRegistry' =
            [CommittedRegistry EXCEPT !.accounts = @ \cup {a}]
     \/ \E c \in CommittedRegistry.accounts \ {CommittedRegistry.active} :
          CommittedRegistry' = [CommittedRegistry EXCEPT !.accounts = @ \ {c}]

\* The config is repaired, or its route recorded.
Repairs ==
  /\ UNCHANGED CommittedRegistry /\ SameLogin
  /\ pc' \notin SwitchSteps
  /\ CommittedConfig'.provider = CommittedConfig.provider
  /\ CommittedConfig'.keys = CommittedConfig.keys
  /\ \/ CommittedRoute' = CommittedRoute
     \/ CommittedRoute'.provider = CommittedConfig.provider

\* Codex replaces the login.
LogsIn ==
  /\ UNCHANGED <<CommittedRegistry, CommittedConfig, CommittedRoute>>
  /\ pc' \notin SwitchSteps
  /\ CommittedAuth' \in Auth

\* The steps at which the files are as the last completed command left them.
Settled == {"idle", "commit", "snapshot", "sync", "read", "prepare", "catalog", "config",
            "unlist", "catalogGone", "historyRoute"}

\* Between commands, and before a switch writes, nothing can be taken back.
LEMMA SettledCommitted ==
  PendingInv /\ pc \in Settled =>
    /\ CommittedRegistry = ReadRegistry
    /\ CommittedConfig = ConfigText(config)
    /\ CommittedAuth = auth
    /\ CommittedRoute = route
BY DEF PendingInv, Settled, UndoSteps, CommittedRegistry, RegistryPending, CommittedConfig,
       ConfigPending, CommittedAuth, AuthPending, CommittedRoute, RoutePending

\* Until it commits, a switch counts as not having happened.
LEMMA SwitchCommitted ==
  RegistryInv /\ BackupInv /\ pc \in AfterRead =>
    /\ CommittedRegistry = cmd.reg
    /\ CommittedConfig = ConfigText(cmd.prev.config)
    /\ Serial => CommittedAuth = cmd.prev.auth
    /\ CommittedRoute = cmd.prev.route
BY DEF RegistryInv, BackupInv, AfterRead, AfterSync, SwitchSteps, CommittedRegistry,
       RegistryPending, CommittedConfig, CommittedAuth, CommittedRoute

\* The same after a step.
LEMMA SettledCommittedNext ==
  PendingInv' /\ pc' \in Settled =>
    /\ CommittedRegistry' = ReadRegistry'
    /\ CommittedConfig' = ConfigText(config)'
    /\ CommittedAuth' = auth'
    /\ CommittedRoute' = route'
BY DEF PendingInv, Settled, UndoSteps, CommittedRegistry, RegistryPending, CommittedConfig,
       ConfigPending, CommittedAuth, AuthPending, CommittedRoute, RoutePending

\* A deletion that may still be taken back has not taken effect.
LEMMA DeleteCommitted ==
  /\ pc \in {"secret", "file", "relist"} =>
       /\ CommittedRegistry = cmd.reg
       /\ CommittedConfig = ConfigText(config)
       /\ CommittedAuth = auth
       /\ CommittedRoute = route
  /\ pc' \in {"secret", "file", "relist"} =>
       /\ CommittedRegistry' = cmd'.reg
       /\ CommittedConfig' = ConfigText(config)'
       /\ CommittedAuth' = auth'
       /\ CommittedRoute' = route'
BY DEF CommittedRegistry, RegistryPending, CommittedConfig, ConfigPending, CommittedAuth,
       AuthPending, CommittedRoute, RoutePending

\* The same after a step.
LEMMA SwitchCommittedNext ==
  RegistryInv' /\ BackupInv' /\ pc' \in AfterRead =>
    /\ CommittedRegistry' = cmd'.reg
    /\ CommittedConfig' = ConfigText(cmd'.prev.config)
    /\ Serial => CommittedAuth' = cmd'.prev.auth
    /\ CommittedRoute' = cmd'.prev.route
BY DEF RegistryInv, BackupInv, AfterRead, AfterSync, SwitchSteps, CommittedRegistry,
       RegistryPending, CommittedConfig, CommittedAuth, CommittedRoute, ConfigText

\* Every step does one of five things to the files as last completed.
LEMMA Outcomes ==
  ASSUME OneWriter, Reliable, TypeInv, StoreInv, RegistryInv, [Next]_vars,
         RegistryInv', PendingInv', BackupInv'
  PROVE  Stutters \/ Installs \/ Relists \/ Repairs \/ LogsIn
<1> USE DEF committed, SameLogin
<1>0. /\ PendingInv /\ BackupInv /\ InstallInv /\ CommittedInv
      /\ cmd \in Command /\ cmd.reg \in Registry /\ ReadRegistry \in Registry
      /\ auth \in Auth \cup {None}
  BY ReadTypes DEF StoreInv, TypeInv, TypeOK, Command, FileTypes
\* A step that leaves these files alone, or that goes on with a switch.
<1>a. ASSUME pc \in Settled, pc' \in Settled, ReadRegistry' = ReadRegistry,
             UNCHANGED <<config, auth, route>>,
             pc' \in SwitchSteps => pc \in SwitchSteps \/ CommittedConfig.fileAuth
      PROVE  Stutters
  <2>1. ConfigText(config)' = ConfigText(config)
    BY <1>a DEF ConfigText
  <2>2. QED
    BY <1>0, <1>a, <2>1, SettledCommitted, SettledCommittedNext DEF Stutters
<1>b. ASSUME pc \in AfterRead, pc' \in AfterRead, cmd'.reg = cmd.reg, cmd'.prev = cmd.prev
      PROVE  Stutters
  <2>1. ConfigText(cmd'.prev.config) = ConfigText(cmd.prev.config)
    BY <1>b
  <2>2. pc \in SwitchSteps
    BY <1>b DEF AfterRead, AfterSync
  <2>3. QED
    BY <1>0, <1>b, <2>1, <2>2, SwitchCommitted, SwitchCommittedNext DEF Stutters
\* The last step of a roll-back leaves the files as the switch found them.
<1>c. ASSUME pc \in {"undoCatalog", "undoRegistry"}, pc' = "idle",
             UNCHANGED <<config, auth, route>>, ReadRegistry' = cmd.reg
      PROVE  Stutters
  <2>1. config = cmd.prev.config /\ (Serial => auth = cmd.prev.auth) /\ route = cmd.prev.route
    BY <1>0, <1>c
       DEF BackupInv, AfterRead, AfterSync, SwitchSteps, ConfigPending, AuthPending,
           RoutePending
  <2>2. ConfigText(config)' = ConfigText(cmd.prev.config)
    BY <1>c, <2>1 DEF ConfigText
  <2>3. pc \in AfterRead /\ pc' \in Settled /\ pc' \notin SwitchSteps
    BY <1>c DEF AfterRead, AfterSync, SwitchSteps, Settled
  <2>4. QED
    BY <1>0, <1>c, <2>1, <2>2, <2>3, SwitchCommitted, SettledCommittedNext DEF Stutters
\* A step that changes the registry only.
<1>d. ASSUME pc \in Settled, pc' \in Settled \ SwitchSteps, UNCHANGED <<config, auth, route>>
      PROVE  /\ UNCHANGED <<CommittedConfig, CommittedAuth, CommittedRoute>>
             /\ CommittedRegistry = ReadRegistry /\ CommittedRegistry' = ReadRegistry'
  <2>1. ConfigText(config)' = ConfigText(config)
    BY <1>d DEF ConfigText
  <2>2. QED
    BY <1>0, <1>d, <2>1, SettledCommitted, SettledCommittedNext
<1>1. CASE MarkInvalidBegin \/ SaveCurrentOfApi \/ SaveCurrentBegin
  BY <1>1, <1>a DEF MarkInvalidBegin, SaveCurrentOfApi, SaveCurrentBegin, MainMayStart, files,
                    Settled, SwitchSteps, ReadRegistry
<1>2. ASSUME NEW t \in Conn, SwitchBegin(t)
      PROVE  Stutters
  <2>1. pc = "idle" /\ pc' = "sync" /\ ConfigText(config).fileAuth /\ UNCHANGED files
    BY <1>2 DEF SwitchBegin, MainMayStart
  <2>2. CommittedConfig.fileAuth
    BY <1>0, <2>1, SettledCommitted DEF Settled
  <2>3. QED
    BY <1>a, <2>1, <2>2 DEF files, Settled, ReadRegistry
<1>3. ASSUME NEW t \in Conn, DeleteBegin(t)
      PROVE  Stutters
  BY <1>3, <1>a DEF DeleteBegin, MainMayStart, files, Settled, SwitchSteps, ReadRegistry
<1>4. CASE SaveCurrentSnapshot \/ DeleteCatalog
  BY <1>4, <1>a
     DEF SaveCurrentSnapshot, WriteSnapshot, DeleteCatalog, Settled, SwitchSteps,
         ReadRegistry
<1>5. CASE SwitchSync \/ SwitchRead \/ SwitchBaseline \/ SwitchCatalog \/ SwitchToPlus
  <2>1. /\ pc \in Settled /\ pc' \in Settled /\ pc \in SwitchSteps
        /\ UNCHANGED <<registry, config, auth, route>>
    BY <1>5
       DEF SwitchSync, WriteSnapshot, SwitchRead, SwitchBaseline, Write, SwitchCatalog,
           SwitchToPlus, files, Settled, SwitchSteps
  <2>2. QED
    BY <1>a, <2>1 DEF ReadRegistry
<1>6. CASE SwitchWriteConfig \/ SwitchWriteAuth \/ SwitchWriteRoute
  <2>1. pc \in AfterRead /\ pc' \in AfterRead /\ cmd' = cmd
    BY <1>6
       DEF SwitchWriteConfig, SwitchWriteAuth, SwitchWriteRoute, Write, KeepLocals, AfterRead,
           AfterSync, SwitchSteps
  <2>2. QED
    BY <1>b, <2>1
<1>7. CASE SwitchCommit
  <2> DEFINE new == [cmd.reg EXCEPT !.active = cmd.target]
  <2>1. /\ pc = "registry" /\ UNCHANGED <<config, auth, route>>
        /\ \/ pc' = "idle" /\ registry' = new
           \/ pc' = "undoConfig" /\ cmd'.reg = cmd.reg /\ cmd'.prev = cmd.prev
    BY <1>0, <1>7, LateLocals DEF SwitchCommit, Write
  <2>2. CASE pc' = "undoConfig"
    BY <1>b, <2>1, <2>2 DEF AfterRead, AfterSync, SwitchSteps
  <2>3. CASE pc' = "idle"
    <3>1. new \in Registry
      BY <1>0, <2>1 DEF TypeInv, LocalsOK, SwitchSteps, Registry
    <3>2. ReadRegistry' = new
      BY <2>1, <2>3, <3>1, NoneAssumption DEF ReadRegistry
    <3>3. /\ config = cmd.nextConfig /\ cmd.nextConfig \in Config
          /\ Serial => auth = cmd.nextAuth
          /\ route = [key |-> cmd.target, provider |-> cmd.nextConfig.provider]
      BY <1>0, <2>1 DEF InstallInv, InstallSteps, ConfigPending, AuthPending, RoutePending
    <3>4. ConfigText(config)' = cmd.nextConfig
      BY <2>1, <3>3, NoneAssumption DEF ConfigText
    <3> HIDE DEF new
    <3>5. Installs
      BY <1>0, <2>1, <2>3, <3>2, <3>3, <3>4, SettledCommittedNext DEF Installs, Settled, new
    <3>6. QED
      BY <3>5
  <2>4. QED
    BY <2>1, <2>2, <2>3
<1>8. CASE UndoConfig \/ UndoAuth \/ UndoRoute
  <2>1. pc \in AfterRead /\ pc' \in AfterRead /\ cmd' = cmd
    BY <1>8
       DEF UndoConfig, UndoAuth, UndoRoute, Restore, KeepLocals, AfterRead, AfterSync,
           SwitchSteps
  <2>2. QED
    BY <1>b, <2>1
<1>9. CASE UndoCatalog
  <2>1. CASE cmd.late
    BY <1>9, <1>b, <2>1
       DEF UndoCatalog, KeepLocals, AfterRead, AfterSync, SwitchSteps
  <2>2. CASE ~ cmd.late
    <3>1. /\ pc = "undoCatalog" /\ pc' = "idle"
          /\ UNCHANGED <<registry, config, auth, route>>
      BY <1>9, <2>2 DEF UndoCatalog
    <3>2. ReadRegistry' = cmd.reg
      BY <2>2, <3>1 DEF RegistryInv, SwitchSteps, ReadRegistry
    <3>3. QED
      BY <1>c, <3>1, <3>2
  <2>3. QED
    BY <2>1, <2>2
<1>10. CASE UndoRegistry
  <2>1. /\ pc = "undoRegistry" /\ pc' = "idle" /\ registry' = cmd.reg
        /\ UNCHANGED <<config, auth, route>>
    BY <1>10, ReliableWrites DEF UndoRegistry, Restore
  <2>2. ReadRegistry' = cmd.reg
    BY <1>0, <2>1, NoneAssumption DEF ReadRegistry
  <2>3. QED
    BY <1>c, <2>1, <2>2
<1>11. CASE WriteRegistry
  <2>1. /\ pc = "commit" /\ pc' = "idle" /\ UNCHANGED <<config, auth, route>>
        /\ registry' \in {cmd.reg, registry}
    BY <1>11, ReliableWrites DEF WriteRegistry, Write
  <2>2. ReadRegistry' \in {cmd.reg, ReadRegistry}
    BY <1>0, <2>1, RegistryReads
  <2>3. CASE ReadRegistry' = ReadRegistry
    BY <1>a, <2>1, <2>3 DEF Settled, SwitchSteps
  <2>4. CASE ReadRegistry' = cmd.reg /\ Adopts(cmd.reg)
    <3>1. /\ UNCHANGED <<CommittedConfig, CommittedAuth, CommittedRoute>>
          /\ CommittedRegistry = ReadRegistry /\ CommittedRegistry' = ReadRegistry'
      BY <1>d, <2>1 DEF Settled, SwitchSteps
    <3>2. CommittedAuth = auth
      BY <1>0, <2>1, SettledCommitted DEF Settled
    <3>3. pc' \notin SwitchSteps
      BY <2>1 DEF SwitchSteps
    <3>4. PICK p \in Plus :
            /\ ReadRegistry' = [active |-> p, accounts |-> ReadRegistry.accounts \cup {p}]
            /\ Serial => auth \in Auth /\ auth.owner = p
      BY <2>4 DEF Adopts
    <3>5. ~ ActiveIsApi(CommittedRegistry)
      BY <2>4, <3>1 DEF Adopts, ActiveIsApi
    <3>6. QED
      BY <3>1, <3>2, <3>3, <3>4, <3>5 DEF Relists
  <2>5. QED
    BY <1>0, <2>1, <2>2, <2>3, <2>4 DEF PendingInv
<1>12. CASE DeleteUnlist
  <2> DEFINE new == [cmd.reg EXCEPT !.accounts = @ \ {cmd.target}]
  <2>1. /\ pc = "unlist" /\ UNCHANGED <<config, auth, route>>
        /\ \/ pc' = "idle" /\ registry' \in {new, registry}
           \/ pc' \in {"secret", "file"} /\ cmd' = cmd
    BY <1>12, ReliableWrites DEF DeleteUnlist, Write, KeepLocals
  <2>2. /\ new \in Registry /\ cmd.reg = ReadRegistry
        /\ cmd.target \in cmd.reg.accounts /\ cmd.target # cmd.reg.active
    BY <1>0, <2>1 DEF Registry, RegistryInv, PendingInv
  <2>3. CASE pc' = "idle"
    <3>1. ReadRegistry' \in {new, ReadRegistry}
      BY <2>1, <2>2, <2>3, RegistryReads
    <3>2. CASE ReadRegistry' = ReadRegistry
      BY <1>a, <2>1, <2>3, <3>2 DEF Settled, SwitchSteps
    <3>3. CASE ReadRegistry' = new
      <4>1. /\ UNCHANGED <<CommittedConfig, CommittedAuth, CommittedRoute>>
            /\ CommittedRegistry = ReadRegistry /\ CommittedRegistry' = ReadRegistry'
        BY <1>d, <2>1, <2>3 DEF Settled, SwitchSteps
      <4>2. QED
        BY <2>2, <2>3, <3>3, <4>1 DEF Relists, SwitchSteps
    <3>4. QED
      BY <3>1, <3>2, <3>3
  <2>4. CASE pc' \in {"secret", "file"} /\ cmd' = cmd
    <3>1. ConfigText(config)' = ConfigText(config)
      BY <2>1 DEF ConfigText
    <3>2. pc \in Settled /\ pc' \notin SwitchSteps
      BY <2>1, <2>4 DEF Settled, SwitchSteps
    <3>3. QED
      BY <1>0, <2>1, <2>2, <2>4, <3>1, <3>2, SettledCommitted, DeleteCommitted DEF Stutters
  <2>5. QED
    BY <2>1, <2>3, <2>4
\* A deletion takes effect when the credential is gone.
<1>e. ASSUME pc \in {"secret", "file"}, pc' \in Settled \ SwitchSteps,
             UNCHANGED <<registry, config, auth, route>>
      PROVE  Relists
  <2>1. ConfigText(config)' = ConfigText(config) /\ ReadRegistry' = ReadRegistry
    BY <1>e DEF ConfigText, ReadRegistry
  <2>2. /\ ReadRegistry = [cmd.reg EXCEPT !.accounts = @ \ {cmd.target}]
        /\ cmd.target \in cmd.reg.accounts /\ cmd.target # cmd.reg.active
    BY <1>0, <1>e DEF PendingInv
  <2>3. /\ UNCHANGED <<CommittedConfig, CommittedAuth, CommittedRoute>>
        /\ CommittedRegistry = cmd.reg /\ CommittedRegistry' = ReadRegistry
    BY <1>0, <1>e, <2>1, DeleteCommitted, SettledCommittedNext
  <2>4. QED
    BY <1>e, <2>2, <2>3 DEF Relists
<1>13. CASE DeleteSecret \/ DeleteSnapshot
  <2>1. /\ pc \in {"secret", "file"} /\ UNCHANGED <<registry, config, auth, route>>
        /\ \/ pc' \in {"catalogGone", "idle"}
           \/ pc' = "relist" /\ cmd' = cmd
    BY <1>13 DEF DeleteSecret, DeleteSnapshot, KeepLocals
  <2>2. CASE pc' = "relist" /\ cmd' = cmd
    <3>1. ConfigText(config)' = ConfigText(config)
      BY <2>1 DEF ConfigText
    <3>2. QED
      BY <2>1, <2>2, <3>1, DeleteCommitted DEF Stutters, SwitchSteps
  <2>3. QED
    BY <1>e, <2>1, <2>2 DEF Settled, SwitchSteps
<1>14. CASE DeleteRelist
  <2>1. /\ pc = "relist" /\ pc' = "idle" /\ registry' = cmd.reg
        /\ UNCHANGED <<config, auth, route>>
    BY <1>14, ReliableWrites DEF DeleteRelist, Restore
  <2>2. ReadRegistry' = cmd.reg /\ ConfigText(config)' = ConfigText(config)
    BY <1>0, <2>1, NoneAssumption DEF ReadRegistry, ConfigText
  <2>3. pc' \in Settled /\ pc' \notin SwitchSteps
    BY <2>1 DEF Settled, SwitchSteps
  <2>4. QED
    BY <1>0, <2>1, <2>2, <2>3, DeleteCommitted, SettledCommittedNext DEF Stutters
\* A repair of the config keeps the provider it selects and its keys.
<1>f. ASSUME pc = "idle", pc' \in {"idle", "historyRoute"}, UNCHANGED <<registry, auth, route>>,
             ConfigText(config)'.provider = ConfigText(config).provider,
             ConfigText(config)'.keys = ConfigText(config).keys
      PROVE  Repairs
  <2>1. ReadRegistry' = ReadRegistry
    BY <1>f DEF ReadRegistry
  <2>2. pc \in Settled /\ pc' \in Settled /\ pc' \notin SwitchSteps
    BY <1>f DEF Settled, SwitchSteps
  <2>3. /\ CommittedRegistry' = ReadRegistry' /\ CommittedRegistry = ReadRegistry
        /\ CommittedConfig' = ConfigText(config)' /\ CommittedConfig = ConfigText(config)
        /\ CommittedAuth' = auth' /\ CommittedAuth = auth
        /\ CommittedRoute' = route' /\ CommittedRoute = route
    BY <1>0, <2>2, SettledCommitted, SettledCommittedNext
  <2>4. QED
    BY <1>f, <2>1, <2>2, <2>3 DEF Repairs
<1>15. CASE EnsureFileAuth
  <2> DEFINE new == [ConfigText(config) EXCEPT !.fileAuth = TRUE]
  <2>1. /\ pc = "idle" /\ pc' = "idle" /\ UNCHANGED <<registry, auth, route>>
        /\ config' \in {new, config}
    BY <1>15, ReliableWrites DEF EnsureFileAuth, Write, MainMayStart
  <2>2. ConfigText(config) \in Config
    BY ReadTypes DEF TypeInv, TypeOK
  <2>3. /\ new \in Config
        /\ new.provider = ConfigText(config).provider /\ new.keys = ConfigText(config).keys
    BY <2>2 DEF Config
  <2> HIDE DEF new
  <2>4. ConfigText(config)' \in {new, ConfigText(config)}
    BY <2>1, <2>3, NoneAssumption DEF ConfigText
  <2>5. QED
    BY <1>f, <2>1, <2>3, <2>4
<1>16. CASE EnsureProviders
  <2> DEFINE new == RetainProviders(config, ReadRegistry)
  <2>1. /\ pc = "idle" /\ pc' \in {"idle", "historyRoute"} /\ UNCHANGED <<registry, auth, route>>
        /\ config # None /\ config' \in {new, config}
    BY <1>16, ReliableWrites DEF EnsureProviders, Write, MainMayStart
  <2>2. config \in Config
    BY <2>1 DEF TypeInv, TypeOK, FileTypes
  <2>3. new \in Config /\ new.provider = config.provider /\ new.keys = config.keys
    BY <1>0, <2>2 DEF RetainProviders, Config, Registry, Conn
  <2> HIDE DEF new
  <2>4. ConfigText(config) = config /\ ConfigText(config)' \in {new, config}
    BY <2>1, <2>2, <2>3, NoneAssumption DEF ConfigText
  <2>5. QED
    BY <1>f, <2>1, <2>3, <2>4
<1>17. CASE EnsureRoute
  <2> DEFINE new == [key |-> ReadRegistry.active, provider |-> config.provider]
  <2>1. /\ pc = "historyRoute" /\ pc' = "idle" /\ UNCHANGED <<registry, config, auth>>
        /\ route' \in {new, route}
    BY <1>17, ReliableWrites DEF EnsureRoute, Write
  <2>2. ReadRegistry' = ReadRegistry /\ ConfigText(config)' = ConfigText(config)
    BY <2>1 DEF ReadRegistry, ConfigText
  <2>3. ConfigText(config) = config
    BY <2>1, NoneAssumption DEF TypeInv, LocalsOK, ConfigText
  <2>4. new.provider = config.provider
    OBVIOUS
  <2> HIDE DEF new
  <2>5. pc \in Settled /\ pc' \in Settled /\ pc' \notin SwitchSteps
    BY <2>1 DEF Settled, SwitchSteps
  <2>6. /\ CommittedRegistry' = ReadRegistry' /\ CommittedRegistry = ReadRegistry
        /\ CommittedConfig' = ConfigText(config)' /\ CommittedConfig = ConfigText(config)
        /\ CommittedAuth' = auth' /\ CommittedAuth = auth
        /\ CommittedRoute' = route' /\ CommittedRoute = route
    BY <1>0, <2>5, SettledCommitted, SettledCommittedNext
  <2>7. QED
    BY <2>1, <2>2, <2>3, <2>4, <2>5, <2>6 DEF Repairs
<1>18. CASE SaveApi
  <2>1. pc = "idle" /\ pc' = "idle" /\ UNCHANGED <<config, auth, route>>
    BY <1>18
       DEF SaveApi, SaveApiBegin, SaveApiSecret, SaveApiRegistry, SaveApiUndo, files, OneWriter,
           RegistryInv
  <2>2. CASE SaveApiRegistry
    <3> DEFINE new == [save.reg EXCEPT !.accounts = @ \cup {save.api}]
    <3>1. registry' \in {new, registry} /\ save.pc = "write"
      BY <2>2, ReliableWrites DEF SaveApiRegistry
    <3>2. save.reg = ReadRegistry /\ save.api \in Apis
      BY <1>0, <3>1 DEF PendingInv, TypeInv, LocalsOK
    <3>3. new \in Registry
      BY <1>0, <3>2 DEF Registry, Conn
    <3>4. ReadRegistry' \in {new, ReadRegistry}
      BY <3>1, <3>3, RegistryReads
    <3>5. /\ UNCHANGED <<CommittedConfig, CommittedAuth, CommittedRoute>>
          /\ CommittedRegistry = ReadRegistry /\ CommittedRegistry' = ReadRegistry'
      BY <1>d, <2>1 DEF Settled, SwitchSteps
    <3>6. CASE ReadRegistry' = ReadRegistry
      BY <1>a, <2>1, <3>6 DEF Settled, SwitchSteps
    <3>7. CASE ReadRegistry' = new
      BY <2>1, <3>2, <3>5, <3>7 DEF Relists, SwitchSteps
    <3>8. QED
      BY <3>4, <3>6, <3>7
  <2>3. CASE ~ SaveApiRegistry
    <3>1. ReadRegistry' = ReadRegistry
      BY <1>18, <2>3
         DEF SaveApi, SaveApiBegin, SaveApiSecret, SaveApiUndo, files, ReadRegistry
    <3>2. QED
      BY <1>a, <2>1, <3>1 DEF Settled, SwitchSteps
  <2>4. QED
    BY <2>2, <2>3
\* A Codex beside a command changes none of what is said here.
<1>19. CASE Codex /\ ~ Serial
  <2>1. UNCHANGED <<registry, config, route, pc, cmd>>
    BY <1>19 DEF Codex, CodexRefresh, CodexLogin
  <2>2. UNCHANGED committed
    BY <2>1
       DEF CommittedRegistry, RegistryPending, CommittedConfig, ConfigText, ConfigPending,
           CommittedRoute, RoutePending, ReadRegistry
  <2>3. QED
    BY <1>19, <2>1, <2>2 DEF Stutters
<1>20. CASE Codex /\ Serial
  <2>1. pc = "idle" /\ pc' = "idle" /\ UNCHANGED <<registry, config, route>> /\ auth' \in Auth
    <3>1. pc = "idle" /\ pc' = "idle" /\ UNCHANGED <<registry, config, route>>
      BY <1>20 DEF Codex, CodexRefresh, CodexLogin, CodexMayRun, Serial
    <3>2. latest \in [Plus -> Token] /\ MaxToken \in Nat
      BY AccountAssumption DEF TypeInv, TypeOK, FileTypes
    <3>3. ASSUME CodexRefresh
          PROVE  auth' \in Auth
      <4>1. auth \in Auth
        BY <1>0, <3>3 DEF CodexRefresh, HasTokens
      <4>2. auth.token + 1 \in Token
        BY <3>2, <3>3, <4>1 DEF CodexRefresh, Auth, Token
      <4>3. QED
        BY <3>3, <4>1, <4>2 DEF CodexRefresh, Auth
    <3>4. ASSUME NEW p \in Plus, CodexLogin(p)
          PROVE  auth' \in Auth
      <4>1. auth' = [owner |-> p, token |-> latest'[p]] /\ latest'[p] \in Token
        BY <3>2, <3>4 DEF CodexLogin, Token
      <4>2. QED
        BY <4>1 DEF Auth
    <3>5. QED
      BY <1>20, <3>1, <3>3, <3>4 DEF Codex
  <2>2. ReadRegistry' = ReadRegistry /\ ConfigText(config)' = ConfigText(config)
    BY <2>1 DEF ReadRegistry, ConfigText
  <2>3. pc \in Settled /\ pc' \in Settled /\ pc' \notin SwitchSteps
    BY <2>1 DEF Settled, SwitchSteps
  <2>4. /\ CommittedRegistry' = ReadRegistry' /\ CommittedRegistry = ReadRegistry
        /\ CommittedConfig' = ConfigText(config)' /\ CommittedConfig = ConfigText(config)
        /\ CommittedAuth' = auth' /\ CommittedAuth = auth
        /\ CommittedRoute' = route' /\ CommittedRoute = route
    BY <1>0, <2>3, SettledCommitted, SettledCommittedNext
  <2>5. QED
    BY <2>1, <2>2, <2>3, <2>4 DEF LogsIn
<1>21. CASE UNCHANGED vars
  BY <1>21
     DEF vars, files, Stutters, CommittedRegistry, RegistryPending, CommittedConfig, ConfigText,
         ConfigPending, CommittedAuth, AuthPending, CommittedRoute, RoutePending, ReadRegistry
<1>22. QED
  <2>1. ~ Crash
    BY ReliableWrites DEF Crash
  <2>2. QED
    BY <1>1, <1>2, <1>3, <1>4, <1>5, <1>6, <1>7, <1>8, <1>9, <1>10, <1>11, <1>12, <1>13,
       <1>14, <1>15, <1>16, <1>17, <1>18, <1>19, <1>20, <1>21, <2>1
       DEF Next, SaveCurrent, Switch, Delete, Repair

-----------------------------------------------------------------------------
(***************************************************************************)
(* The files fit together after every step.                                *)
(***************************************************************************)

\* The catalog of the provider in use is never removed.
LEMMA CatalogStep ==
  ASSUME Reliable, TypeInv, RegistryInv, StoreInv, [Next]_vars
  PROVE  /\ CommittedConfig.provider \in catalogs' \cup {None}
         /\ pc = "registry" => catalogs' = catalogs
<1>0. /\ PendingInv /\ BackupInv /\ CommittedInv
      /\ CommittedConfig.provider \in catalogs \cup {None}
  BY DEF StoreInv, CommittedInv
<1>1. CASE SwitchCatalog
  <2>1. pc = "catalog" /\ catalogs \subseteq catalogs'
    BY <1>1, ReliableWrites DEF SwitchCatalog
  <2>2. QED
    BY <1>0, <2>1
<1>2. CASE UndoCatalog
  <2>1. pc = "undoCatalog" /\ pc \in AfterRead
    BY <1>2 DEF UndoCatalog, AfterRead, AfterSync, SwitchSteps
  <2>2. CommittedConfig = ConfigText(cmd.prev.config)
    BY <1>0, <2>1, SwitchCommitted
  <2>3. CASE cmd.target \in Apis /\ ~ cmd.prev.catalog
    <3>1. CommittedConfig.provider # cmd.target
      BY <1>0, <2>1, <2>2, <2>3 DEF BackupInv
    <3>2. catalogs \ {cmd.target} \subseteq catalogs'
      BY <1>2, <2>3, ReliableWrites DEF UndoCatalog
    <3>3. QED
      BY <1>0, <2>1, <3>1, <3>2
  <2>4. CASE cmd.target \in Plus \/ cmd.prev.catalog
    <3>1. catalogs \subseteq catalogs'
      BY <1>2, <2>4, ReliableWrites DEF UndoCatalog
    <3>2. QED
      BY <1>0, <2>1, <3>1
  <2>5. cmd.target \in Conn
    BY <2>1 DEF TypeInv, LocalsOK, AfterRead, AfterSync
  <2>6. QED
    BY <2>3, <2>4, <2>5 DEF Conn
<1>3. CASE DeleteCatalog
  <2>1. pc = "catalogGone" /\ catalogs \ {cmd.target} \subseteq catalogs'
    BY <1>3 DEF DeleteCatalog
  <2>2. cmd.target # ReadRegistry.active /\ CommittedRegistry = ReadRegistry
    BY <1>0, <2>1, SettledCommitted DEF PendingInv, Settled
  <2>3. CommittedConfig.provider \in {ReadRegistry.active, None}
    BY <1>0, <2>2 DEF CommittedInv, ActiveApi
  <2>4. QED
    BY <1>0, <2>1, <2>2, <2>3
<1>4. CASE catalogs' = catalogs
  BY <1>0, <1>4
<1>5. CASE SaveCurrent \/ Repair \/ SaveApi \/ Codex \/ Crash \/ UNCHANGED vars
  BY <1>4, <1>5
     DEF SaveCurrent, MarkInvalidBegin, SaveCurrentOfApi, SaveCurrentBegin,
         SaveCurrentSnapshot, WriteRegistry, Repair, EnsureFileAuth, EnsureProviders,
         EnsureRoute, SaveApi, SaveApiBegin, SaveApiSecret, SaveApiRegistry, SaveApiUndo,
         Codex, CodexRefresh, CodexLogin, Crash, vars, files
<1>6. CASE Delete
  BY <1>3, <1>4, <1>6
     DEF Delete, DeleteBegin, DeleteUnlist, DeleteSecret, DeleteSnapshot, DeleteRelist, files
<1>7. CASE Switch
  BY <1>1, <1>2, <1>4, <1>7
     DEF Switch, SwitchBegin, SwitchSync, SwitchRead, SwitchBaseline, SwitchToPlus,
         SwitchWriteConfig, SwitchWriteAuth, SwitchWriteRoute, SwitchCommit, UndoConfig,
         UndoAuth, UndoRoute, UndoRegistry, files
<1>8. QED
  BY <1>5, <1>6, <1>7 DEF Next

\* All five leave files that fit together.
LEMMA CommittedStep ==
  ASSUME OneWriter, Reliable, TypeInv, RegistryInv, StoreInv, [Next]_vars,
         Stutters \/ Installs \/ Relists \/ Repairs \/ LogsIn
  PROVE  CommittedInv'
<1>0. /\ CommittedInv /\ InstallInv /\ None \notin Apis /\ Plus \cap Apis = {}
      /\ CommittedConfig.provider \in catalogs' \cup {None}
      /\ ListsActive(CommittedRegistry)
  BY AccountAssumption, CatalogStep
     DEF StoreInv, RegistryInv, CommittedRegistry
<1> USE DEF CommittedInv
<1>1. CASE Stutters
  BY <1>0, <1>1 DEF Stutters, committed, ActiveApi, ActiveIsApi
<1>2. CASE Installs
  <2>1. /\ cmd.reg \in Registry /\ cmd.target \in Conn /\ cmd.target \in cmd.reg.accounts
        /\ catalogs' = catalogs
    BY <1>2, CatalogStep
       DEF Installs, TypeInv, TypeOK, LocalsOK, Command, RegistryInv, SwitchSteps, UndoSteps
  <2>2. /\ cmd.nextConfig.provider = ProviderOf(cmd.target)
        /\ cmd.nextConfig.keys = {cmd.target} \cap Apis
        /\ cmd.target \in Apis => cmd.target \in catalogs
    BY <1>0, <1>2 DEF Installs, InstallInv, InstallSteps
  <2>3. /\ CommittedRegistry'.active = cmd.target
        /\ CommittedRegistry'.accounts = cmd.reg.accounts
    BY <1>2, <2>1 DEF Installs, Registry
  <2>4. ActiveApi(CommittedRegistry)' = ProviderOf(cmd.target)
    BY <2>1, <2>3 DEF ActiveApi, ActiveIsApi, ProviderOf
  <2>5. CommittedRoute'.provider = cmd.nextConfig.provider /\ CommittedConfig' = cmd.nextConfig
    BY <1>2 DEF Installs
  <2>6. pc' \notin SwitchSteps
    BY <1>2 DEF Installs, SwitchSteps
  <2>7. QED
    BY <2>1, <2>2, <2>4, <2>5, <2>6 DEF ProviderOf
<1>3. CASE Relists
  <2>1. CommittedRegistry \in Registry
    BY ReadTypes DEF CommittedRegistry, TypeInv, TypeOK, Command
  <2>2. ActiveApi(CommittedRegistry)' = ActiveApi(CommittedRegistry)
    <3>1. ASSUME ~ ActiveIsApi(CommittedRegistry), NEW p \in Plus,
                 CommittedRegistry' =
                   [active |-> p, accounts |-> CommittedRegistry.accounts \cup {p}]
          PROVE  ActiveApi(CommittedRegistry)' = ActiveApi(CommittedRegistry)
      BY <1>0, <3>1 DEF ActiveApi, ActiveIsApi
    <3>2. ASSUME NEW a \in Apis,
                 CommittedRegistry' = [CommittedRegistry EXCEPT !.accounts = @ \cup {a}]
          PROVE  ActiveApi(CommittedRegistry)' = ActiveApi(CommittedRegistry)
      BY <1>0, <2>1, <3>2 DEF ActiveApi, ActiveIsApi, ListsActive, Registry
    <3>3. ASSUME NEW c \in CommittedRegistry.accounts \ {CommittedRegistry.active},
                 CommittedRegistry' = [CommittedRegistry EXCEPT !.accounts = @ \ {c}]
          PROVE  ActiveApi(CommittedRegistry)' = ActiveApi(CommittedRegistry)
      BY <1>0, <2>1, <3>3 DEF ActiveApi, ActiveIsApi, Registry
    <3>4. QED
      BY <1>3, <3>1, <3>2, <3>3 DEF Relists
  <2>3. QED
    BY <1>0, <1>3, <2>2 DEF Relists
<1>4. CASE Repairs
  <2>1. ActiveApi(CommittedRegistry)' = ActiveApi(CommittedRegistry)
    BY <1>4 DEF Repairs, ActiveApi, ActiveIsApi
  <2>2. QED
    BY <1>0, <1>4, <2>1 DEF Repairs
<1>5. CASE LogsIn
  <2>1. ActiveApi(CommittedRegistry)' = ActiveApi(CommittedRegistry)
    BY <1>5 DEF LogsIn, ActiveApi, ActiveIsApi
  <2>2. QED
    BY <1>0, <1>5, <2>1 DEF LogsIn
<1>6. QED
  BY <1>1, <1>2, <1>3, <1>4, <1>5

\* What a step does to config.toml.
ConfigMoves ==
  \/ config' = config
  \/ pc = "config" /\ config' = cmd.nextConfig
  \/ pc = "undoConfig" /\ config' = cmd.prev.config
  \/ /\ pc = "idle" /\ config' \in Config
     /\ config'.provider = ConfigText(config).provider
     /\ config'.keys = ConfigText(config).keys
     /\ ConfigText(config).defs \subseteq config'.defs

\* Every step moves config.toml in one of these ways.
LEMMA ConfigWrites ==
  ASSUME ~ Windows, TypeInv, [Next]_vars
  PROVE  ConfigMoves
<1>1. CASE SwitchWriteConfig
  BY <1>1, FailedWrites DEF SwitchWriteConfig, Write, ConfigMoves
<1>2. CASE UndoConfig
  BY <1>2, FailedWrites DEF UndoConfig, Restore, ConfigMoves
<1>3. CASE EnsureFileAuth
  <2> DEFINE new == [ConfigText(config) EXCEPT !.fileAuth = TRUE]
  <2>1. pc = "idle" /\ config' \in {new, config}
    BY <1>3, FailedWrites DEF EnsureFileAuth, Write, MainMayStart
  <2>2. ConfigText(config) \in Config
    BY ReadTypes DEF TypeInv, TypeOK
  <2>3. /\ new \in Config /\ new.provider = ConfigText(config).provider
        /\ new.keys = ConfigText(config).keys /\ new.defs = ConfigText(config).defs
    BY <2>2 DEF Config
  <2> HIDE DEF new
  <2>4. QED
    BY <2>1, <2>3 DEF ConfigMoves
<1>4. CASE EnsureProviders
  <2> DEFINE new == RetainProviders(config, ReadRegistry)
  <2>1. pc = "idle" /\ config # None /\ config' \in {new, config}
    BY <1>4, FailedWrites DEF EnsureProviders, Write, MainMayStart
  <2>2. config \in Config /\ ReadRegistry \in Registry
    BY <2>1, ReadTypes DEF TypeInv, TypeOK, FileTypes
  <2>3. new \in Config /\ new.provider = config.provider /\ new.keys = config.keys
        /\ config.defs \subseteq new.defs
    BY <2>2 DEF RetainProviders, Config, Registry, Conn
  <2> HIDE DEF new
  <2>4. QED
    BY <2>1, <2>3 DEF ConfigMoves, ConfigText
<1>5. CASE config' = config
  BY <1>5 DEF ConfigMoves
<1>6. CASE SaveCurrent \/ SaveApi \/ Codex \/ Crash \/ UNCHANGED vars \/ EnsureRoute
  BY <1>5, <1>6
     DEF SaveCurrent, MarkInvalidBegin, SaveCurrentOfApi, SaveCurrentBegin,
         SaveCurrentSnapshot, WriteRegistry, EnsureRoute, SaveApi, SaveApiBegin,
         SaveApiSecret, SaveApiRegistry, SaveApiUndo, Codex, CodexRefresh, CodexLogin, Crash,
         vars, files
<1>7. CASE Delete
  BY <1>5, <1>7
     DEF Delete, DeleteBegin, DeleteUnlist, DeleteSecret, DeleteCatalog, DeleteSnapshot,
         DeleteRelist, files
<1>8. CASE Switch
  BY <1>1, <1>2, <1>5, <1>8
     DEF Switch, SwitchBegin, SwitchSync, SwitchRead, SwitchBaseline, SwitchCatalog,
         SwitchToPlus, SwitchWriteAuth, SwitchWriteRoute, SwitchCommit, UndoAuth, UndoRoute,
         UndoCatalog, UndoRegistry, files
<1>9. QED
  BY <1>3, <1>4, <1>6, <1>7, <1>8 DEF Next, Repair

\* Every step keeps other connections' keys out of config.toml.
LEMMA KeyStep ==
  ASSUME Reliable, TypeInv, RegistryInv, StoreInv, [Next]_vars
  PROVE  KeyOnlyWhileActive'
<1>0. /\ InstallInv /\ BackupInv /\ CommittedInv /\ KeyOnlyWhileActive
      /\ cmd.prev.config \in Config \cup {None} /\ None \notin Config
  BY NoneAssumption DEF StoreInv, TypeInv, TypeOK, Command, Files
<1>1. CASE config' = config
  BY <1>0, <1>1 DEF KeyOnlyWhileActive
<1>2. CASE pc = "config" /\ config' = cmd.nextConfig
  BY <1>0, <1>2 DEF KeyOnlyWhileActive, InstallInv, InstallSteps, ProviderOf
<1>3. CASE pc = "undoConfig" /\ config' = cmd.prev.config
  <2>1. CommittedConfig = ConfigText(cmd.prev.config)
    BY <1>0, <1>3, SwitchCommitted DEF AfterRead, AfterSync, SwitchSteps
  <2>2. QED
    BY <1>0, <1>3, <2>1 DEF KeyOnlyWhileActive, CommittedInv, ConfigText
<1>4. CASE /\ config'.provider = ConfigText(config).provider
           /\ config'.keys = ConfigText(config).keys
  BY <1>0, <1>4 DEF KeyOnlyWhileActive, ConfigText, EmptyConfig
<1>5. QED
  BY <1>1, <1>2, <1>3, <1>4, ConfigWrites DEF ConfigMoves, Reliable

\* Every step keeps API providers and keys out of the baseline.
LEMMA BaselineStep ==
  ASSUME Reliable, TypeInv, RegistryInv, StoreInv, [Next]_vars
  PROVE  BaselineIsPlusConfig'
<1>0. PendingInv /\ BackupInv /\ CommittedInv /\ BaselineIsPlusConfig
  BY DEF StoreInv
<1>1. CASE baseline' = baseline
  BY <1>0, <1>1 DEF BaselineIsPlusConfig
<1>2. CASE SwitchBaseline
  <2>1. /\ pc = "prepare"
        /\ \/ baseline' = baseline
           \/ baseline' = ConfigText(cmd.prev.config) /\ ~ ActiveIsApi(cmd.reg)
    BY <1>2, ReliableWrites DEF SwitchBaseline, BaselineStays, Write
  <2>2. CommittedConfig = ConfigText(cmd.prev.config) /\ CommittedRegistry = cmd.reg
    BY <1>0, <2>1, SwitchCommitted DEF AfterRead, AfterSync, SwitchSteps
  <2>3. CommittedConfig.fileAuth
    BY <1>0, <2>1 DEF CommittedInv, SwitchSteps
  <2>4. CASE ~ ActiveIsApi(cmd.reg)
    <3>1. CommittedConfig.provider = None /\ CommittedConfig.keys \subseteq {None}
      BY <1>0, <2>2, <2>4 DEF CommittedInv, ActiveApi
    <3>2. CommittedConfig \in Config
      <4>1. cmd.prev.config \in Config \cup {None} /\ EmptyConfig \in Config
        BY DEF TypeInv, TypeOK, Command, Files, EmptyConfig, Config
      <4>2. QED
        BY <2>2, <4>1 DEF ConfigText
    <3>3. CommittedConfig.keys = {}
      BY <3>1, <3>2, AccountAssumption DEF Config
    <3>4. QED
      BY <1>1, <2>1, <2>2, <2>3, <3>1, <3>3 DEF BaselineIsPlusConfig
  <2>5. QED
    BY <1>1, <2>1, <2>4
<1>3. CASE SaveCurrent \/ Repair \/ SaveApi \/ Codex \/ Crash \/ UNCHANGED vars
  BY <1>1, <1>3
     DEF SaveCurrent, MarkInvalidBegin, SaveCurrentOfApi, SaveCurrentBegin,
         SaveCurrentSnapshot, WriteRegistry, Repair, EnsureFileAuth, EnsureProviders,
         EnsureRoute, SaveApi, SaveApiBegin, SaveApiSecret, SaveApiRegistry, SaveApiUndo,
         Codex, CodexRefresh, CodexLogin, Crash, vars, files
<1>4. CASE Delete
  BY <1>1, <1>4
     DEF Delete, DeleteBegin, DeleteUnlist, DeleteSecret, DeleteCatalog, DeleteSnapshot,
         DeleteRelist, files
<1>5. CASE Switch
  BY <1>1, <1>2, <1>5
     DEF Switch, SwitchBegin, SwitchSync, SwitchRead, SwitchCatalog, SwitchToPlus,
         SwitchWriteConfig, SwitchWriteAuth, SwitchWriteRoute, SwitchCommit, UndoConfig,
         UndoAuth, UndoRoute, UndoCatalog, UndoRegistry, files
<1>6. QED
  BY <1>3, <1>4, <1>5 DEF Next

\* The state the app first finds.
LEMMA StoreInit == Init => StoreInv
<1> SUFFICES ASSUME Init PROVE StoreInv
  OBVIOUS
<1>1. /\ pc = "idle" /\ save.pc = "idle" /\ cmd.late = FALSE
      /\ ReadRegistry = EmptyRegistry /\ registry = None /\ route = None /\ baseline = None
  BY IdleLocals DEF Init, ReadRegistry
<1>2. PendingInv
  BY <1>1 DEF PendingInv
<1>3. ConfigText(config).provider = None /\ ConfigText(config).keys = {}
  <2>1. config \in {None} \cup
          [provider : {None}, model : BOOLEAN, defs : {{}}, keys : {{}}, fileAuth : BOOLEAN]
    BY DEF Init
  <2>2. QED
    BY <2>1 DEF ConfigText, EmptyConfig
<1>4. /\ CommittedRegistry = EmptyRegistry /\ CommittedConfig = ConfigText(config)
      /\ CommittedRoute = None
  BY <1>1, <1>2, SettledCommitted DEF Settled
<1>5. CommittedInv
  BY <1>1, <1>3, <1>4, IdleLocals DEF CommittedInv, ActiveApi, ActiveIsApi, SwitchSteps
<1>6. BackupInv /\ InstallInv
  BY <1>1 DEF BackupInv, InstallInv, InstallSteps, AfterRead, AfterSync, SwitchSteps
<1>7. BaselineIsPlusConfig /\ KeyOnlyWhileActive
  BY <1>1, <1>3 DEF BaselineIsPlusConfig, KeyOnlyWhileActive, ConfigText
<1>8. QED
  BY <1>2, <1>5, <1>6, <1>7 DEF StoreInv

\* Every step keeps the invariant, and does one of the five things.
LEMMA StoreStep ==
  ASSUME OneWriter, Reliable, TypeInv, RegistryInv, StoreInv, [Next]_vars
  PROVE  /\ RegistryInv' /\ StoreInv'
         /\ Stutters \/ Installs \/ Relists \/ Repairs \/ LogsIn
<1>1. /\ PendingInv /\ BackupInv /\ InstallInv /\ CommittedInv /\ BaselineIsPlusConfig
  BY DEF StoreInv
<1>2. RegistryInv'
  BY RegistryStep
<1>3. PendingInv'
  BY <1>1, PendingStep
<1>4. BackupInv'
  BY <1>1, BackupStep
<1>5. InstallInv'
  BY <1>1, InstallStep
<1>6. Stutters \/ Installs \/ Relists \/ Repairs \/ LogsIn
  BY <1>2, <1>3, <1>4, Outcomes
<1>7. CommittedInv'
  BY <1>6, CommittedStep
<1>8. BaselineIsPlusConfig' /\ KeyOnlyWhileActive'
  BY BaselineStep, KeyStep
<1>9. QED
  BY <1>2, <1>3, <1>4, <1>5, <1>6, <1>7, <1>8 DEF StoreInv

\* What holds throughout when nothing overlaps and roll-backs succeed.
SettledInv == TypeInv /\ RegistryInv /\ StoreInv

\* The invariant holds throughout.
LEMMA SettledCorrect ==
  ASSUME OneWriter, Reliable
  PROVE  Spec => []SettledInv
<1>1. Init => SettledInv
  BY InitType, KeptInit, StoreInit DEF SettledInv, KeptInv
<1>2. SettledInv /\ [Next]_vars => SettledInv'
  BY TypeStep, StoreStep DEF SettledInv
<1>3. QED
  BY <1>1, <1>2, PTL DEF Spec

\* Between commands config.toml selects the API connection the registry calls
\* active, and the built-in provider when that is a ChatGPT account.
THEOREM ActiveIsInstalled ==
  ASSUME OneWriter, Reliable
  PROVE  Spec => []ActiveConnectionInstalled
<1>1. SettledInv => ActiveConnectionInstalled
  BY SettledCommitted
     DEF SettledInv, StoreInv, CommittedInv, ActiveConnectionInstalled, ActiveApi, Settled
<1>2. QED
  BY <1>1, SettledCorrect, PTL

\* Between commands the recorded route names the provider config.toml selects.
THEOREM RouteIsInstalled ==
  ASSUME OneWriter, Reliable
  PROVE  Spec => []RouteFollowsConfig
<1>1. SettledInv => RouteFollowsConfig
  BY SettledCommitted
     DEF SettledInv, StoreInv, CommittedInv, RouteFollowsConfig, Settled
<1>2. QED
  BY <1>1, SettledCorrect, PTL

\* chatgpt-config.toml never holds an API provider or a bearer token.
THEOREM BaselineStaysPlus ==
  ASSUME OneWriter, Reliable
  PROVE  Spec => []BaselineIsPlusConfig
<1>1. SettledInv => BaselineIsPlusConfig
  BY DEF SettledInv, StoreInv
<1>2. QED
  BY <1>1, SettledCorrect, PTL

\* At no step does config.toml hold the key of a connection it does not select.
THEOREM KeysLeaveWithConnection ==
  ASSUME OneWriter, Reliable
  PROVE  Spec => []KeyOnlyWhileActive
<1>1. SettledInv => KeyOnlyWhileActive
  BY DEF SettledInv, StoreInv
<1>2. QED
  BY <1>1, SettledCorrect, PTL

\* Between commands the model catalog config.toml points at exists.
THEOREM CatalogIsInstalled ==
  ASSUME OneWriter, Reliable
  PROVE  Spec => []SelectedCatalogExists
<1>1. SettledInv => SelectedCatalogExists
  BY SettledCommitted
     DEF SettledInv, StoreInv, CommittedInv, SelectedCatalogExists, Settled, ConfigText
<1>2. QED
  BY <1>1, SettledCorrect, PTL

-----------------------------------------------------------------------------
(***************************************************************************)
(* What the steps of a switch may never do.                                *)
(***************************************************************************)

\* Only the switch itself ends its roll-back, or the switch.
LEMMA SwitchEnds ==
  ASSUME Reliable, RegistryInv, [Next]_vars, pc' = "idle"
  PROVE  /\ pc \in {"undoCatalog", "undoRegistry"} => UndoCatalog \/ UndoRegistry
         /\ pc = "registry" => SwitchCommit
<1> SUFFICES ASSUME pc \in {"undoCatalog", "undoRegistry", "registry"}
             PROVE  UndoCatalog \/ UndoRegistry \/ SwitchCommit
  BY DEF UndoCatalog, UndoRegistry, SwitchCommit
<1>1. ~ SaveCurrent /\ ~ Delete /\ ~ Repair
  BY DEF SaveCurrent, MarkInvalidBegin, SaveCurrentOfApi, SaveCurrentBegin,
         SaveCurrentSnapshot, WriteRegistry, Delete, DeleteBegin, DeleteUnlist, DeleteSecret,
         DeleteCatalog, DeleteSnapshot, DeleteRelist, Repair, EnsureFileAuth,
         EnsureProviders, EnsureRoute, MainMayStart
<1>2. ~ SaveApi /\ ~ Codex
  BY DEF SaveApi, SaveApiBegin, SaveApiSecret, SaveApiRegistry, SaveApiUndo, Codex,
         CodexRefresh, CodexLogin
<1>3. ~ Crash /\ pc' # pc
  BY ReliableWrites DEF Crash
<1>4. CASE Switch
  BY <1>4
     DEF Switch, SwitchBegin, MainMayStart, SwitchSync, SwitchRead, SwitchBaseline,
         SwitchCatalog, SwitchToPlus, SwitchWriteConfig, SwitchWriteAuth, SwitchWriteRoute,
         UndoConfig, UndoAuth, UndoRoute
<1>5. QED
  BY <1>1, <1>2, <1>3, <1>4 DEF Next, vars

\* A switch that fails has put back every file it replaced once it returns.
THEOREM FailedSwitchUndone ==
  ASSUME Serial, Reliable
  PROVE  Spec => FailedSwitchRestores
<1>1. ASSUME SettledInv, [Next]_vars, RollsBack
      PROVE  /\ config' = cmd.prev.config
             /\ auth' = cmd.prev.auth
             /\ route' = cmd.prev.route
             /\ cmd.target \in Apis => (cmd.target \in catalogs') = cmd.prev.catalog
             /\ ReadRegistry' = cmd.reg
  <2>1. pc \in {"undoCatalog", "undoRegistry"} /\ (UndoCatalog \/ UndoRegistry) /\ pc' = "idle"
    BY <1>1, SwitchEnds DEF RollsBack, SettledInv
  <2>2. UNCHANGED <<config, auth, route>>
    BY <2>1 DEF UndoCatalog, UndoRegistry
  <2>3. config = cmd.prev.config /\ auth = cmd.prev.auth /\ route = cmd.prev.route
    BY <1>1, <2>1
       DEF SettledInv, StoreInv, BackupInv, AfterRead, AfterSync, SwitchSteps, ConfigPending,
           AuthPending, RoutePending
  <2>4. cmd.prev.catalog \in BOOLEAN /\ cmd.reg \in Registry
    BY <1>1 DEF SettledInv, TypeInv, TypeOK, Command, Files
  <2>5. CASE UndoCatalog
    <3>1. ~ cmd.late /\ pc = "undoCatalog" /\ registry' = registry
      BY <2>1, <2>5 DEF UndoCatalog
    <3>2. ReadRegistry' = cmd.reg
      BY <1>1, <3>1 DEF SettledInv, RegistryInv, SwitchSteps, ReadRegistry
    <3>3. cmd.target \in Apis => (cmd.target \in catalogs') = cmd.prev.catalog
      BY <2>4, <2>5, AccountAssumption, ReliableWrites DEF UndoCatalog
    <3>4. QED
      BY <2>2, <2>3, <3>2, <3>3
  <2>6. CASE UndoRegistry
    <3>1. pc = "undoRegistry" /\ registry' = cmd.reg /\ catalogs' = catalogs
      BY <2>6, ReliableWrites DEF UndoRegistry, Restore
    <3>2. ReadRegistry' = cmd.reg
      BY <2>4, <3>1, NoneAssumption DEF ReadRegistry
    <3>3. cmd.target \in Apis => (cmd.target \in catalogs') = cmd.prev.catalog
      BY <1>1, <2>4, <3>1
         DEF SettledInv, StoreInv, BackupInv, AfterRead, AfterSync, SwitchSteps
    <3>4. QED
      BY <2>2, <2>3, <3>2, <3>3
  <2>7. QED
    BY <2>1, <2>5, <2>6
<1>2. SettledInv /\ [Next]_vars =>
        [RollsBack => /\ config' = cmd.prev.config
                      /\ auth' = cmd.prev.auth
                      /\ route' = cmd.prev.route
                      /\ cmd.target \in Apis => (cmd.target \in catalogs') = cmd.prev.catalog
                      /\ ReadRegistry' = cmd.reg]_vars
  BY <1>1
<1>3. QED
  BY <1>2, SettledCorrect, OneWriterSerial, PTL DEF Spec, FailedSwitchRestores

\* A switch that succeeds has installed its connection in every file.
THEOREM SwitchInstalls ==
  ASSUME Serial, Reliable
  PROVE  Spec => SwitchInstallsOneConnection
<1>1. ASSUME SettledInv, [Next]_vars, pc = "registry", pc' = "idle",
             NEW t \in Conn, t = cmd.target
      PROVE  Installed(t)'
  <2> DEFINE new == [cmd.reg EXCEPT !.active = cmd.target]
  <2>1. SwitchCommit
    BY <1>1, SwitchEnds DEF SettledInv
  <2>2. registry' = new /\ UNCHANGED <<config, auth, route, catalogs, snapshot>>
    BY <1>1, <2>1 DEF SwitchCommit, Write
  <2>3. new \in Registry /\ new.active = t /\ new.accounts = cmd.reg.accounts
    BY <1>1 DEF SettledInv, TypeInv, TypeOK, Command, Registry
  <2> HIDE DEF new
  <2>4. ReadRegistry' = new
    BY <2>2, <2>3, NoneAssumption DEF ReadRegistry
  <2>5. /\ config = cmd.nextConfig /\ auth = cmd.nextAuth
        /\ cmd.nextConfig.provider = ProviderOf(t)
        /\ cmd.nextConfig.keys = {t} \cap Apis
        /\ cmd.reg.accounts \cap Apis \subseteq cmd.nextConfig.defs
        /\ t \in Apis => t \in catalogs
        /\ t \in Plus => cmd.nextAuth = [owner |-> t, token |-> snapshot[t]]
        /\ route = [key |-> t, provider |-> cmd.nextConfig.provider]
    BY <1>1
       DEF SettledInv, StoreInv, InstallInv, InstallSteps, ConfigPending, AuthPending,
           RoutePending
  <2>6. QED
    BY <2>2, <2>3, <2>4, <2>5 DEF Installed, ProviderOf
<1>2. SettledInv /\ [Next]_vars =>
        [pc = "registry" /\ pc' = "idle" =>
           \A t \in Conn : t = cmd.target => Installed(t)']_vars
  BY <1>1
<1>3. QED
  BY <1>2, SettledCorrect, OneWriterSerial, PTL DEF Spec, SwitchInstallsOneConnection

-----------------------------------------------------------------------------
(***************************************************************************)
(* The store implements ConnectionDirectory.                               *)
(***************************************************************************)

\* The initial states are initial states of the directory.
LEMMA DirectoryInit == Init => Directory!Init
<1> SUFFICES ASSUME Init PROVE Directory!Init
  OBVIOUS
<1>1. PendingInv /\ pc = "idle" /\ registry = None
  BY StoreInit DEF StoreInv, Init
<1>2. CommittedRegistry = EmptyRegistry /\ CommittedConfig = ConfigText(config)
      /\ CommittedAuth = auth
  BY <1>1, SettledCommitted DEF Settled, ReadRegistry
<1>3. ConfigText(config).provider = None
  <2>1. config \in {None} \cup
          [provider : {None}, model : BOOLEAN, defs : {{}}, keys : {{}}, fileAuth : BOOLEAN]
    BY DEF Init
  <2>2. QED
    BY <2>1 DEF ConfigText, EmptyConfig
<1>4. auth = None \/ auth.owner \in Plus
  BY DEF Init
<1>5. QED
  BY <1>2, <1>3, <1>4, IdleLocals DEF Directory!Init

\* Every step is a step of the directory or none.
LEMMA DirectoryStep ==
  ASSUME SettledInv, [Next]_vars, Serial, Reliable
  PROVE  [Directory!Next]_(Directory!vars)
<1> DEFINE login == IF CommittedAuth = None THEN None ELSE CommittedAuth.owner
<1>0. /\ TypeInv /\ RegistryInv /\ StoreInv /\ CommittedInv /\ InstallInv /\ BackupInv
      /\ Plus \cap Apis = {} /\ None \notin Plus \cup Apis
  BY AccountAssumption DEF SettledInv, StoreInv
<1>1. /\ Stutters \/ Installs \/ Relists \/ Repairs \/ LogsIn
      /\ SameLogin <=> CommittedAuth' = CommittedAuth
  BY <1>0, StoreStep, OneWriterSerial DEF SameLogin
<1>2. CommittedRegistry \in Registry /\ CommittedAuth \in Auth \cup {None}
  BY <1>0, ReadTypes
     DEF CommittedRegistry, CommittedAuth, TypeInv, TypeOK, FileTypes, Command, Files
<1>3. CASE Stutters
  BY <1>1, <1>3 DEF Stutters, committed, Directory!vars
<1>4. CASE Repairs
  BY <1>1, <1>4 DEF Repairs, Directory!vars
<1>5. CASE LogsIn
  <2>1. CommittedAuth' \in Auth /\ CommittedAuth' # None
    BY <1>5, NoneAssumption DEF LogsIn
  <2>2. CommittedAuth'.owner \in Plus
    BY <2>1 DEF Auth
  <2>3. Directory!Login(CommittedAuth'.owner)
    BY <1>5, <2>1 DEF LogsIn, Directory!Login
  <2>4. QED
    BY <2>2, <2>3 DEF Directory!Next
<1>6. CASE Relists
  <2>1. CASE /\ ~ ActiveIsApi(CommittedRegistry) /\ CommittedAuth \in Auth
             /\ CommittedRegistry' =
                  [active |-> CommittedAuth.owner,
                   accounts |-> CommittedRegistry.accounts \cup {CommittedAuth.owner}]
    <3>1. CommittedAuth # None /\ CommittedAuth.owner \in Plus
      BY <2>1, NoneAssumption DEF Auth
    <3>2. CommittedConfig.provider = None
      BY <1>0, <2>1 DEF CommittedInv, ActiveApi
    <3>3. Directory!Adopt(CommittedAuth.owner)
      BY <1>1, <1>6, <2>1, <3>1, <3>2 DEF Relists, Directory!Adopt
    <3>4. QED
      BY <3>1, <3>3 DEF Directory!Next
  <2>2. ASSUME NEW a \in Apis,
               CommittedRegistry' = [CommittedRegistry EXCEPT !.accounts = @ \cup {a}]
        PROVE  Directory!List(a)
    BY <1>1, <1>2, <1>6, <2>2 DEF Relists, Directory!List, Registry
  <2>3. ASSUME NEW c \in CommittedRegistry.accounts \ {CommittedRegistry.active},
               CommittedRegistry' = [CommittedRegistry EXCEPT !.accounts = @ \ {c}]
        PROVE  Directory!Delete(c) /\ c \in Directory!Conn
    BY <1>1, <1>2, <1>6, <2>3 DEF Relists, Directory!Delete, Directory!Conn, Registry, Conn
  <2>4. QED
    BY <1>6, <2>1, <2>2, <2>3 DEF Relists, Directory!Next
<1>7. CASE Installs
  <2>1. /\ pc = "registry" /\ cmd.target \in Conn /\ cmd.target \in cmd.reg.accounts
        /\ cmd.reg \in Registry
    BY <1>0, <1>7
       DEF Installs, TypeInv, TypeOK, LocalsOK, Command, RegistryInv, SwitchSteps, UndoSteps
  <2>2. CommittedRegistry = cmd.reg /\ CommittedAuth = cmd.prev.auth
    BY <1>0, <2>1, SwitchCommitted DEF AfterRead, AfterSync, SwitchSteps
  <2>3. /\ cmd.nextConfig.provider = ProviderOf(cmd.target)
        /\ cmd.target \in Plus =>
             cmd.nextAuth = [owner |-> cmd.target, token |-> snapshot[cmd.target]]
        /\ cmd.nextAuth \in Auth
        /\ cmd.target \in Apis =>
             cmd.nextAuth.owner \in cmd.reg.accounts \cup {OwnerOf(cmd.prev.auth)}
    BY <1>0, <2>1 DEF InstallInv, InstallSteps
  <2>4. /\ CommittedRegistry'.active = cmd.target
        /\ CommittedRegistry'.accounts = CommittedRegistry.accounts
        /\ CommittedConfig'.provider = ProviderOf(cmd.target)
        /\ CommittedAuth' = cmd.nextAuth /\ CommittedAuth' # None
        /\ cmd.nextAuth.owner \in Plus
    BY <1>7, <2>1, <2>2, <2>3, NoneAssumption DEF Installs, Registry, Auth
  <2>5. CASE cmd.target \in Plus
    <3>1. Directory!InstallPlus(cmd.target)
      BY <1>0, <2>1, <2>2, <2>3, <2>4, <2>5 DEF Directory!InstallPlus, ProviderOf
    <3>2. QED
      BY <2>5, <3>1 DEF Directory!Next
  <2>6. CASE cmd.target \in Apis
    <3>1. cmd.nextAuth.owner \in ({login} \cup (cmd.reg.accounts \cap Plus)) \ {None}
      BY <1>0, <2>2, <2>3, <2>4, <2>6 DEF OwnerOf
    <3>2. Directory!InstallApi(cmd.target)
      BY <1>0, <2>1, <2>2, <2>4, <2>6, <3>1 DEF Directory!InstallApi, ProviderOf
    <3>3. QED
      BY <2>6, <3>2 DEF Directory!Next
  <2>7. QED
    BY <2>1, <2>5, <2>6 DEF Conn
<1>8. QED
  BY <1>1, <1>3, <1>4, <1>5, <1>6, <1>7

\* Every behaviour of the store is one of the directory: a command that
\* succeeds is a single step of it, one that fails is none.
THEOREM StoreImplementsDirectory ==
  ASSUME Serial, Reliable
  PROVE  Spec => ImplementsDirectory
<1>1. SettledInv /\ [Next]_vars => [Directory!Next]_(Directory!vars)
  BY DirectoryStep
<1>2. QED
  BY <1>1, DirectoryInit, SettledCorrect, OneWriterSerial, PTL
     DEF Spec, ImplementsDirectory, Directory!Spec

-----------------------------------------------------------------------------
(***************************************************************************)
(* What the panel lists can be switched to, even after a crash.            *)
(***************************************************************************)

\* A write that fails replaced nothing, and the keyring works.
CleanFailures == Faults \cap {"landed", "keyring"} = {} /\ ~ Windows

\* Connection c has what a switch to it needs.
Usable(c) == IF c \in Plus THEN snapshot[c] # None ELSE c \in secrets
AllUsable(accounts) == \A c \in accounts : Usable(c)

\* The lists a command may still write are usable too, but for the account
\* whose snapshot is about to be written.
UsableInv ==
  /\ AllUsable(ReadRegistry.accounts)
  /\ pc \in SwitchSteps \cup {"commit", "unlist", "secret", "file", "relist"} =>
       AllUsable(cmd.reg.accounts)
  /\ pc = "snapshot" => AllUsable(cmd.reg.accounts \ {cmd.nextAuth.owner})
  /\ pc \in {"secret", "file"} => cmd.target \notin ReadRegistry.accounts
  /\ save.pc # "idle" =>
       /\ AllUsable(save.reg.accounts)
       /\ ~ save.had => save.api \notin ReadRegistry.accounts
       /\ save.pc # "store" => save.api \in secrets

\* A write of the registry that fails leaves it as it was.
LEMMA CleanWrites ==
  ASSUME CleanFailures
  PROVE  /\ \A old, new : AfterFailedWrite(old, new) = {old}
         /\ "keyring" \notin Faults
BY DEF CleanFailures, AfterFailedWrite

\* Every step keeps the lists usable.
LEMMA UsableStep ==
  OneWriter /\ CleanFailures /\ TypeInv /\ RegistryInv /\ UsableInv /\ [Next]_vars => UsableInv'
<1> SUFFICES ASSUME OneWriter, CleanFailures, TypeInv, RegistryInv, UsableInv, [Next]_vars
             PROVE  UsableInv'
  OBVIOUS
<1> USE DEF UsableInv, AllUsable, Usable, SwitchSteps
<1>0. /\ cmd \in Command /\ cmd.reg \in Registry /\ save \in ApiSave /\ save.reg \in Registry
      /\ ReadRegistry \in Registry /\ snapshot \in [Plus -> Token \cup {None}]
      /\ None \notin Token
      /\ pc = "idle" \/ save.pc = "idle"
  BY ReadTypes, AccountAssumption
     DEF TypeInv, TypeOK, FileTypes, Command, ApiSave, RegistryInv, Token
<1>1. ASSUME MarkInvalidBegin \/ SaveCurrentOfApi
      PROVE  UsableInv'
  <2>1. cmd'.reg = ReadRegistry
    BY <1>1, BegunSteps
  <2>2. /\ pc' = "commit" /\ save.pc = "idle" /\ UNCHANGED <<registry, snapshot, secrets, save>>
    BY <1>1 DEF MarkInvalidBegin, SaveCurrentOfApi, MainMayStart, OneWriter, files
  <2>3. QED
    BY <2>1, <2>2 DEF ReadRegistry
<1>2. ASSUME NEW t \in Conn, SwitchBegin(t) \/ DeleteBegin(t)
      PROVE  UsableInv'
  <2>1. cmd'.reg = ReadRegistry
    BY <1>2, BegunSteps
  <2>2. /\ pc' \in {"sync", "unlist"} /\ save.pc = "idle"
        /\ UNCHANGED <<registry, snapshot, secrets, save>>
    BY <1>2 DEF SwitchBegin, DeleteBegin, MainMayStart, OneWriter, files
  <2>3. QED
    BY <2>1, <2>2 DEF ReadRegistry
<1>3. CASE SaveCurrentBegin
  <2>1. /\ cmd'.reg.accounts = ReadRegistry.accounts \cup {auth.owner}
        /\ cmd'.nextAuth = auth
    BY <1>3, BegunSteps
  <2>2. /\ pc' = "snapshot" /\ save.pc = "idle" /\ UNCHANGED <<registry, snapshot, secrets, save>>
    BY <1>3 DEF SaveCurrentBegin, MainMayStart, OneWriter, files
  <2>3. QED
    BY <2>1, <2>2 DEF ReadRegistry
<1>4. CASE SaveCurrentSnapshot
  <2>1. cmd.nextAuth.owner \in Plus /\ cmd.nextAuth.token # None /\ pc = "snapshot"
    BY <1>0, <1>4 DEF SaveCurrentSnapshot, TypeInv, LocalsOK, Auth
  <2>2. /\ UNCHANGED <<registry, secrets, save>>
        /\ \/ /\ pc' = "commit" /\ cmd' = cmd
              /\ snapshot' = [snapshot EXCEPT ![cmd.nextAuth.owner] = cmd.nextAuth.token]
           \/ pc' = "idle" /\ snapshot' = snapshot
    BY <1>0, <1>4, CleanWrites DEF SaveCurrentSnapshot, WriteSnapshot, KeepLocals
  <2>3. QED
    BY <1>0, <2>1, <2>2 DEF ReadRegistry
<1>5. CASE SwitchSync
  <2>1. /\ UNCHANGED <<registry, secrets, save>> /\ pc = "sync"
        /\ \/ pc' = "read" /\ cmd' = cmd
           \/ pc' = "idle"
    BY <1>5 DEF SwitchSync, WriteSnapshot, KeepLocals
  <2>2. \A p \in Plus : snapshot[p] # None => snapshot'[p] # None
    <3>1. CASE SyncApplies(cmd.reg)
      <4>1. auth.token # None
        BY <1>0, <3>1 DEF SyncApplies, TypeInv, TypeOK, FileTypes, Auth
      <4>2. snapshot' = snapshot \/ snapshot' = [snapshot EXCEPT ![cmd.reg.active] = auth.token]
        BY <1>0, <1>5, <3>1, CleanWrites DEF SwitchSync, WriteSnapshot
      <4>3. QED
        BY <1>0, <4>1, <4>2
    <3>2. CASE ~ SyncApplies(cmd.reg)
      BY <1>5, <3>2 DEF SwitchSync
    <3>3. QED
      BY <3>1, <3>2
  <2>3. QED
    BY <1>0, <2>1, <2>2 DEF ReadRegistry
\* A step of a switch or the end of a command that leaves the list and the
\* credentials alone.
<1>a. ASSUME pc # "idle", UNCHANGED <<registry, snapshot, secrets, save>>,
             \/ pc' \in {"idle", "catalogGone", "historyRoute"}
             \/ pc \in SwitchSteps /\ pc' \in SwitchSteps /\ cmd'.reg = cmd.reg
      PROVE  UsableInv'
  BY <1>0, <1>a DEF ReadRegistry
<1>6. CASE SwitchRead \/ SwitchCatalog \/ SwitchToPlus
  <2>1. /\ pc \in SwitchSteps /\ UNCHANGED <<registry, snapshot, secrets, save>>
        /\ pc' \in {"idle", "prepare", "config"}
        /\ pc' = "idle" \/ cmd'.reg = cmd.reg
    BY <1>0, <1>6, StepLocals DEF SwitchRead, SwitchCatalog, SwitchToPlus, files
  <2>2. QED
    BY <1>a, <2>1
<1>7. CASE SwitchBaseline \/ SwitchWriteConfig \/ SwitchWriteAuth \/ SwitchWriteRoute
  <2>1. /\ pc \in SwitchSteps /\ UNCHANGED <<registry, snapshot, secrets, save>>
        /\ pc' \in SwitchSteps \cup {"idle"}
        /\ pc' = "idle" \/ cmd' = cmd
    BY <1>7
       DEF SwitchBaseline, SwitchWriteConfig, SwitchWriteAuth, SwitchWriteRoute, Write,
           KeepLocals
  <2>2. QED
    BY <1>a, <2>1
<1>8. CASE UndoConfig \/ UndoAuth \/ UndoRoute \/ UndoCatalog
  <2>1. /\ pc \in SwitchSteps /\ UNCHANGED <<registry, snapshot, secrets, save>>
        /\ pc' \in SwitchSteps \cup {"idle"}
        /\ pc' = "idle" \/ cmd' = cmd
    BY <1>8 DEF UndoConfig, UndoAuth, UndoRoute, UndoCatalog, Restore, KeepLocals
  <2>2. QED
    BY <1>a, <2>1
<1>9. CASE SwitchCommit
  <2> DEFINE new == [cmd.reg EXCEPT !.active = cmd.target]
  <2>1. /\ pc = "registry" /\ UNCHANGED <<snapshot, secrets, save>>
        /\ registry' \in {new, registry}
        /\ \/ pc' = "idle"
           \/ pc' = "undoConfig" /\ cmd'.reg = cmd.reg
    BY <1>0, <1>9, LateLocals, CleanWrites DEF SwitchCommit, Write
  <2>2. new \in Registry /\ new.accounts = cmd.reg.accounts
    BY <1>0, <2>1 DEF TypeInv, LocalsOK, Registry
  <2> HIDE DEF new
  <2>3. ReadRegistry' \in {new, ReadRegistry}
    BY <2>1, <2>2, RegistryReads
  <2>4. QED
    BY <1>0, <2>1, <2>2, <2>3
\* A command ends by writing the list it holds.
<1>b. ASSUME pc \in {"commit", "undoRegistry", "relist"}, pc' = "idle",
             registry' \in {cmd.reg, registry}, UNCHANGED <<snapshot, secrets, save>>
      PROVE  UsableInv'
  <2>1. ReadRegistry' \in {cmd.reg, ReadRegistry}
    BY <1>0, <1>b, RegistryReads
  <2>2. QED
    BY <1>0, <1>b, <2>1
<1>10. CASE WriteRegistry \/ UndoRegistry \/ DeleteRelist
  BY <1>10, <1>b, CleanWrites DEF WriteRegistry, UndoRegistry, DeleteRelist, Write, Restore
<1>11. CASE DeleteUnlist
  <2> DEFINE new == [cmd.reg EXCEPT !.accounts = @ \ {cmd.target}]
  <2>1. /\ pc = "unlist" /\ UNCHANGED <<snapshot, secrets, save>>
        /\ \/ pc' = "idle" /\ registry' \in {new, registry}
           \/ pc' \in {"secret", "file"} /\ cmd' = cmd /\ registry' = new
    BY <1>11, CleanWrites DEF DeleteUnlist, Write, KeepLocals
  <2>2. new \in Registry /\ new.accounts = cmd.reg.accounts \ {cmd.target}
    BY <1>0 DEF Registry
  <2> HIDE DEF new
  <2>3. /\ ReadRegistry' \in {new, ReadRegistry}
        /\ registry' = new => ReadRegistry' = new
    BY <2>1, <2>2, RegistryReads
  <2>4. QED
    BY <1>0, <2>1, <2>2, <2>3
<1>12. CASE DeleteSecret
  <2>1. /\ pc = "secret" /\ pc' = "catalogGone" /\ secrets' = secrets \ {cmd.target}
        /\ UNCHANGED <<registry, snapshot, save>>
    BY <1>12, CleanWrites DEF DeleteSecret
  <2>2. QED
    BY <1>0, <2>1 DEF ReadRegistry
<1>13. CASE DeleteCatalog
  BY <1>13, <1>a DEF DeleteCatalog
<1>14. CASE DeleteSnapshot
  <2>1. /\ pc = "file" /\ UNCHANGED <<registry, secrets, save>>
        /\ \/ pc' = "idle" /\ snapshot' = [snapshot EXCEPT ![cmd.target] = None]
           \/ pc' = "relist" /\ cmd' = cmd /\ snapshot' = snapshot
    BY <1>14 DEF DeleteSnapshot, KeepLocals
  <2>2. QED
    BY <1>0, <2>1 DEF ReadRegistry
<1>15. CASE Repair
  <2>1. /\ pc' \in {"idle", "historyRoute"} /\ save.pc = "idle"
        /\ UNCHANGED <<registry, snapshot, secrets, save>>
    BY <1>0, <1>15
       DEF Repair, EnsureFileAuth, EnsureProviders, EnsureRoute, Write, MainMayStart, OneWriter
  <2>2. QED
    BY <2>1 DEF ReadRegistry
<1>16. ASSUME NEW a \in Apis, SaveApiBegin(a)
       PROVE  UsableInv'
  <2>1. /\ pc = "idle" /\ pc' = "idle" /\ UNCHANGED <<registry, snapshot, secrets>>
        /\ \E had \in {a \in secrets} :
             save' = [pc |-> "store", api |-> a, reg |-> ReadRegistry, had |-> had]
    BY <1>16, CleanWrites DEF SaveApiBegin, files, OneWriter
  <2>2. /\ save'.pc = "store" /\ save'.api = a /\ save'.reg = ReadRegistry
        /\ ~ save'.had => a \notin secrets
    BY <2>1
  <2>3. a \notin Plus
    BY AccountAssumption
  <2>4. QED
    BY <1>0, <2>1, <2>2, <2>3 DEF ReadRegistry
<1>17. CASE SaveApiSecret
  <2>1. /\ save.pc = "store" /\ pc = "idle" /\ pc' = "idle" /\ UNCHANGED <<registry, snapshot>>
        /\ secrets' = secrets \cup {save.api} /\ save' = [save EXCEPT !.pc = "write"]
    BY <1>0, <1>17, CleanWrites DEF SaveApiSecret
  <2>2. save'.pc = "write" /\ save'.api = save.api /\ save'.reg = save.reg /\ save'.had = save.had
    BY <1>0, <2>1 DEF ApiSave
  <2>3. QED
    BY <1>0, <2>1, <2>2 DEF ReadRegistry
<1>18. CASE SaveApiRegistry
  <2> DEFINE new == [save.reg EXCEPT !.accounts = @ \cup {save.api}]
  <2>1. /\ save.pc = "write" /\ pc = "idle" /\ pc' = "idle" /\ UNCHANGED <<snapshot, secrets>>
        /\ \/ registry' = new /\ save' = NoSave
           \/ registry' = registry /\ save' = [save EXCEPT !.pc = "undo"]
    BY <1>0, <1>18, CleanWrites DEF SaveApiRegistry
  <2>2. save.api \in Apis /\ save.api \notin Plus
    BY <2>1, AccountAssumption DEF TypeInv, LocalsOK
  <2>3. new \in Registry /\ new.accounts = save.reg.accounts \cup {save.api}
    BY <1>0, <2>2 DEF Registry, Conn
  <2> HIDE DEF new
  <2>4. CASE registry' = new /\ save' = NoSave
    <3>1. ReadRegistry' = new
      BY <2>3, <2>4, RegistryReads
    <3>2. QED
      BY <1>0, <2>1, <2>2, <2>3, <2>4, <3>1, IdleLocals
  <2>5. CASE registry' = registry /\ save' = [save EXCEPT !.pc = "undo"]
    <3>1. save'.pc = "undo" /\ save'.api = save.api /\ save'.reg = save.reg /\ save'.had = save.had
      BY <1>0, <2>5 DEF ApiSave
    <3>2. QED
      BY <1>0, <2>1, <2>5, <3>1 DEF ReadRegistry
  <2>6. QED
    BY <2>1, <2>4, <2>5
<1>19. CASE SaveApiUndo
  <2>1. /\ save.pc = "undo" /\ pc = "idle" /\ pc' = "idle" /\ UNCHANGED <<registry, snapshot>>
        /\ secrets' = (IF save.had THEN secrets \cup {save.api} ELSE secrets \ {save.api})
        /\ save' = NoSave
    BY <1>0, <1>19, CleanWrites DEF SaveApiUndo
  <2>2. QED
    BY <1>0, <2>1, IdleLocals DEF ReadRegistry
<1>20. CASE Codex
  BY <1>20 DEF Codex, CodexRefresh, CodexLogin, ReadRegistry
<1>21. CASE Crash
  BY <1>21, IdleLocals DEF Crash, files, ReadRegistry
<1>22. CASE UNCHANGED vars
  BY <1>22 DEF vars, files, ReadRegistry
<1>23. QED
  BY <1>1, <1>2, <1>3, <1>4, <1>5, <1>6, <1>7, <1>8, <1>9, <1>10, <1>11, <1>12, <1>13, <1>14,
     <1>15, <1>16, <1>17, <1>18, <1>19, <1>20, <1>21, <1>22
     DEF Next, SaveCurrent, Switch, Delete, SaveApi

\* Between commands every listed ChatGPT account has its snapshot and every
\* listed API connection its key, even if the process died or a roll-back
\* failed.
THEOREM ListedStayUsable ==
  ASSUME OneWriter, CleanFailures
  PROVE  Spec => []ListedAccountsUsable
<1>1. Init => UsableInv
  BY IdleLocals
     DEF Init, UsableInv, AllUsable, ReadRegistry, SwitchSteps
<1>2. TypeInv /\ RegistryInv /\ UsableInv /\ [Next]_vars => UsableInv'
  BY UsableStep
<1>3. UsableInv => ListedAccountsUsable
  BY DEF UsableInv, AllUsable, Usable, ListedAccountsUsable
<1>4. QED
  BY <1>1, <1>2, <1>3, RegistryCorrect, PTL DEF Spec

-----------------------------------------------------------------------------
(***************************************************************************)
(* What holds even if the process dies or a roll-back fails.               *)
(***************************************************************************)

\* A switch that is about to write config.toml has the table of every API
\* connection the registry lists.
DefsInv == pc = "config" => cmd.reg.accounts \cap Apis \subseteq cmd.nextConfig.defs

\* The config a switch has prepared holds the tables of all listed connections.
LEMMA PreparedDefs ==
  ASSUME TypeInv, SwitchCatalog \/ SwitchToPlus, pc' # "idle"
  PROVE  /\ cmd'.reg = cmd.reg
         /\ cmd.reg.accounts \cap Apis \subseteq cmd'.nextConfig.defs
<1>1. cmd \in Command /\ cmd.reg \in Registry /\ FileTypes
  BY DEF TypeInv, TypeOK, Command
<1>2. \A c \in Config : cmd.reg.accounts \cap Apis \subseteq RetainProviders(c, cmd.reg).defs
  BY <1>1 DEF RetainProviders, Config, Registry, Conn
<1>3. CASE SwitchCatalog
  <2>1. baseline \in Config /\ cmd.target \in Apis
    BY <1>1, <1>3, PreparedConfig DEF FileTypes, SwitchCatalog, TypeInv, LocalsOK
  <2>2. ApiConfig(ApiBase, cmd.target) \in Config
    BY <2>1, ApiConfigType DEF ApiBase
  <2>3. QED
    BY <1>1, <1>2, <1>3, <2>2, PreparedConfig, StepLocals, SMTT(30)
<1>4. CASE SwitchToPlus
  <2>1. PlusBase \in Config
    BY <1>1, <1>4, PreparedConfig DEF PlusBase, ConfigText, EmptyConfig, Config, FileTypes,
       Command, Files
  <2>2. QED
    BY <1>1, <1>2, <1>4, <2>1, PreparedConfig, StepLocals
<1>5. QED
  BY <1>3, <1>4

\* Only the step that prepares a config leads to the step that writes it.
LEMMA ConfigReached ==
  ASSUME [Next]_vars, pc' = "config"
  PROVE  SwitchCatalog \/ SwitchToPlus \/ UNCHANGED <<pc, cmd>>
<1>1. CASE SaveCurrent \/ Repair \/ SaveApi \/ Codex \/ Crash \/ UNCHANGED vars
  BY <1>1
     DEF SaveCurrent, MarkInvalidBegin, SaveCurrentOfApi, SaveCurrentBegin, SaveCurrentSnapshot,
         WriteSnapshot, WriteRegistry, Repair, EnsureFileAuth, EnsureProviders, EnsureRoute,
         SaveApi, SaveApiBegin, SaveApiSecret, SaveApiRegistry, SaveApiUndo, Codex,
         CodexRefresh, CodexLogin, Crash, Write, vars
<1>2. CASE Delete
  BY <1>2
     DEF Delete, DeleteBegin, DeleteUnlist, DeleteSecret, DeleteCatalog, DeleteSnapshot,
         DeleteRelist, Write, Restore
<1>3. CASE Switch
  BY <1>3
     DEF Switch, SwitchBegin, SwitchSync, WriteSnapshot, SwitchRead, SwitchBaseline,
         SwitchWriteConfig, SwitchWriteAuth, SwitchWriteRoute, SwitchCommit, UndoConfig,
         UndoAuth, UndoRoute, UndoCatalog, UndoRegistry, Write, Restore
<1>4. QED
  BY <1>1, <1>2, <1>3 DEF Next

\* No write of config.toml drops the provider table of a listed API connection,
\* even if the process died, a write failed, or a roll-back did.
THEOREM SavedProvidersKept ==
  ASSUME OneWriter, ~ Windows
  PROVE  Spec => SavedProvidersStayDefined
<1> DEFINE Inv == TypeInv /\ RegistryInv /\ DefsInv
<1>1. Init => DefsInv
  BY DEF DefsInv, Init
<1>2. Inv /\ [Next]_vars => DefsInv'
  <2> SUFFICES ASSUME Inv, [Next]_vars PROVE DefsInv'
    OBVIOUS
  <2> SUFFICES ASSUME pc' = "config"
               PROVE  (cmd.reg.accounts \cap Apis \subseteq cmd.nextConfig.defs)'
    BY DEF DefsInv
  <2>1. QED
    BY ConfigReached, PreparedDefs DEF DefsInv
<1>3. ASSUME Inv, [Next]_vars,
             NEW a \in Apis, a \in ConfigText(config).defs \cap ReadRegistry.accounts,
             config' # config, pc # "undoConfig"
      PROVE  a \in ConfigText(config)'.defs
  <2>1. CASE pc = "config" /\ config' = cmd.nextConfig
    <3>1. cmd.nextConfig \in Config /\ ReadRegistry = cmd.reg
      BY <1>3, <2>1 DEF TypeInv, LocalsOK, RegistryInv, SwitchSteps, UndoSteps
    <3>2. QED
      BY <1>3, <2>1, <3>1, NoneAssumption DEF DefsInv, ConfigText
  <2>2. CASE config' \in Config /\ ConfigText(config).defs \subseteq config'.defs
    BY <1>3, <2>2, NoneAssumption DEF ConfigText
  <2>3. QED
    BY <1>3, <2>1, <2>2, ConfigWrites DEF ConfigMoves
<1>4. Inv /\ [Next]_vars =>
        [\A a \in Apis :
           /\ a \in ConfigText(config).defs \cap ReadRegistry.accounts
           /\ config' # config
           /\ pc # "undoConfig"
           => a \in ConfigText(config)'.defs]_vars
  BY <1>3
<1>5. QED
  BY <1>1, <1>2, <1>4, RegistryCorrect, PTL DEF Spec, SavedProvidersStayDefined

=============================================================================
