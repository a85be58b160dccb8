------------------------- MODULE AccountStoreProofs -------------------------
(***************************************************************************)
(* For every instance: type correctness of AccountStore; that its registry *)
(* always lists the active account, whatever overlaps or fails; and, when  *)
(* nothing overlaps, that no step loses the newest tokens of the active    *)
(* ChatGPT account, whatever write, roll-back or process fails.            *)
(***************************************************************************)
EXTENDS AccountStore, TLAPS

SwitchSteps == {"sync", "read", "prepare", "catalog", "config", "auth", "route", "registry",
                "undoConfig", "undoAuth", "undoRoute", "undoCatalog", "undoRegistry"}
AfterSync == SwitchSteps \ {"sync"}
AfterRead == AfterSync \ {"read"}
UndoSteps == {"undoConfig", "undoAuth", "undoRoute", "undoCatalog", "undoRegistry"}

(***************************************************************************)
(* What the locals of a command hold at each of its steps: without it      *)
(* TypeOK is not inductive.                                                *)
(***************************************************************************)
LocalsOK ==
  /\ pc = "snapshot" => cmd.nextAuth \in Auth
  /\ pc \in {"config", "auth", "route"} => cmd.nextConfig \in Config
  /\ pc \in SwitchSteps => cmd.target \in Conn
  /\ pc = "catalog" => cmd.target \in Apis
  /\ pc = "historyRoute" => config \in Config
  /\ save.pc # "idle" => save.api \in Apis

TypeInv == TypeOK /\ LocalsOK

-----------------------------------------------------------------------------
(***************************************************************************)
(* The inductive invariant behind ActiveLoginKept.                         *)
(***************************************************************************)
\* Commands do not overlap; a Codex may run beside them, or may not.
OneWriter == "save" \notin Interleave
Serial == Interleave = {}

\* Nothing at all beside a command is one writer of the registry too.
LEMMA OneWriterSerial == Serial => OneWriter
BY DEF Serial, OneWriter

\* Login a is no older than the snapshot of its account, when that is the newest.
NotBehind(a) ==
  a # None => /\ a.token <= latest[a.owner]
              /\ snapshot[a.owner] = latest[a.owner] => a.token = latest[a.owner]

\* If a is p's newest login, p's snapshot holds it.
SavedAs(a, p) == a = [owner |-> p, token |-> latest[p]] => snapshot[p] = latest[p]

ListsActive(r) == r.active \in r.accounts \cup {None}

\* One command at a time, and the list the registry and the locals agree on.
RegistryInv ==
  /\ pc = "idle" \/ save.pc = "idle"
  /\ ListsActive(ReadRegistry) /\ ListsActive(cmd.reg) /\ ListsActive(save.reg)
  /\ pc \in SwitchSteps /\ ~ cmd.late => ReadRegistry = cmd.reg
  /\ pc \in SwitchSteps \ UndoSteps => ~ cmd.late /\ cmd.target \in cmd.reg.accounts
  /\ pc \in UndoSteps => ReadRegistry.active \in {cmd.reg.active, cmd.target, None}
  /\ pc = "unlist" => ReadRegistry = cmd.reg /\ cmd.target # cmd.reg.active
  /\ pc \in {"secret", "file"} => cmd.target # ReadRegistry.active

\* Logins on disk and in memory are not behind the snapshots.
LoginInv ==
  /\ \A p \in KeyLogins : latest[p] = 0
  /\ \A p \in Plus : snapshot[p] # None => snapshot[p] <= latest[p]
  /\ NotBehind(auth)
  /\ pc = "snapshot" => cmd.nextAuth = auth
  /\ pc \in AfterRead => NotBehind(cmd.prev.auth)
  /\ pc \in {"config", "auth"} => NotBehind(cmd.nextAuth)

\* Once the switch has synced, no copy of the newest login of the account it
\* leaves, or of the one it installs, is the only one.
SyncedInv ==
  /\ \A p \in Plus : p = cmd.reg.active =>
       /\ pc \in AfterSync => SavedAs(auth, p)
       /\ pc \in AfterRead => SavedAs(cmd.prev.auth, p)
       /\ pc \in {"config", "auth"} => SavedAs(cmd.nextAuth, p)
  /\ \A p \in Plus : p = cmd.target =>
       /\ pc \in {"config", "auth"} => SavedAs(cmd.nextAuth, p)
       /\ pc \in {"route", "registry"} => SavedAs(auth, p)
       /\ pc \in {"undoConfig", "undoAuth"} /\ cmd.late => SavedAs(auth, p)

KeptInv == RegistryInv /\ LoginInv /\ SyncedInv

-----------------------------------------------------------------------------
(***************************************************************************)
(* What the helpers return.                                                *)
(***************************************************************************)

LEMMA ReadTypes ==
  ASSUME FileTypes
  PROVE  /\ ReadRegistry \in Registry
         /\ ConfigText(config) \in Config
BY AccountAssumption
   DEF FileTypes, ReadRegistry, ConfigText, Registry, Config, EmptyRegistry, EmptyConfig,
       Conn

LEMMA RetainProvidersType ==
  ASSUME NEW c \in Config, NEW r \in Registry
  PROVE  RetainProviders(c, r) \in Config
BY DEF RetainProviders, Config, Registry, Conn

LEMMA ApiConfigType ==
  ASSUME NEW c \in Config, NEW a \in Apis
  PROVE  ApiConfig(c, a) \in Config
BY DEF ApiConfig, Config

LEMMA AuthsForApiType ==
  ASSUME FileTypes, NEW r \in Registry, NEW current \in Auth \cup {None},
         NEW a \in AuthsForApi(r, current)
  PROVE  a \in Auth
BY AccountAssumption DEF FileTypes, AuthsForApi, Auth, Registry, Conn, HasTokens

\* Whatever a failed write leaves behind is the old content, the new or none.
LEMMA FailedWriteType ==
  ASSUME NEW S, NEW old \in S \cup {None}, NEW new \in S \cup {None}
  PROVE  AfterFailedWrite(old, new) \subseteq S \cup {None}
BY DEF AfterFailedWrite

LEMMA NoCommandType == NoCommand \in Command
BY DEF NoCommand, Command, NoFiles, Files, EmptyRegistry, Registry

LEMMA NoSaveType == NoSave \in ApiSave
BY DEF NoSave, ApiSave, EmptyRegistry, Registry

\* The two updates of a command's locals that prepare what a switch writes.
LEMMA BackedUpType ==
  ASSUME NEW c \in Command, NEW files0 \in Files
  PROVE  /\ [c EXCEPT !.prev = files0] \in Command
         /\ [c EXCEPT !.prev = files0].target = c.target
BY DEF Command

LEMMA PreparedType ==
  ASSUME NEW c \in Command, NEW cfg \in Config, NEW login \in Auth
  PROVE  /\ [c EXCEPT !.nextConfig = cfg, !.nextAuth = login] \in Command
         /\ [c EXCEPT !.nextConfig = cfg, !.nextAuth = login].target = c.target
         /\ [c EXCEPT !.nextConfig = cfg, !.nextAuth = login].nextConfig = cfg
BY DEF Command

LEMMA InitType == Init => TypeInv
<1> SUFFICES ASSUME Init PROVE TypeInv
  OBVIOUS
<1>1. FileTypes
  <2>2. config \in Config \cup {None}
    <3>1. config \in {None} \cup
            [provider : {None}, model : BOOLEAN, defs : {{}}, keys : {{}}, fileAuth : BOOLEAN]
      BY DEF Init
    <3>2. QED
      BY <3>1 DEF Config
  <2>3. auth \in Auth \cup {None}
    <3>1. auth \in [owner : Plus, token : {0}] \cup {None}
      BY DEF Init
    <3>2. 0 \in Token
      BY AccountAssumption DEF Token
    <3>3. QED
      BY <3>1, <3>2 DEF Auth
  <2>4. snapshot \in [Plus -> Token \cup {None}] /\ latest \in [Plus -> Token]
    BY AccountAssumption DEF Init, Token
  <2>5. QED
    BY <2>2, <2>3, <2>4 DEF Init, FileTypes
<1>2. QED
  BY <1>1, NoCommandType, NoSaveType
     DEF Init, TypeInv, TypeOK, LocalsOK, Steps, SwitchSteps, NoSave

LEMMA TypeStep == TypeInv /\ [Next]_vars => TypeInv'
<1> SUFFICES ASSUME TypeInv, [Next]_vars PROVE TypeInv'
  OBVIOUS
<1> USE DEF TypeInv, TypeOK
<1>1. CASE MarkInvalidBegin
  <2>1. cmd' \in Command
    BY <1>1, ReadTypes, NoCommandType DEF MarkInvalidBegin, Command
  <2>2. QED
    BY <1>1, <2>1
       DEF MarkInvalidBegin, files, FileTypes, Steps, LocalsOK, SwitchSteps, MainMayStart
<1>2. CASE SaveCurrentOfApi
  <2>1. cmd' \in Command
    BY <1>2, ReadTypes, NoCommandType DEF SaveCurrentOfApi, Command, Registry
  <2>2. QED
    BY <1>2, <2>1
       DEF SaveCurrentOfApi, files, FileTypes, Steps, LocalsOK, SwitchSteps, MainMayStart
<1>3. CASE SaveCurrentBegin
  <2>1. cmd' \in Command
    BY <1>3, ReadTypes, NoCommandType, AccountAssumption
       DEF SaveCurrentBegin, Command, Registry, Auth, FileTypes, Conn
  <2>2. QED
    BY <1>3, <2>1, NoCommandType
       DEF SaveCurrentBegin, files, FileTypes, Steps, LocalsOK, SwitchSteps, MainMayStart,
           Command
<1>4. CASE SaveCurrentSnapshot
  <2>1. snapshot' \in [Plus -> Token \cup {None}]
    <3>1. cmd.nextAuth.owner \in Plus /\ cmd.nextAuth.token \in Token
      BY <1>4 DEF SaveCurrentSnapshot, LocalsOK, Auth
    <3>2. AfterFailedWrite(snapshot[cmd.nextAuth.owner], cmd.nextAuth.token) \subseteq Token \cup {None}
      BY <3>1, FailedWriteType DEF FileTypes
    <3>3. QED
      BY <1>4, <3>1, <3>2 DEF SaveCurrentSnapshot, WriteSnapshot, FileTypes
  <2>2. cmd' \in Command
    BY <1>4, NoCommandType DEF SaveCurrentSnapshot, KeepLocals
  <2>3. QED
    BY <1>4, <2>1, <2>2
       DEF SaveCurrentSnapshot, WriteSnapshot, FileTypes, Steps, LocalsOK, SwitchSteps
<1>5. CASE WriteRegistry
  <2>1. registry' \in Registry \cup {None}
    BY <1>5, FailedWriteType DEF WriteRegistry, Write, FileTypes, Command
  <2>2. QED
    BY <1>5, <2>1, NoCommandType
       DEF WriteRegistry, Write, KeepLocals, FileTypes, Steps, LocalsOK, SwitchSteps
<1>6. ASSUME NEW t \in Conn, SwitchBegin(t)
      PROVE  TypeInv'
  <2>1. cmd' \in Command /\ cmd'.target = t
    BY <1>6, ReadTypes, NoCommandType DEF SwitchBegin, Command, Conn
  <2>2. QED
    BY <1>6, <2>1
       DEF SwitchBegin, files, FileTypes, Steps, LocalsOK, SwitchSteps, MainMayStart
<1>7. CASE SwitchSync
  <2>1. snapshot' \in [Plus -> Token \cup {None}]
    <3>1. CASE SyncApplies(cmd.reg)
      <4>1. cmd.reg.active \in Plus /\ auth.token \in Token
        BY <3>1 DEF SyncApplies, FileTypes, Auth
      <4>2. QED
        BY <1>7, <3>1, <4>1, FailedWriteType, SMTT(30) DEF SwitchSync, WriteSnapshot, FileTypes
    <3>2. QED
      BY <1>7, <3>1 DEF SwitchSync, FileTypes
  <2>2. cmd' \in {cmd, NoCommand} /\ (pc' = "read" => cmd' = cmd)
    BY <1>7 DEF SwitchSync, KeepLocals
  <2>3. pc' \in {"read", "idle"}
    BY <1>7 DEF SwitchSync, WriteSnapshot
  <2>4. QED
    BY <1>7, <2>1, <2>2, <2>3, NoCommandType
       DEF SwitchSync, FileTypes, Steps, LocalsOK, SwitchSteps
<1>8. CASE SwitchRead
  <2> DEFINE prev == [config |-> config, auth |-> auth, route |-> route,
                      catalog |-> cmd.target \in catalogs]
  <2>1. prev \in Files
    BY DEF FileTypes, Files
  <2>2. \/ pc' = "prepare" /\ cmd' = [cmd EXCEPT !.prev = prev]
        \/ pc' = "idle" /\ cmd' = NoCommand
    BY <1>8 DEF SwitchRead
  <2> HIDE DEF prev
  <2>3. QED
    BY <1>8, <2>1, <2>2, NoCommandType, BackedUpType, ZenonT(40)
       DEF SwitchRead, files, FileTypes, Steps, LocalsOK, SwitchSteps
<1>9. CASE SwitchBaseline
  <2>1. baseline' \in Config \cup {None}
    <3>1. ConfigText(cmd.prev.config) \in Config
      BY ReadTypes DEF Command, Files, ConfigText, EmptyConfig, Config
    <3>2. QED
      BY <1>9, <3>1, FailedWriteType DEF SwitchBaseline, Write, FileTypes
  <2>2. pc' \in {"idle", "catalog"} /\ cmd' = IF pc' = "idle" THEN NoCommand ELSE cmd
    BY <1>9 DEF SwitchBaseline, Write, KeepLocals
  <2>3. QED
    BY <1>9, <2>1, <2>2, NoCommandType
       DEF SwitchBaseline, FileTypes, Steps, LocalsOK, SwitchSteps
<1>10. CASE SwitchCatalog
  <2>1. catalogs' \in SUBSET Apis
    BY <1>10 DEF SwitchCatalog, FileTypes, LocalsOK
  <2>2. \/ pc' = "idle" /\ cmd' = NoCommand
        \/ /\ pc' = "config"
           /\ \E a \in AuthsForApi(cmd.reg, cmd.prev.auth) :
                cmd' = [cmd EXCEPT
                  !.nextConfig = RetainProviders(ApiConfig(ApiBase, cmd.target), cmd.reg),
                  !.nextAuth = a]
           /\ baseline # None
    BY <1>10 DEF SwitchCatalog
  <2>3. CASE pc' = "config"
    <3>1. RetainProviders(ApiConfig(ApiBase, cmd.target), cmd.reg) \in Config
      BY <2>2, <2>3, <1>10, ApiConfigType, RetainProvidersType
         DEF SwitchCatalog, ApiBase, FileTypes, Command, LocalsOK
    <3>2. cmd.reg \in Registry /\ cmd.prev.auth \in Auth \cup {None}
      BY DEF Command, Files
    <3>3. cmd' \in Command /\ cmd'.target = cmd.target /\ cmd'.nextConfig \in Config
      <4>1. PICK a \in AuthsForApi(cmd.reg, cmd.prev.auth) :
              cmd' = [cmd EXCEPT
                !.nextConfig = RetainProviders(ApiConfig(ApiBase, cmd.target), cmd.reg),
                !.nextAuth = a]
        BY <2>2, <2>3
      <4>2. a \in Auth
        BY <3>2, AuthsForApiType
      <4>3. QED
        BY <3>1, <4>1, <4>2, PreparedType, ZenonT(40)
    <3>4. QED
      BY <1>10, <2>1, <2>3, <3>3
         DEF SwitchCatalog, FileTypes, Steps, LocalsOK, SwitchSteps
  <2>4. QED
    BY <1>10, <2>1, <2>2, <2>3, NoCommandType
       DEF SwitchCatalog, FileTypes, Steps, LocalsOK, SwitchSteps
<1>11. CASE SwitchToPlus
  <2> pc = "prepare" /\ pc' \in {"idle", "config"} /\ UNCHANGED <<files, latest, save>>
    BY <1>11 DEF SwitchToPlus
  <2>1. CASE pc' = "config"
    <3>1. PlusBase \in Config
      BY <1>11, <2>1
         DEF SwitchToPlus, PlusBase, Command, Files, ConfigText, EmptyConfig, Config,
             FileTypes
    <3>2. RetainProviders(PlusBase, cmd.reg) \in Config
      BY <3>1, RetainProvidersType DEF Command
    <3> DEFINE login == [owner |-> cmd.target, token |-> snapshot[cmd.target]]
    <3>3. login \in Auth
      BY <1>11, <2>1 DEF SwitchToPlus, FileTypes, Auth
    <3>4. cmd' \in Command /\ cmd'.target = cmd.target /\ cmd'.nextConfig \in Config
      <4>1. cmd' = [cmd EXCEPT !.nextConfig = RetainProviders(PlusBase, cmd.reg), !.nextAuth = login]
        BY <1>11, <2>1 DEF SwitchToPlus
      <4> HIDE DEF login
      <4>2. QED
        BY <3>2, <3>3, <4>1, PreparedType, ZenonT(40)
    <3>5. QED
      BY <2>1, <3>4 DEF files, FileTypes, Steps, LocalsOK, SwitchSteps
  <2>2. QED
    BY <1>11, <2>1, NoCommandType
       DEF SwitchToPlus, files, FileTypes, Steps, LocalsOK, SwitchSteps
<1>12. CASE SwitchWriteConfig
  <2>1. config' \in Config \cup {None}
    BY <1>12, FailedWriteType DEF SwitchWriteConfig, Write, FileTypes, LocalsOK
  <2>2. QED
    BY <1>12, <2>1
       DEF SwitchWriteConfig, Write, KeepLocals, FileTypes, Steps, LocalsOK, SwitchSteps
<1>13. CASE SwitchWriteAuth
  <2>1. auth' \in Auth \cup {None}
    BY <1>13, FailedWriteType DEF SwitchWriteAuth, Write, FileTypes, Command
  <2>2. QED
    BY <1>13, <2>1
       DEF SwitchWriteAuth, Write, KeepLocals, FileTypes, Steps, LocalsOK, SwitchSteps
<1>14. CASE SwitchWriteRoute
  <2>1. route' \in Route \cup {None}
    <3> DEFINE written == [key |-> cmd.target, provider |-> cmd.nextConfig.provider]
    <3>1. written \in Route
      BY <1>14 DEF SwitchWriteRoute, LocalsOK, SwitchSteps, Config, Route
    <3>2. route' \in {route, written} \cup AfterFailedWrite(route, written)
      BY <1>14 DEF SwitchWriteRoute, Write
    <3> HIDE DEF written
    <3>3. QED
      BY <3>1, <3>2, FailedWriteType DEF FileTypes
  <2>2. QED
    BY <1>14, <2>1
       DEF SwitchWriteRoute, Write, KeepLocals, FileTypes, Steps, LocalsOK, SwitchSteps
<1>15. CASE SwitchCommit
  <2>1. registry' \in Registry \cup {None}
    <3> DEFINE written == [cmd.reg EXCEPT !.active = cmd.target]
    <3>1. written \in Registry
      BY <1>15 DEF SwitchCommit, LocalsOK, SwitchSteps, Command, Registry
    <3>2. registry' \in {written} \cup AfterFailedWrite(registry, written)
      BY <1>15 DEF SwitchCommit, Write
    <3> HIDE DEF written
    <3>3. QED
      BY <3>1, <3>2, FailedWriteType DEF FileTypes
  <2>2. [cmd EXCEPT !.late = TRUE] \in Command /\ [cmd EXCEPT !.late = TRUE].target = cmd.target
    BY DEF Command
  <2>3. QED
    BY <1>15, <2>1, <2>2, NoCommandType
       DEF SwitchCommit, Write, FileTypes, Steps, LocalsOK, SwitchSteps
<1>16. CASE UndoConfig
  <2>1. config' \in Config \cup {None}
    BY <1>16, FailedWriteType DEF UndoConfig, Restore, FileTypes, Command, Files
  <2>2. QED
    BY <1>16, <2>1
       DEF UndoConfig, Restore, KeepLocals, FileTypes, Steps, LocalsOK, SwitchSteps
<1>17. CASE UndoAuth
  <2>1. auth' \in Auth \cup {None}
    BY <1>17, FailedWriteType DEF UndoAuth, Restore, FileTypes, Command, Files
  <2>2. QED
    BY <1>17, <2>1
       DEF UndoAuth, Restore, KeepLocals, FileTypes, Steps, LocalsOK, SwitchSteps
<1>18. CASE UndoRoute
  <2>1. route' \in Route \cup {None}
    BY <1>18, FailedWriteType DEF UndoRoute, Restore, FileTypes, Command, Files
  <2>2. QED
    BY <1>18, <2>1
       DEF UndoRoute, Restore, KeepLocals, FileTypes, Steps, LocalsOK, SwitchSteps
<1>19. CASE UndoCatalog
  <2>1. catalogs' \in SUBSET Apis
    BY <1>19 DEF UndoCatalog, FileTypes, LocalsOK, SwitchSteps, Conn
  <2>2. QED
    BY <1>19, <2>1, NoCommandType
       DEF UndoCatalog, KeepLocals, FileTypes, Steps, LocalsOK, SwitchSteps
<1>20. CASE UndoRegistry
  <2>1. registry' \in Registry \cup {None}
    BY <1>20, FailedWriteType DEF UndoRegistry, Restore, FileTypes, Command
  <2>2. QED
    BY <1>20, <2>1, NoCommandType
       DEF UndoRegistry, Restore, KeepLocals, FileTypes, Steps, LocalsOK, SwitchSteps
<1>21. ASSUME NEW t \in Conn, DeleteBegin(t)
       PROVE  TypeInv'
  <2>1. cmd' \in Command
    BY <1>21, ReadTypes, NoCommandType DEF DeleteBegin, Command, Conn
  <2>2. QED
    BY <1>21, <2>1
       DEF DeleteBegin, files, FileTypes, Steps, LocalsOK, SwitchSteps, MainMayStart
<1>22. CASE DeleteUnlist
  <2>1. registry' \in Registry \cup {None}
    <3> DEFINE written == [cmd.reg EXCEPT !.accounts = @ \ {cmd.target}]
    <3>1. written \in Registry
      BY DEF Command, Registry
    <3>2. registry' \in {written} \cup AfterFailedWrite(registry, written)
      BY <1>22 DEF DeleteUnlist, Write
    <3> HIDE DEF written
    <3>3. QED
      BY <3>1, <3>2, FailedWriteType DEF FileTypes
  <2>2. pc' \in {"secret", "file", "idle"} /\ cmd' \in {cmd, NoCommand}
    BY <1>22 DEF DeleteUnlist, Write, KeepLocals
  <2>3. QED
    BY <1>22, <2>1, <2>2, NoCommandType
       DEF DeleteUnlist, FileTypes, Steps, LocalsOK, SwitchSteps
<1>23. CASE DeleteSecret
  BY <1>23 DEF DeleteSecret, FileTypes, Steps, LocalsOK, SwitchSteps
<1>24. CASE DeleteCatalog
  BY <1>24, NoCommandType
     DEF DeleteCatalog, KeepLocals, FileTypes, Steps, LocalsOK, SwitchSteps
<1>25. CASE DeleteSnapshot
  <2>1. snapshot' \in [Plus -> Token \cup {None}]
    BY <1>25 DEF DeleteSnapshot, FileTypes
  <2>2. QED
    BY <1>25, <2>1, NoCommandType
       DEF DeleteSnapshot, KeepLocals, FileTypes, Steps, LocalsOK, SwitchSteps
<1>26. CASE DeleteRelist
  <2>1. registry' \in Registry \cup {None}
    BY <1>26, FailedWriteType DEF DeleteRelist, Restore, FileTypes, Command
  <2>2. QED
    BY <1>26, <2>1, NoCommandType
       DEF DeleteRelist, Restore, KeepLocals, FileTypes, Steps, LocalsOK, SwitchSteps
<1>27. CASE EnsureFileAuth
  <2>1. config' \in Config \cup {None}
    <3>1. [ConfigText(config) EXCEPT !.fileAuth = TRUE] \in Config
      BY ReadTypes DEF Config
    <3>2. QED
      BY <1>27, <3>1, FailedWriteType DEF EnsureFileAuth, Write, FileTypes
  <2>2. QED
    BY <1>27, <2>1
       DEF EnsureFileAuth, Write, MainMayStart, FileTypes, Steps, LocalsOK, SwitchSteps
<1>28. CASE EnsureProviders
  <2>1. config \in Config /\ RetainProviders(config, ReadRegistry) \in Config
    BY <1>28, ReadTypes, RetainProvidersType DEF EnsureProviders, FileTypes
  <2>2. config' \in Config \cup {None} /\ (pc' = "historyRoute" => config' \in Config)
    BY <1>28, <2>1, FailedWriteType DEF EnsureProviders, Write, FileTypes
  <2>3. pc' \in {"idle", "historyRoute"}
    BY <1>28 DEF EnsureProviders, Write
  <2>4. QED
    BY <1>28, <2>2, <2>3 DEF EnsureProviders, FileTypes, Steps, LocalsOK, SwitchSteps
<1>29. CASE EnsureRoute
  <2>1. route' \in Route \cup {None}
    <3>1. [key |-> ReadRegistry.active, provider |-> config.provider] \in Route
      BY <1>29, ReadTypes DEF EnsureRoute, LocalsOK, Config, Route, Registry
    <3>2. QED
      BY <1>29, <3>1, FailedWriteType DEF EnsureRoute, Write, FileTypes
  <2>2. QED
    BY <1>29, <2>1 DEF EnsureRoute, Write, FileTypes, Steps, LocalsOK, SwitchSteps
<1>30. ASSUME NEW a \in Apis, SaveApiBegin(a)
       PROVE  TypeInv'
  <2>1. \E had \in BOOLEAN : save' = [pc |-> "store", api |-> a, reg |-> ReadRegistry, had |-> had]
    BY <1>30 DEF SaveApiBegin
  <2>2. save' \in ApiSave /\ save'.api \in Apis
    BY <2>1, ReadTypes DEF ApiSave
  <2>3. QED
    BY <1>30, <2>2 DEF SaveApiBegin, files, FileTypes, LocalsOK
<1>31. CASE SaveApiSecret
  <2>1. save' \in ApiSave /\ (save'.pc # "idle" => save'.api \in Apis)
    BY <1>31, NoSaveType DEF SaveApiSecret, ApiSave, LocalsOK, NoSave
  <2>2. secrets' \in SUBSET Apis
    BY <1>31 DEF SaveApiSecret, FileTypes, LocalsOK
  <2>3. QED
    BY <1>31, <2>1, <2>2 DEF SaveApiSecret, FileTypes, LocalsOK
<1>32. CASE SaveApiRegistry
  <2>1. save' \in ApiSave /\ (save'.pc # "idle" => save'.api \in Apis)
    BY <1>32, NoSaveType DEF SaveApiRegistry, ApiSave, LocalsOK, NoSave
  <2>2. registry' \in Registry \cup {None}
    <3> DEFINE written == [save.reg EXCEPT !.accounts = @ \cup {save.api}]
    <3>1. written \in Registry
      BY <1>32 DEF SaveApiRegistry, ApiSave, LocalsOK, Registry, Conn
    <3>2. registry' \in {written} \cup AfterFailedWrite(registry, written)
      BY <1>32 DEF SaveApiRegistry
    <3> HIDE DEF written
    <3>3. QED
      BY <3>1, <3>2, FailedWriteType DEF FileTypes
  <2>3. QED
    BY <1>32, <2>1, <2>2 DEF SaveApiRegistry, FileTypes, LocalsOK
<1>33. CASE SaveApiUndo
  <2>1. secrets' \in SUBSET Apis
    BY <1>33 DEF SaveApiUndo, FileTypes, LocalsOK
  <2>2. QED
    BY <1>33, <2>1, NoSaveType DEF SaveApiUndo, FileTypes, LocalsOK, NoSave
<1>34. CASE CodexRefresh
  <2>1. auth' \in Auth /\ latest' \in [Plus -> Token]
    BY <1>34, AccountAssumption
       DEF CodexRefresh, HasTokens, FileTypes, Auth, Token
  <2>2. QED
    BY <1>34, <2>1 DEF CodexRefresh, FileTypes, LocalsOK
<1>35. ASSUME NEW p \in Plus, CodexLogin(p)
       PROVE  TypeInv'
  <2>1. latest' \in [Plus -> Token]
    BY <1>35, AccountAssumption DEF CodexLogin, FileTypes, Token
  <2>2. auth' \in Auth
    BY <1>35, <2>1 DEF CodexLogin, Auth
  <2>3. QED
    BY <1>35, <2>1, <2>2 DEF CodexLogin, FileTypes, LocalsOK
<1>36. CASE Crash
  BY <1>36, NoCommandType, NoSaveType
     DEF Crash, files, FileTypes, Steps, LocalsOK, SwitchSteps, NoSave
<1>37. CASE UNCHANGED vars
  BY <1>37 DEF vars, files, FileTypes, LocalsOK
<1>38. QED
  BY <1>1, <1>2, <1>3, <1>4, <1>5, <1>6, <1>7, <1>8, <1>9, <1>10, <1>11, <1>12, <1>13,
     <1>14, <1>15, <1>16, <1>17, <1>18, <1>19, <1>20, <1>21, <1>22, <1>23, <1>24, <1>25,
     <1>26, <1>27, <1>28, <1>29, <1>30, <1>31, <1>32, <1>33, <1>34, <1>35, <1>36, <1>37
     DEF Next, SaveCurrent, Switch, Delete, Repair, SaveApi, Codex

\* Every file is absent or well formed at every step, and every step finds in
\* its locals what an earlier step of its command put there.
THEOREM TypeCorrect == Spec => []TypeOK
<1>1. Spec => []TypeInv
  BY InitType, TypeStep, PTL DEF Spec
<1>2. TypeInv => TypeOK
  BY DEF TypeInv
<1>3. QED
  BY <1>1, <1>2, PTL

-----------------------------------------------------------------------------
(***************************************************************************)
(* No step loses the newest tokens of the active account.                  *)
(***************************************************************************)

LEMMA IdleLocals ==
  /\ NoCommand.reg = EmptyRegistry /\ NoCommand.late = FALSE /\ NoCommand.target = None
  /\ EmptyRegistry.active = None /\ EmptyRegistry.accounts = {}
  /\ NoSave.pc = "idle" /\ NoSave.reg = EmptyRegistry
BY DEF NoCommand, NoSave, EmptyRegistry

\* What a command that begins holds.
LEMMA BegunLocals ==
  ASSUME NEW t, NEW r
  PROVE  /\ [NoCommand EXCEPT !.reg = r].reg = r
         /\ [NoCommand EXCEPT !.reg = r].late = FALSE
         /\ [NoCommand EXCEPT !.target = t, !.reg = r].target = t
         /\ [NoCommand EXCEPT !.target = t, !.reg = r].reg = r
         /\ [NoCommand EXCEPT !.target = t, !.reg = r].late = FALSE
BY DEF NoCommand

LEMMA SaveLocals ==
  ASSUME NEW r, NEW login
  PROVE  /\ [NoCommand EXCEPT !.reg = r, !.nextAuth = login].reg = r
         /\ [NoCommand EXCEPT !.reg = r, !.nextAuth = login].late = FALSE
         /\ [NoCommand EXCEPT !.reg = r, !.nextAuth = login].nextAuth = login
BY DEF NoCommand

\* The updates of a switch keep its account and the registry it read.
LEMMA ReadLocals ==
  ASSUME NEW c \in Command, NEW prev
  PROVE  /\ [c EXCEPT !.prev = prev].target = c.target
         /\ [c EXCEPT !.prev = prev].reg = c.reg
         /\ [c EXCEPT !.prev = prev].late = c.late
         /\ [c EXCEPT !.prev = prev].prev = prev
BY DEF Command

LEMMA PreparedLocals ==
  ASSUME NEW c \in Command, NEW cfg, NEW login
  PROVE  /\ [c EXCEPT !.nextConfig = cfg, !.nextAuth = login].target = c.target
         /\ [c EXCEPT !.nextConfig = cfg, !.nextAuth = login].reg = c.reg
         /\ [c EXCEPT !.nextConfig = cfg, !.nextAuth = login].late = c.late
         /\ [c EXCEPT !.nextConfig = cfg, !.nextAuth = login].prev = c.prev
         /\ [c EXCEPT !.nextConfig = cfg, !.nextAuth = login].nextAuth = login
BY DEF Command

LEMMA LateLocals ==
  ASSUME NEW c \in Command
  PROVE  /\ [c EXCEPT !.late = TRUE].target = c.target
         /\ [c EXCEPT !.late = TRUE].reg = c.reg
         /\ [c EXCEPT !.late = TRUE].prev = c.prev
         /\ [c EXCEPT !.late = TRUE].late = TRUE
BY DEF Command

\* What each step of a switch that goes on does to the locals.
LEMMA StepLocals ==
  ASSUME cmd \in Command
  PROVE  /\ SwitchRead => \/ pc' = "idle" /\ cmd' = NoCommand
                          \/ /\ pc' = "prepare"
                             /\ cmd'.target = cmd.target /\ cmd'.reg = cmd.reg /\ cmd'.late = cmd.late
                             /\ cmd'.prev.auth = auth
         /\ SwitchCatalog => \/ pc' = "idle" /\ cmd' = NoCommand
                             \/ /\ pc' = "config"
                                /\ cmd'.target = cmd.target /\ cmd'.reg = cmd.reg /\ cmd'.late = cmd.late
                                /\ cmd'.prev = cmd.prev
                                /\ cmd'.nextAuth \in AuthsForApi(cmd.reg, cmd.prev.auth)
         /\ SwitchToPlus => \/ pc' = "idle" /\ cmd' = NoCommand
                            \/ /\ pc' = "config"
                               /\ cmd'.target = cmd.target /\ cmd'.reg = cmd.reg /\ cmd'.late = cmd.late
                               /\ cmd'.prev = cmd.prev
                               /\ cmd'.nextAuth = [owner |-> cmd.target, token |-> snapshot[cmd.target]]
                               /\ snapshot[cmd.target] # None
<1>1. ASSUME SwitchRead
      PROVE  \/ pc' = "idle" /\ cmd' = NoCommand
             \/ /\ pc' = "prepare"
                /\ cmd'.target = cmd.target /\ cmd'.reg = cmd.reg /\ cmd'.late = cmd.late
                /\ cmd'.prev.auth = auth
  <2> DEFINE prev == [config |-> config, auth |-> auth, route |-> route,
                      catalog |-> cmd.target \in catalogs]
  <2>1. \/ pc' = "prepare" /\ cmd' = [cmd EXCEPT !.prev = prev]
        \/ pc' = "idle" /\ cmd' = NoCommand
    BY <1>1 DEF SwitchRead
  <2>2. prev.auth = auth
    OBVIOUS
  <2> HIDE DEF prev
  <2>3. CASE cmd' = [cmd EXCEPT !.prev = prev]
    <3>1. cmd'.target = cmd.target /\ cmd'.reg = cmd.reg /\ cmd'.late = cmd.late /\ cmd'.prev = prev
      BY <2>3, ReadLocals
    <3>2. QED
      BY <2>1, <2>2, <3>1
  <2>4. QED
    BY <2>1, <2>3
<1>2. ASSUME SwitchCatalog, pc' # "idle" \/ cmd' # NoCommand
      PROVE  /\ pc' = "config"
             /\ cmd'.target = cmd.target /\ cmd'.reg = cmd.reg /\ cmd'.late = cmd.late
             /\ cmd'.prev = cmd.prev
             /\ cmd'.nextAuth \in AuthsForApi(cmd.reg, cmd.prev.auth)
  <2>1. PICK login \in AuthsForApi(cmd.reg, cmd.prev.auth) :
          /\ pc' = "config"
          /\ cmd' = [cmd EXCEPT
               !.nextConfig = RetainProviders(ApiConfig(ApiBase, cmd.target), cmd.reg),
               !.nextAuth = login]
    BY <1>2 DEF SwitchCatalog
  <2>2. QED
    BY <2>1, PreparedLocals
<1>3. ASSUME SwitchToPlus, pc' # "idle" \/ cmd' # NoCommand
      PROVE  /\ pc' = "config"
             /\ cmd'.target = cmd.target /\ cmd'.reg = cmd.reg /\ cmd'.late = cmd.late
             /\ cmd'.prev = cmd.prev
             /\ cmd'.nextAuth = [owner |-> cmd.target, token |-> snapshot[cmd.target]]
             /\ snapshot[cmd.target] # None
  <2> DEFINE login == [owner |-> cmd.target, token |-> snapshot[cmd.target]]
  <2>1. /\ pc' = "config" /\ snapshot[cmd.target] # None
        /\ cmd' = [cmd EXCEPT !.nextConfig = RetainProviders(PlusBase, cmd.reg), !.nextAuth = login]
    BY <1>3 DEF SwitchToPlus
  <2> HIDE DEF login
  <2>2. cmd'.nextAuth = login /\ cmd'.target = cmd.target /\ cmd'.reg = cmd.reg
        /\ cmd'.late = cmd.late /\ cmd'.prev = cmd.prev
    BY <2>1, PreparedLocals
  <2>3. QED
    BY <2>1, <2>2 DEF login
<1>4. QED
  BY <1>1, <1>2, <1>3

\* After a write of the registry it reads as the new one, or, if the write
\* failed, as the old one or an empty one.
LEMMA RegistryWritten ==
  ASSUME NEW new \in Registry,
         registry' \in {new} \cup AfterFailedWrite(registry, new)
  PROVE  /\ ReadRegistry' \in {new, ReadRegistry, EmptyRegistry}
         /\ registry' = new => ReadRegistry' = new
BY NoneAssumption DEF AfterFailedWrite, ReadRegistry

\* Every step keeps one command at a time and the lists in agreement.
LEMMA RegistryStep == OneWriter /\ TypeInv /\ RegistryInv /\ [Next]_vars => RegistryInv'
<1> SUFFICES ASSUME OneWriter, TypeInv, RegistryInv, [Next]_vars PROVE RegistryInv'
  OBVIOUS
<1> USE DEF TypeInv, TypeOK
<1>1. CASE MarkInvalidBegin
  <2>1. cmd'.reg = ReadRegistry /\ ~ cmd'.late
    BY <1>1, BegunLocals DEF MarkInvalidBegin
  <2>2. pc = "idle" /\ pc' = "commit" /\ save.pc = "idle" /\ UNCHANGED <<registry, save>>
    BY <1>1 DEF MarkInvalidBegin, MainMayStart, OneWriter, files
  <2>3. QED
    BY <2>1, <2>2 DEF RegistryInv, ListsActive, ReadRegistry, SwitchSteps, UndoSteps
<1>2. CASE SaveCurrentOfApi
  <2>1. cmd'.reg = ReadRegistry /\ ~ cmd'.late
    <3>1. cmd' = [NoCommand EXCEPT !.target = ReadRegistry.active, !.reg = ReadRegistry]
      BY <1>2 DEF SaveCurrentOfApi
    <3>2. QED
      BY <3>1, BegunLocals
  <2>2. pc = "idle" /\ pc' = "commit" /\ save.pc = "idle" /\ UNCHANGED <<registry, save>>
    BY <1>2 DEF SaveCurrentOfApi, MainMayStart, OneWriter, files
  <2>3. QED
    BY <2>1, <2>2 DEF RegistryInv, ListsActive, ReadRegistry, SwitchSteps, UndoSteps
<1>3. CASE SaveCurrentBegin
  <2>1. cmd'.reg = [active |-> auth.owner, accounts |-> ReadRegistry.accounts \cup {auth.owner}]
    BY <1>3, SaveLocals DEF SaveCurrentBegin
  <2>2. pc = "idle" /\ pc' = "snapshot" /\ save.pc = "idle" /\ UNCHANGED <<registry, save>>
    BY <1>3 DEF SaveCurrentBegin, MainMayStart, OneWriter, files
  <2>3. QED
    BY <2>1, <2>2 DEF RegistryInv, ListsActive, ReadRegistry, SwitchSteps, UndoSteps
<1>4. CASE SaveCurrentSnapshot
  BY <1>4, IdleLocals
     DEF SaveCurrentSnapshot, WriteSnapshot, KeepLocals, files, RegistryInv, ListsActive,
         ReadRegistry, SwitchSteps, UndoSteps
<1>5. CASE WriteRegistry
  <2>1. ReadRegistry' \in {cmd.reg, ReadRegistry, EmptyRegistry}
    BY <1>5, RegistryWritten DEF WriteRegistry, Write, Command
  <2>2. pc # "idle" /\ pc' = "idle" /\ cmd' = NoCommand /\ save' = save
    BY <1>5 DEF WriteRegistry, Write, KeepLocals
  <2>3. QED
    BY <2>1, <2>2, IdleLocals DEF RegistryInv, ListsActive, SwitchSteps, UndoSteps
<1>6. ASSUME NEW t \in Conn, SwitchBegin(t)
       PROVE  RegistryInv'
  <2>1. cmd'.reg = ReadRegistry /\ cmd'.target = t /\ ~ cmd'.late
    <3>1. cmd' = [NoCommand EXCEPT !.target = t, !.reg = ReadRegistry]
      BY <1>6 DEF SwitchBegin
    <3>2. QED
      BY <3>1, BegunLocals
  <2>2. pc = "idle" /\ save.pc = "idle" /\ UNCHANGED <<registry, save>>
    BY <1>6 DEF SwitchBegin, MainMayStart, OneWriter, files
  <2>3. QED
    BY <1>6, <2>1, <2>2
       DEF SwitchBegin, RegistryInv, ListsActive, ReadRegistry, SwitchSteps, UndoSteps
<1>7. CASE SwitchSync
  BY <1>7, IdleLocals
     DEF SwitchSync, WriteSnapshot, KeepLocals, files, RegistryInv, ListsActive,
         ReadRegistry, SwitchSteps, UndoSteps
<1>8. CASE SwitchRead
  <2>1. \/ pc' = "idle" /\ cmd' = NoCommand
        \/ /\ pc' = "prepare"
           /\ cmd'.target = cmd.target /\ cmd'.reg = cmd.reg /\ cmd'.late = cmd.late
    BY <1>8, StepLocals
  <2>2. pc \in SwitchSteps \ UndoSteps /\ UNCHANGED <<registry, save>>
    BY <1>8 DEF SwitchRead, SwitchSteps, UndoSteps, files
  <2>3. QED
    BY <2>1, <2>2, IdleLocals
       DEF RegistryInv, ListsActive, ReadRegistry, SwitchSteps, UndoSteps
<1>9. CASE SwitchBaseline
  BY <1>9, IdleLocals
     DEF SwitchBaseline, Write, KeepLocals, files, RegistryInv, ListsActive, ReadRegistry,
         SwitchSteps, UndoSteps
<1>10. CASE SwitchCatalog
  <2>1. \/ pc' = "idle" /\ cmd' = NoCommand
        \/ /\ pc' = "config"
           /\ cmd'.target = cmd.target /\ cmd'.reg = cmd.reg /\ cmd'.late = cmd.late
    BY <1>10, StepLocals
  <2>2. pc \in SwitchSteps \ UndoSteps /\ UNCHANGED <<registry, save>>
    BY <1>10 DEF SwitchCatalog, SwitchSteps, UndoSteps, files
  <2>3. QED
    BY <2>1, <2>2, IdleLocals
       DEF RegistryInv, ListsActive, ReadRegistry, SwitchSteps, UndoSteps
<1>11. CASE SwitchToPlus
  <2>1. \/ pc' = "idle" /\ cmd' = NoCommand
        \/ /\ pc' = "config"
           /\ cmd'.target = cmd.target /\ cmd'.reg = cmd.reg /\ cmd'.late = cmd.late
    BY <1>11, StepLocals
  <2>2. pc \in SwitchSteps \ UndoSteps /\ UNCHANGED <<registry, save>>
    BY <1>11 DEF SwitchToPlus, SwitchSteps, UndoSteps, files
  <2>3. QED
    BY <2>1, <2>2, IdleLocals
       DEF RegistryInv, ListsActive, ReadRegistry, SwitchSteps, UndoSteps
<1>12. CASE SwitchWriteConfig
  BY <1>12, IdleLocals
     DEF SwitchWriteConfig, Write, KeepLocals, files, RegistryInv, ListsActive, ReadRegistry,
         SwitchSteps, UndoSteps
<1>13. CASE SwitchWriteAuth
  BY <1>13, IdleLocals
     DEF SwitchWriteAuth, Write, KeepLocals, files, RegistryInv, ListsActive, ReadRegistry,
         SwitchSteps, UndoSteps
<1>14. CASE SwitchWriteRoute
  BY <1>14, IdleLocals
     DEF SwitchWriteRoute, Write, KeepLocals, files, RegistryInv, ListsActive, ReadRegistry,
         SwitchSteps, UndoSteps
<1>15. CASE SwitchCommit
  <2> DEFINE new == [cmd.reg EXCEPT !.active = cmd.target]
  <2>1. new \in Registry /\ new.active = cmd.target /\ new.accounts = cmd.reg.accounts
    BY <1>15 DEF SwitchCommit, LocalsOK, SwitchSteps, Command, Registry
  <2>2. registry' \in {new} \cup AfterFailedWrite(registry, new)
    BY <1>15 DEF SwitchCommit, Write
  <2> HIDE DEF new
  <2>3. ReadRegistry' \in {new, ReadRegistry, EmptyRegistry}
    BY <2>1, <2>2, RegistryWritten
  <2>4. \/ pc' = "idle" /\ cmd' = NoCommand
        \/ pc' = "undoConfig" /\ cmd'.target = cmd.target /\ cmd'.reg = cmd.reg /\ cmd'.late
    BY <1>15, LateLocals DEF SwitchCommit, Write
  <2>5. pc = "registry" /\ save' = save /\ ReadRegistry = cmd.reg
    BY <1>15 DEF SwitchCommit, RegistryInv, SwitchSteps, UndoSteps
  <2>6. cmd.target \in cmd.reg.accounts
    BY <2>5 DEF RegistryInv, SwitchSteps, UndoSteps
  <2>7. QED
    BY <2>1, <2>3, <2>4, <2>5, <2>6, IdleLocals
       DEF RegistryInv, ListsActive, SwitchSteps, UndoSteps
<1>16. CASE UndoConfig
  BY <1>16, IdleLocals
     DEF UndoConfig, Restore, KeepLocals, files, RegistryInv, ListsActive, ReadRegistry,
         SwitchSteps, UndoSteps
<1>17. CASE UndoAuth
  BY <1>17, IdleLocals
     DEF UndoAuth, Restore, KeepLocals, files, RegistryInv, ListsActive, ReadRegistry,
         SwitchSteps, UndoSteps
<1>18. CASE UndoRoute
  BY <1>18, IdleLocals
     DEF UndoRoute, Restore, KeepLocals, files, RegistryInv, ListsActive, ReadRegistry,
         SwitchSteps, UndoSteps
<1>19. CASE UndoCatalog
  BY <1>19, IdleLocals
     DEF UndoCatalog, KeepLocals, files, RegistryInv, ListsActive, ReadRegistry, SwitchSteps,
         UndoSteps
<1>20. CASE UndoRegistry
  <2>1. ReadRegistry' \in {cmd.reg, ReadRegistry, EmptyRegistry}
    BY <1>20, RegistryWritten DEF UndoRegistry, Restore, Command
  <2>2. pc # "idle" /\ pc' = "idle" /\ cmd' = NoCommand /\ save' = save
    BY <1>20 DEF UndoRegistry, Restore, KeepLocals
  <2>3. QED
    BY <2>1, <2>2, IdleLocals DEF RegistryInv, ListsActive, SwitchSteps, UndoSteps
<1>21. ASSUME NEW t \in Conn, DeleteBegin(t)
       PROVE  RegistryInv'
  <2>1. cmd'.reg = ReadRegistry /\ cmd'.target = t /\ ~ cmd'.late
    <3>1. cmd' = [NoCommand EXCEPT !.target = t, !.reg = ReadRegistry]
      BY <1>21 DEF DeleteBegin
    <3>2. QED
      BY <3>1, BegunLocals
  <2>2. pc = "idle" /\ save.pc = "idle" /\ UNCHANGED <<registry, save>>
    BY <1>21 DEF DeleteBegin, MainMayStart, OneWriter, files
  <2>3. QED
    BY <1>21, <2>1, <2>2
       DEF DeleteBegin, RegistryInv, ListsActive, ReadRegistry, SwitchSteps, UndoSteps
<1>22. CASE DeleteUnlist
  <2> DEFINE new == [cmd.reg EXCEPT !.accounts = @ \ {cmd.target}]
  <2>1. new \in Registry /\ new.active = cmd.reg.active /\ new.accounts = cmd.reg.accounts \ {cmd.target}
    BY DEF Command, Registry
  <2>2. registry' \in {new} \cup AfterFailedWrite(registry, new) /\ (pc' # "idle" => registry' = new)
    BY <1>22 DEF DeleteUnlist, Write
  <2> HIDE DEF new
  <2>3. /\ ReadRegistry' \in {new, ReadRegistry, EmptyRegistry}
        /\ pc' # "idle" => ReadRegistry' = new
    BY <2>1, <2>2, RegistryWritten
  <2>4. /\ pc = "unlist" /\ save' = save
        /\ pc' \in {"secret", "file", "idle"}
        /\ cmd' = IF pc' = "idle" THEN NoCommand ELSE cmd
    BY <1>22 DEF DeleteUnlist, Write, KeepLocals
  <2>5. QED
    BY <2>1, <2>3, <2>4, IdleLocals DEF RegistryInv, ListsActive, SwitchSteps, UndoSteps
<1>23. CASE DeleteSecret
  BY <1>23, IdleLocals
     DEF DeleteSecret, files, RegistryInv, ListsActive, ReadRegistry, SwitchSteps, UndoSteps
<1>24. CASE DeleteCatalog
  BY <1>24, IdleLocals
     DEF DeleteCatalog, KeepLocals, files, RegistryInv, ListsActive, ReadRegistry,
         SwitchSteps, UndoSteps
<1>25. CASE DeleteSnapshot
  BY <1>25, IdleLocals
     DEF DeleteSnapshot, KeepLocals, files, RegistryInv, ListsActive, ReadRegistry,
         SwitchSteps, UndoSteps
<1>26. CASE DeleteRelist
  <2>1. ReadRegistry' \in {cmd.reg, ReadRegistry, EmptyRegistry}
    BY <1>26, RegistryWritten DEF DeleteRelist, Restore, Command
  <2>2. pc # "idle" /\ pc' = "idle" /\ cmd' = NoCommand /\ save' = save
    BY <1>26 DEF DeleteRelist, Restore, KeepLocals
  <2>3. QED
    BY <2>1, <2>2, IdleLocals DEF RegistryInv, ListsActive, SwitchSteps, UndoSteps
<1>27. CASE EnsureFileAuth
  BY <1>27, IdleLocals
     DEF EnsureFileAuth, Write, MainMayStart, files, RegistryInv, ListsActive, ReadRegistry,
         SwitchSteps, UndoSteps
<1>28. CASE EnsureProviders
  <2>1. pc = "idle" /\ save.pc = "idle" /\ pc' \in {"idle", "historyRoute"}
        /\ UNCHANGED <<registry, cmd, save>>
    BY <1>28 DEF EnsureProviders, Write, MainMayStart, OneWriter
  <2>2. QED
    BY <2>1 DEF RegistryInv, ListsActive, ReadRegistry, SwitchSteps, UndoSteps
<1>29. CASE EnsureRoute
  BY <1>29, IdleLocals
     DEF EnsureRoute, Write, files, RegistryInv, ListsActive, ReadRegistry, SwitchSteps,
         UndoSteps
<1>30. ASSUME NEW a \in Apis, SaveApiBegin(a)
       PROVE  RegistryInv'
  <2>1. pc = "idle" /\ UNCHANGED <<registry, pc, cmd>>
    BY <1>30 DEF SaveApiBegin, OneWriter, files
  <2>2. save'.reg = ReadRegistry
    BY <1>30 DEF SaveApiBegin
  <2>3. QED
    BY <2>1, <2>2 DEF RegistryInv, ListsActive, ReadRegistry, SwitchSteps, UndoSteps
<1>31. CASE SaveApiSecret
  <2>1. save.pc # "idle" /\ (save'.reg = save.reg \/ save' = NoSave) /\ UNCHANGED <<registry, pc, cmd>>
    BY <1>31 DEF SaveApiSecret, ApiSave
  <2>2. QED
    BY <2>1, IdleLocals DEF RegistryInv, ListsActive, ReadRegistry, SwitchSteps, UndoSteps
<1>32. CASE SaveApiRegistry
  <2> DEFINE new == [save.reg EXCEPT !.accounts = @ \cup {save.api}]
  <2>1. new \in Registry /\ new.active = save.reg.active /\ new.accounts = save.reg.accounts \cup {save.api}
    BY <1>32 DEF SaveApiRegistry, LocalsOK, ApiSave, Registry, Conn
  <2>2. registry' \in {new} \cup AfterFailedWrite(registry, new)
    BY <1>32 DEF SaveApiRegistry
  <2> HIDE DEF new
  <2>3. ReadRegistry' \in {new, ReadRegistry, EmptyRegistry}
    BY <2>1, <2>2, RegistryWritten
  <2>4. save.pc # "idle" /\ (save'.reg = save.reg \/ save' = NoSave) /\ UNCHANGED <<pc, cmd>>
    BY <1>32 DEF SaveApiRegistry, ApiSave
  <2>5. QED
    BY <2>1, <2>3, <2>4, IdleLocals DEF RegistryInv, ListsActive, SwitchSteps, UndoSteps
<1>33. CASE SaveApiUndo
  BY <1>33, IdleLocals
     DEF SaveApiUndo, NoSave, files, RegistryInv, ListsActive, ReadRegistry, SwitchSteps,
         UndoSteps
<1>34. CASE CodexRefresh
  BY <1>34, IdleLocals
     DEF CodexRefresh, files, RegistryInv, ListsActive, ReadRegistry, SwitchSteps, UndoSteps
<1>35. ASSUME NEW p \in Plus, CodexLogin(p)
       PROVE  RegistryInv'
  BY <1>35, IdleLocals
     DEF CodexLogin, files, RegistryInv, ListsActive, ReadRegistry, SwitchSteps, UndoSteps
<1>36. CASE Crash
  BY <1>36, IdleLocals
     DEF Crash, NoSave, files, RegistryInv, ListsActive, ReadRegistry, SwitchSteps,
         UndoSteps
<1>37. CASE UNCHANGED vars
  BY <1>37 DEF vars, files, RegistryInv, ListsActive, ReadRegistry, SwitchSteps, UndoSteps
<1>38. QED
  BY <1>1, <1>2, <1>3, <1>4, <1>5, <1>6, <1>7, <1>8, <1>9, <1>10, <1>11, <1>12, <1>13, <1>14,
     <1>15, <1>16, <1>17, <1>18, <1>19, <1>20, <1>21, <1>22, <1>23, <1>24, <1>25, <1>26,
     <1>27, <1>28, <1>29, <1>30, <1>31, <1>32, <1>33, <1>34, <1>35, <1>36, <1>37
     DEF Next, SaveCurrent, Switch, Delete, Repair, SaveApi, Codex

\* The steps that touch no login: they keep what they hold of them, or end.
LoginFrame ==
  /\ UNCHANGED <<auth, snapshot, latest>>
  /\ \/ UNCHANGED <<pc, cmd>>
     \/ /\ pc' \in {"config", "auth", "snapshot"} => pc' = "auth" /\ pc = "config"
        /\ \/ pc' \notin SwitchSteps \ {"sync"}
           \/ /\ pc \in AfterRead
              /\ pc' \in {"undoConfig", "undoAuth"} =>
                   (pc = "registry" \/ ~ cmd'.late \/ pc \in {"undoConfig", "undoAuth"})
              /\ pc' \in {"route", "registry"} => pc \in {"route", "registry"}
              /\ cmd'.target = cmd.target /\ cmd'.reg = cmd.reg /\ cmd'.prev = cmd.prev
              /\ cmd'.nextAuth = cmd.nextAuth
              /\ cmd'.late = cmd.late \/ pc = "registry"

LEMMA LoginFrames ==
  ASSUME cmd \in Command, RegistryInv
  PROVE  /\ MarkInvalidBegin \/ SaveCurrentOfApi \/ WriteRegistry => LoginFrame
         /\ \A t \in Conn : SwitchBegin(t) \/ DeleteBegin(t) => LoginFrame
         /\ SwitchBaseline \/ SwitchWriteConfig \/ SwitchWriteRoute \/ SwitchCommit => LoginFrame
         /\ UndoConfig \/ UndoRoute \/ UndoCatalog \/ UndoRegistry => LoginFrame
         /\ DeleteUnlist \/ DeleteSecret \/ DeleteCatalog \/ DeleteRelist => LoginFrame
         /\ Repair \/ SaveApi \/ Crash \/ UNCHANGED vars => LoginFrame
<1>1. MarkInvalidBegin => LoginFrame
  BY DEF MarkInvalidBegin, files, LoginFrame, SwitchSteps, AfterSync, AfterRead
<1>2. SaveCurrentOfApi => LoginFrame
  BY DEF SaveCurrentOfApi, files, LoginFrame, SwitchSteps, AfterSync, AfterRead
<1>3. WriteRegistry => LoginFrame
  BY DEF WriteRegistry, Write, LoginFrame, SwitchSteps, AfterSync, AfterRead
<1>4. \A t \in Conn : SwitchBegin(t) => LoginFrame
  BY DEF SwitchBegin, files, LoginFrame, SwitchSteps, AfterSync, AfterRead
<1>5. SwitchBaseline => LoginFrame
  BY DEF SwitchBaseline, Write, KeepLocals, LoginFrame, SwitchSteps, AfterSync, AfterRead
<1>6. SwitchWriteConfig => LoginFrame
  BY DEF SwitchWriteConfig, Write, KeepLocals, LoginFrame, SwitchSteps, AfterSync, AfterRead,
         RegistryInv, UndoSteps
<1>7. SwitchWriteRoute => LoginFrame
  BY DEF SwitchWriteRoute, Write, KeepLocals, LoginFrame, SwitchSteps, AfterSync, AfterRead,
         RegistryInv, UndoSteps
<1>8. SwitchCommit => LoginFrame
  BY LateLocals DEF SwitchCommit, Write, LoginFrame, SwitchSteps, AfterSync, AfterRead
<1>9. UndoConfig => LoginFrame
  BY DEF UndoConfig, Restore, KeepLocals, LoginFrame, SwitchSteps, AfterSync, AfterRead
<1>10. UndoRoute => LoginFrame
  BY DEF UndoRoute, Restore, KeepLocals, LoginFrame, SwitchSteps, AfterSync, AfterRead
<1>11. UndoCatalog => LoginFrame
  BY DEF UndoCatalog, KeepLocals, LoginFrame, SwitchSteps, AfterSync, AfterRead
<1>12. UndoRegistry => LoginFrame
  BY DEF UndoRegistry, Restore, LoginFrame, SwitchSteps, AfterSync, AfterRead
<1>13. \A t \in Conn : DeleteBegin(t) => LoginFrame
  BY DEF DeleteBegin, files, LoginFrame, SwitchSteps, AfterSync, AfterRead
<1>14. DeleteUnlist => LoginFrame
  BY DEF DeleteUnlist, Write, LoginFrame, SwitchSteps, AfterSync, AfterRead
<1>15. DeleteSecret => LoginFrame
  BY DEF DeleteSecret, LoginFrame, SwitchSteps, AfterSync, AfterRead
<1>16. DeleteCatalog => LoginFrame
  BY DEF DeleteCatalog, LoginFrame, SwitchSteps, AfterSync, AfterRead
<1>17. DeleteRelist => LoginFrame
  BY DEF DeleteRelist, Restore, LoginFrame, SwitchSteps, AfterSync, AfterRead
<1>18. EnsureFileAuth => LoginFrame
  BY DEF EnsureFileAuth, Write, LoginFrame, SwitchSteps, AfterSync, AfterRead
<1>19. EnsureProviders => LoginFrame
  BY DEF EnsureProviders, Write, LoginFrame, SwitchSteps, AfterSync, AfterRead
<1>20. EnsureRoute => LoginFrame
  BY DEF EnsureRoute, Write, LoginFrame, SwitchSteps, AfterSync, AfterRead
<1>21. \A a \in Apis : SaveApiBegin(a) => LoginFrame
  BY DEF SaveApiBegin, files, LoginFrame, SwitchSteps, AfterSync, AfterRead
<1>22. SaveApiSecret => LoginFrame
  BY DEF SaveApiSecret, LoginFrame, SwitchSteps, AfterSync, AfterRead
<1>23. SaveApiRegistry => LoginFrame
  BY DEF SaveApiRegistry, LoginFrame, SwitchSteps, AfterSync, AfterRead
<1>24. SaveApiUndo => LoginFrame
  BY DEF SaveApiUndo, LoginFrame, SwitchSteps, AfterSync, AfterRead
<1>25. Crash => LoginFrame
  BY DEF Crash, files, LoginFrame, SwitchSteps, AfterSync, AfterRead
<1>26. UNCHANGED vars => LoginFrame
  BY DEF vars, files, LoginFrame
<1>27. QED
  BY <1>1, <1>2, <1>3, <1>4, <1>5, <1>6, <1>7, <1>8, <1>9, <1>10, <1>11, <1>12, <1>13, <1>14,
     <1>15, <1>16, <1>17, <1>18, <1>19, <1>20, <1>21, <1>22, <1>23, <1>24, <1>25, <1>26
     DEF Repair, SaveApi

LoginSteps ==
  \/ SaveCurrentBegin \/ SaveCurrentSnapshot \/ SwitchSync \/ SwitchRead \/ SwitchCatalog
  \/ SwitchToPlus \/ SwitchWriteAuth \/ UndoAuth \/ DeleteSnapshot \/ Codex

LEMMA NextLogins ==
  ASSUME TypeInv, RegistryInv, [Next]_vars
  PROVE  LoginFrame \/ LoginSteps
<1>1. cmd \in Command
  BY DEF TypeInv, TypeOK
<1>2. CASE SaveCurrent
  BY <1>1, <1>2, LoginFrames DEF SaveCurrent, LoginSteps
<1>3. CASE Switch
  BY <1>1, <1>3, LoginFrames DEF Switch, LoginSteps
<1>4. CASE Delete
  BY <1>1, <1>4, LoginFrames DEF Delete, LoginSteps
<1>5. CASE Repair \/ SaveApi \/ Crash \/ UNCHANGED vars
  BY <1>1, <1>5, LoginFrames
<1>6. QED
  BY <1>2, <1>3, <1>4, <1>5 DEF Next, LoginSteps

\* Saving the login in auth.json: the snapshot of its account is replaced, or
\* the write fails and the command ends.
Saved(ok) ==
  /\ auth \in Auth /\ auth' = auth /\ latest' = latest
  /\ \E t \in {auth.token, snapshot[auth.owner], None} :
       /\ snapshot' = [snapshot EXCEPT ![auth.owner] = t]
       /\ \/ t = auth.token /\ pc' = ok /\ cmd' = cmd
          \/ pc' = "idle" /\ cmd' = NoCommand

LEMMA SavedSteps ==
  ASSUME TypeInv, LoginInv
  PROVE  /\ SaveCurrentSnapshot => pc = "snapshot" /\ Saved("commit")
         /\ SwitchSync /\ SyncApplies(cmd.reg) =>
              pc = "sync" /\ auth.owner = cmd.reg.active /\ Saved("read")
<1>1. ASSUME SaveCurrentSnapshot
      PROVE  pc = "snapshot" /\ Saved("commit")
  <2>1. pc = "snapshot" /\ cmd.nextAuth = auth /\ auth \in Auth
    BY <1>1 DEF SaveCurrentSnapshot, TypeInv, LocalsOK, LoginInv
  <2>2. QED
    BY <1>1, <2>1
       DEF SaveCurrentSnapshot, WriteSnapshot, AfterFailedWrite, KeepLocals, Saved
<1>2. ASSUME SwitchSync, SyncApplies(cmd.reg)
      PROVE  pc = "sync" /\ auth.owner = cmd.reg.active /\ Saved("read")
  <2>1. pc = "sync" /\ auth.owner = cmd.reg.active /\ auth \in Auth
    BY <1>2 DEF SwitchSync, SyncApplies, TypeInv, TypeOK, FileTypes
  <2>2. QED
    BY <1>2, <2>1 DEF SwitchSync, WriteSnapshot, AfterFailedWrite, KeepLocals, Saved
<1>3. QED
  BY <1>1, <1>2

\* auth.json is replaced by a login, restored to one, or lost.
LEMMA AuthWrites ==
  ASSUME TypeInv, SwitchWriteAuth \/ UndoAuth
  PROVE  /\ UNCHANGED <<snapshot, latest, registry>>
         /\ SwitchWriteAuth =>
              /\ pc = "auth" /\ auth' \in {cmd.nextAuth, auth, None}
              /\ pc' \in {"route", "undoConfig"} /\ cmd' = cmd
              /\ pc' = "route" => auth' = cmd.nextAuth
         /\ UndoAuth =>
              /\ pc = "undoAuth" /\ auth' \in {cmd.prev.auth, auth, None}
              /\ pc' = "undoRoute" /\ cmd' = cmd
BY DEF SwitchWriteAuth, UndoAuth, Write, Restore, AfterFailedWrite, KeepLocals

\* A login that Codex obtains is the newest of its account.
LEMMA CodexLogins ==
  ASSUME Serial, TypeInv, LoginInv, Codex
  PROVE  /\ pc = "idle" /\ UNCHANGED <<pc, cmd, snapshot>>
         /\ auth' \in Auth /\ auth'.token = latest'[auth'.owner]
         /\ \A p \in Plus : latest'[p] = latest[p] \/ (p = auth'.owner /\ latest'[p] = latest[p] + 1)
         /\ \A p \in KeyLogins : latest'[p] = 0
<1> USE DEF TypeInv, TypeOK, FileTypes
<1>1. CASE CodexRefresh
  <2>1. auth \in Auth /\ auth.owner \in Plus \ KeyLogins /\ latest[auth.owner] \in Nat
    BY <1>1 DEF CodexRefresh, HasTokens, Auth, Token
  <2>2. auth' \in Auth /\ auth'.owner = auth.owner /\ auth'.token = auth.token + 1
    BY <1>1, <2>1, AccountAssumption DEF CodexRefresh, Auth, Token
  <2>3. QED
    BY <1>1, <2>1, <2>2, AccountAssumption
       DEF CodexRefresh, CodexMayRun, Serial, LoginInv
<1>2. ASSUME NEW q \in Plus, CodexLogin(q)
      PROVE  /\ pc = "idle" /\ UNCHANGED <<pc, cmd, snapshot>>
             /\ auth' \in Auth /\ auth'.token = latest'[auth'.owner]
             /\ \A p \in Plus : latest'[p] = latest[p]
                                \/ (p = auth'.owner /\ latest'[p] = latest[p] + 1)
             /\ \A p \in KeyLogins : latest'[p] = 0
  <2>1. auth' = [owner |-> q, token |-> latest'[q]]
    BY <1>2 DEF CodexLogin
  <2>2. latest' \in [Plus -> Token]
    BY <1>2, AccountAssumption DEF CodexLogin, Token
  <2>3. auth' \in Auth /\ auth'.owner = q /\ auth'.token = latest'[q]
    BY <2>1, <2>2 DEF Auth
  <2>4. \A p \in Plus : latest'[p] = latest[p] \/ (p = q /\ latest'[p] = latest[p] + 1)
    BY <1>2 DEF CodexLogin, LoginInv
  <2>5. \A p \in KeyLogins : latest'[p] = 0
    BY <1>2, AccountAssumption DEF CodexLogin, LoginInv
  <2>6. QED
    BY <1>2, <2>3, <2>4, <2>5 DEF CodexLogin, CodexMayRun, Serial
<1>3. QED
  BY <1>1, <1>2 DEF Codex

LEMMA LoginStep ==
  ASSUME Serial, TypeInv, RegistryInv, LoginInv, [Next]_vars
  PROVE  LoginInv'
<1> USE DEF LoginInv, NotBehind
<1>1. /\ snapshot \in [Plus -> Token \cup {None}] /\ latest \in [Plus -> Token] /\ Token \subseteq Nat
      /\ auth \in Auth \cup {None} /\ cmd \in Command
  BY AccountAssumption DEF TypeInv, TypeOK, FileTypes, Token
<1>2. CASE LoginFrame
  BY <1>2 DEF LoginFrame, AfterSync, AfterRead, SwitchSteps
<1>3. CASE SaveCurrentBegin
  BY <1>3, SaveLocals DEF SaveCurrentBegin, files, AfterSync, AfterRead, SwitchSteps
<1>4. ASSUME NEW ok \in {"commit", "read"}, Saved(ok)
      PROVE  LoginInv'
  <2>1. PICK t \in {auth.token, snapshot[auth.owner], None} :
          /\ snapshot' = [snapshot EXCEPT ![auth.owner] = t]
          /\ pc' \in {ok, "idle"}
    BY <1>4 DEF Saved
  <2>2. auth \in Auth /\ auth' = auth /\ latest' = latest /\ auth # None
    BY <1>4, NoneAssumption DEF Saved
  <2>3. auth.owner \in Plus /\ auth.token \in Nat /\ None \notin Nat
    BY <1>1, <2>2, AccountAssumption DEF Auth
  <2>4. \A p \in Plus : snapshot'[p] = (IF p = auth.owner THEN t ELSE snapshot[p])
    BY <1>1, <2>1, <2>3
  <2>5. \A p \in Plus : snapshot'[p] # None => snapshot'[p] <= latest'[p]
    BY <2>1, <2>2, <2>3, <2>4
  <2>6. NotBehind(auth)'
    <3>1. snapshot'[auth.owner] = t /\ latest[auth.owner] \in Nat
      BY <1>1, <2>3, <2>4
    <3>2. /\ auth.token <= latest[auth.owner]
          /\ snapshot[auth.owner] = latest[auth.owner] => auth.token = latest[auth.owner]
      BY <2>2
    <3>3. t = latest[auth.owner] => auth.token = latest[auth.owner]
      BY <2>1, <2>3, <3>1, <3>2
    <3>4. QED
      BY <2>2, <3>1, <3>2, <3>3
  <2>7. QED
    BY <2>1, <2>2, <2>5, <2>6 DEF AfterSync, AfterRead, SwitchSteps
<1>5. CASE SwitchSync
  <2>1. CASE SyncApplies(cmd.reg)
    BY <1>4, <1>5, <2>1, SavedSteps
  <2>2. CASE ~ SyncApplies(cmd.reg)
    BY <1>5, <2>2 DEF SwitchSync, AfterSync, AfterRead, SwitchSteps
  <2>3. QED
    BY <2>1, <2>2
<1>6. CASE SwitchRead
  BY <1>1, <1>6, StepLocals DEF SwitchRead, files, AfterSync, AfterRead, SwitchSteps
<1>7. ASSUME NEW login, NotBehind(login), cmd'.nextAuth = login, cmd'.prev = cmd.prev,
             pc \in AfterRead, UNCHANGED <<auth, snapshot, latest>>, pc' = "config"
      PROVE  LoginInv'
  BY <1>7 DEF AfterSync, AfterRead, SwitchSteps
<1>8. ASSUME NEW p \in Plus, snapshot[p] # None
      PROVE  NotBehind([owner |-> p, token |-> snapshot[p]])
  BY <1>1, <1>8
<1>9. CASE SwitchCatalog
  <2>1. pc = "catalog" /\ UNCHANGED <<auth, snapshot, latest>>
    BY <1>9 DEF SwitchCatalog
  <2>2. CASE pc' = "idle" /\ cmd' = NoCommand
    BY <2>1, <2>2 DEF AfterSync, AfterRead, SwitchSteps
  <2>3. CASE pc' = "config" /\ cmd'.prev = cmd.prev /\ cmd'.nextAuth \in AuthsForApi(cmd.reg, cmd.prev.auth)
    <3>1. NotBehind(cmd.prev.auth)
      BY <2>1 DEF AfterSync, AfterRead, SwitchSteps
    <3>2. NotBehind(cmd'.nextAuth)
      BY <1>8, <2>3, <3>1 DEF AuthsForApi
    <3>3. pc \in AfterRead
      BY <2>1 DEF AfterSync, AfterRead, SwitchSteps
    <3> HIDE DEF NotBehind
    <3>4. QED
      BY <1>7, <2>1, <2>3, <3>2, <3>3
  <2>4. QED
    BY <1>1, <1>9, <2>2, <2>3, StepLocals
<1>10. CASE SwitchToPlus
  <2>1. pc = "prepare" /\ cmd.target \in Plus /\ UNCHANGED <<auth, snapshot, latest>>
    BY <1>10 DEF SwitchToPlus, files
  <2>2. CASE pc' = "idle" /\ cmd' = NoCommand
    BY <2>1, <2>2 DEF AfterSync, AfterRead, SwitchSteps
  <2>3. CASE /\ pc' = "config" /\ cmd'.prev = cmd.prev /\ snapshot[cmd.target] # None
             /\ cmd'.nextAuth = [owner |-> cmd.target, token |-> snapshot[cmd.target]]
    <3>1. NotBehind([owner |-> cmd.target, token |-> snapshot[cmd.target]])
      BY <1>8, <2>1, <2>3
    <3>2. pc \in AfterRead
      BY <2>1 DEF AfterSync, AfterRead, SwitchSteps
    <3> HIDE DEF NotBehind
    <3>3. QED
      BY <1>7, <2>1, <2>3, <3>1, <3>2
  <2>4. QED
    BY <1>1, <1>10, <2>2, <2>3, StepLocals
<1>11. CASE SwitchWriteAuth \/ UndoAuth
  BY <1>11, AuthWrites DEF AfterSync, AfterRead, SwitchSteps
<1>12. CASE DeleteSnapshot
  <2>1. pc = "file" /\ pc' \in {"idle", "relist"} /\ UNCHANGED <<auth, latest>>
    BY <1>12 DEF DeleteSnapshot
  <2>2. \A p \in Plus : snapshot'[p] \in {snapshot[p], None}
    BY <1>1, <1>12 DEF DeleteSnapshot
  <2>3. \A p \in Plus : latest[p] # None
    BY <1>1, AccountAssumption
  <2>4. auth # None => auth.owner \in Plus
    BY <1>1 DEF Auth
  <2>5. QED
    BY <2>1, <2>2, <2>3, <2>4 DEF AfterSync, AfterRead, SwitchSteps
<1>13. CASE Codex
  <2>1. /\ pc' = "idle" /\ snapshot' = snapshot
        /\ auth' \in Auth /\ auth'.token = latest'[auth'.owner]
        /\ \A p \in Plus : latest'[p] = latest[p] \/ (p = auth'.owner /\ latest'[p] = latest[p] + 1)
        /\ \A p \in KeyLogins : latest'[p] = 0
    BY <1>13, CodexLogins
  <2>2. latest' \in [Plus -> Nat]
    BY <1>1, <1>13 DEF Codex, CodexRefresh, CodexLogin
  <2>3. auth'.owner \in Plus
    BY <2>1 DEF Auth
  <2>4. ASSUME NEW p \in Plus, snapshot'[p] # None
        PROVE  snapshot'[p] <= latest'[p]
    <3>1. snapshot[p] \in Nat /\ latest[p] \in Nat /\ snapshot[p] <= latest[p]
      BY <1>1, <2>1, <2>4
    <3>2. latest'[p] = latest[p] \/ latest'[p] = latest[p] + 1
      BY <2>1
    <3>3. QED
      BY <2>1, <3>1, <3>2
  <2>5. QED
    BY <1>1, <2>1, <2>2, <2>3, <2>4 DEF AfterSync, AfterRead, SwitchSteps
<1>14. QED
  BY <1>2, <1>3, <1>4, <1>5, <1>6, <1>9, <1>10, <1>11, <1>12, <1>13, SavedSteps, NextLogins
     DEF LoginSteps

LEMMA SyncedStep ==
  ASSUME Serial, TypeInv, KeptInv, [Next]_vars
  PROVE  SyncedInv'
<1> USE DEF SyncedInv, SavedAs
<1>1. /\ snapshot \in [Plus -> Token \cup {None}] /\ auth \in Auth \cup {None}
      /\ cmd \in Command /\ None \notin Auth
      /\ \A p \in Plus : latest[p] \in Token
      /\ \A p \in Plus : \A a : a = [owner |-> p, token |-> latest[p]] => a # None
  BY NoneAssumption DEF TypeInv, TypeOK, FileTypes, Auth
<1>2. CASE LoginFrame
  BY <1>2 DEF LoginFrame, KeptInv, RegistryInv, AfterSync, AfterRead, SwitchSteps, UndoSteps
<1>3. CASE SaveCurrentBegin \/ SaveCurrentSnapshot \/ DeleteSnapshot
  <2>1. pc' \notin SwitchSteps
    BY <1>3
       DEF SaveCurrentBegin, SaveCurrentSnapshot, WriteSnapshot, DeleteSnapshot, SwitchSteps
  <2>2. QED
    BY <2>1 DEF AfterSync, AfterRead, SwitchSteps
<1>4. CASE SwitchSync
  <2>1. CASE pc' = "idle"
    BY <2>1 DEF AfterSync, AfterRead, SwitchSteps
  <2>2. CASE pc' = "read"
    <3>1. /\ pc = "sync" /\ cmd' = cmd /\ auth' = auth /\ latest' = latest
      BY <1>4, <2>2 DEF SwitchSync, KeepLocals
    <3>2. ASSUME NEW p \in Plus, p = cmd.reg.active, auth = [owner |-> p, token |-> latest[p]]
          PROVE  snapshot'[p] = latest[p]
      <4>1. SyncApplies(cmd.reg)
        <5>1. p \in cmd.reg.accounts
          BY <3>2, AccountAssumption DEF KeptInv, RegistryInv, ListsActive
        <5>2. ~ ActiveIsApi(cmd.reg)
          BY <3>2, AccountAssumption DEF ActiveIsApi
        <5>3. QED
          BY <1>1, <3>2, <5>1, <5>2 DEF SyncApplies
      <4>2. snapshot' = [snapshot EXCEPT ![auth.owner] = auth.token]
        BY <1>4, <2>2, <4>1 DEF SwitchSync, WriteSnapshot, SyncApplies
      <4>3. QED
        BY <1>1, <3>2, <4>2
    <3>3. QED
      BY <2>2, <3>1, <3>2 DEF AfterSync, AfterRead, SwitchSteps
  <2>3. QED
    BY <1>4, <2>1, <2>2 DEF SwitchSync, WriteSnapshot
<1>5. CASE SwitchRead
  <2>1. pc = "read" /\ UNCHANGED <<auth, snapshot, latest>>
    BY <1>5 DEF SwitchRead, files
  <2>2. pc' # "idle" => pc' = "prepare" /\ cmd'.prev.auth = auth /\ cmd'.reg = cmd.reg
    BY <1>1, <1>5, StepLocals
  <2>3. ASSUME NEW p \in Plus, p = cmd.reg.active
        PROVE  SavedAs(auth, p)
    BY <2>1, <2>3 DEF AfterSync, SwitchSteps, KeptInv
  <2>4. QED
    BY <2>1, <2>2, <2>3 DEF AfterSync, AfterRead, SwitchSteps
<1>6. CASE SwitchCatalog
  <2>1. pc = "catalog" /\ cmd.target \in Apis /\ UNCHANGED <<auth, snapshot, latest>>
    BY <1>6 DEF SwitchCatalog, TypeInv, LocalsOK
  <2>2. CASE pc' = "idle"
    BY <2>2 DEF AfterSync, AfterRead, SwitchSteps
  <2>3. CASE /\ pc' = "config" /\ cmd'.prev = cmd.prev /\ cmd'.reg = cmd.reg
             /\ cmd'.target = cmd.target
             /\ cmd'.nextAuth \in AuthsForApi(cmd.reg, cmd.prev.auth)
    <3>1. cmd'.target \notin Plus
      BY <2>1, <2>3, AccountAssumption
    <3>2. ASSUME NEW p \in Plus, p = cmd.reg.active
          PROVE  SavedAs(auth, p) /\ SavedAs(cmd.prev.auth, p)
      BY <2>1, <3>2 DEF AfterSync, AfterRead, SwitchSteps, KeptInv
    <3>3. ASSUME NEW p \in Plus, p = cmd.reg.active
          PROVE  SavedAs(cmd'.nextAuth, p)
      BY <2>3, <3>2, <3>3 DEF AuthsForApi
    <3>4. QED
      BY <2>1, <2>3, <3>1, <3>2, <3>3 DEF AfterSync, AfterRead, SwitchSteps
  <2>4. QED
    BY <1>1, <1>6, <2>2, <2>3, StepLocals
<1>7. CASE SwitchToPlus
  <2>1. pc = "prepare" /\ UNCHANGED <<auth, snapshot, latest>>
    BY <1>7 DEF SwitchToPlus, files
  <2>2. CASE pc' = "idle"
    BY <2>2 DEF AfterSync, AfterRead, SwitchSteps
  <2>3. CASE /\ pc' = "config" /\ cmd'.prev = cmd.prev /\ cmd'.reg = cmd.reg
             /\ cmd'.target = cmd.target
             /\ cmd'.nextAuth = [owner |-> cmd.target, token |-> snapshot[cmd.target]]
    <3>1. ASSUME NEW p \in Plus
          PROVE  SavedAs(cmd'.nextAuth, p)
      BY <2>3
    <3>2. ASSUME NEW p \in Plus, p = cmd.reg.active
          PROVE  SavedAs(auth, p) /\ SavedAs(cmd.prev.auth, p)
      BY <2>1, <3>2 DEF AfterSync, AfterRead, SwitchSteps, KeptInv
    <3>3. QED
      BY <2>1, <2>3, <3>1, <3>2 DEF AfterSync, AfterRead, SwitchSteps
  <2>4. QED
    BY <1>1, <1>7, <2>2, <2>3, StepLocals
<1>8. CASE SwitchWriteAuth
  BY <1>1, <1>8, AuthWrites
     DEF KeptInv, RegistryInv, AfterSync, AfterRead, SwitchSteps, UndoSteps
<1>9. CASE UndoAuth
  BY <1>1, <1>9, AuthWrites DEF KeptInv, AfterSync, AfterRead, SwitchSteps
<1>10. CASE Codex
  <2>1. pc' = "idle"
    BY <1>10, CodexLogins DEF KeptInv
  <2>2. QED
    BY <2>1 DEF AfterSync, AfterRead, SwitchSteps
<1>11. QED
  BY <1>2, <1>3, <1>4, <1>5, <1>6, <1>7, <1>8, <1>9, <1>10, NextLogins
     DEF LoginSteps, KeptInv

LEMMA KeptInit == Init => KeptInv
<1> SUFFICES ASSUME Init PROVE KeptInv
  OBVIOUS
<1>1. RegistryInv
  BY IdleLocals DEF Init, RegistryInv, ListsActive, ReadRegistry, SwitchSteps, UndoSteps
<1>2. LoginInv
  <2>1. auth \in [owner : Plus, token : {0}] \cup {None} /\ pc = "idle"
        /\ latest = [p \in Plus |-> 0] /\ snapshot = [p \in Plus |-> None]
    BY DEF Init
  <2>2. QED
    BY <2>1, AccountAssumption DEF LoginInv, NotBehind, AfterSync, AfterRead, SwitchSteps
<1>3. SyncedInv
  BY DEF Init, SyncedInv, AfterSync, AfterRead, SwitchSteps
<1>4. QED
  BY <1>1, <1>2, <1>3 DEF KeptInv

LEMMA KeptStep == Serial /\ TypeInv /\ KeptInv /\ [Next]_vars => KeptInv'
BY RegistryStep, LoginStep, SyncedStep DEF KeptInv, Serial, OneWriter

\* What ActiveLoginKept says of a step.
LEMMA HeldStep ==
  ASSUME Serial, TypeInv, KeptInv, [Next]_vars,
         NEW p \in Plus, pc # "idle", ReadRegistry.active = p, Held(p)
  PROVE  Held(p)'
<1> USE DEF Held
<1>1. /\ snapshot \in [Plus -> Token \cup {None}] /\ auth \in Auth \cup {None}
      /\ latest[p] \in Nat /\ None \notin Nat /\ None \notin Auth /\ cmd \in Command
  BY AccountAssumption, NoneAssumption DEF TypeInv, TypeOK, FileTypes, Token
<1>2. CASE UNCHANGED <<auth, snapshot, latest>>
  BY <1>2
<1>3. ASSUME NEW ok, Saved(ok)
      PROVE  Held(p)'
  <2>1. PICK t \in {auth.token, snapshot[auth.owner], None} :
          snapshot' = [snapshot EXCEPT ![auth.owner] = t]
    BY <1>3 DEF Saved
  <2>2. auth \in Auth /\ auth' = auth /\ latest' = latest
    BY <1>3 DEF Saved
  <2>3. CASE auth.owner = p
    <3>1. auth = [owner |-> p, token |-> auth.token]
      BY <2>2, <2>3 DEF Auth
    <3>2. snapshot[p] = latest[p] => auth.token = latest[p]
      BY <1>1, <2>2, <2>3 DEF KeptInv, LoginInv, NotBehind
    <3>3. auth.token = latest[p]
      BY <3>2
    <3>4. QED
      BY <2>2, <3>1, <3>3
  <2>4. CASE auth.owner # p
    BY <1>1, <2>1, <2>2, <2>4
  <2>5. QED
    BY <2>3, <2>4
<1>4. CASE SwitchSync
  <2>1. CASE SyncApplies(cmd.reg)
    BY <1>3, <1>4, <2>1, SavedSteps DEF KeptInv
  <2>2. QED
    BY <1>2, <1>4, <2>1 DEF SwitchSync
<1>5. CASE SwitchWriteAuth
  <2>1. p = cmd.reg.active /\ pc = "auth" /\ snapshot' = snapshot /\ latest' = latest
    BY <1>5, AuthWrites DEF KeptInv, RegistryInv, SwitchSteps, UndoSteps
  <2>2. snapshot[p] = latest[p] \/ auth # [owner |-> p, token |-> latest[p]]
    BY <2>1 DEF KeptInv, SyncedInv, SavedAs, AfterSync, SwitchSteps
  <2>3. QED
    BY <2>1, <2>2
<1>6. CASE UndoAuth
  <2>1. pc = "undoAuth" /\ snapshot' = snapshot /\ latest' = latest
    BY <1>6, AuthWrites
  <2>2. p = cmd.reg.active \/ (p = cmd.target /\ cmd.late)
    BY <1>1, <2>1, AccountAssumption DEF KeptInv, RegistryInv, SwitchSteps, UndoSteps
  <2>3. snapshot[p] = latest[p] \/ auth # [owner |-> p, token |-> latest[p]]
    BY <2>1, <2>2 DEF KeptInv, SyncedInv, SavedAs, AfterSync, SwitchSteps
  <2>4. QED
    BY <2>1, <2>3
<1>7. CASE DeleteSnapshot
  <2>1. p # cmd.target
    BY <1>7 DEF DeleteSnapshot, KeptInv, RegistryInv
  <2>2. snapshot'[p] = snapshot[p] /\ auth' = auth /\ latest' = latest
    BY <1>1, <1>7, <2>1 DEF DeleteSnapshot
  <2>3. QED
    BY <2>2
<1>8. CASE SaveCurrentSnapshot
  BY <1>3, <1>8, SavedSteps DEF KeptInv
<1>9. CASE Codex
  BY <1>9, CodexLogins DEF KeptInv
<1>10. QED
  <2>1. CASE LoginFrame
    BY <1>2, <2>1 DEF LoginFrame
  <2>2. CASE SaveCurrentBegin \/ SwitchRead \/ SwitchCatalog \/ SwitchToPlus
    BY <1>2, <2>2 DEF SaveCurrentBegin, SwitchRead, SwitchCatalog, SwitchToPlus, files
  <2>3. QED
    BY <1>4, <1>5, <1>6, <1>7, <1>8, <1>9, <2>1, <2>2, NextLogins DEF LoginSteps, KeptInv

\* TypeInv and KeptInv hold throughout when commands run one at a time.
LEMMA KeptCorrect ==
  ASSUME Serial
  PROVE  Spec => [](TypeInv /\ KeptInv)
<1>1. Init => TypeInv /\ KeptInv
  BY InitType, KeptInit
<1>2. TypeInv /\ KeptInv /\ [Next]_vars => (TypeInv /\ KeptInv)'
  BY TypeStep, KeptStep
<1>3. QED
  BY <1>1, <1>2, PTL DEF Spec

\* Whatever fails, no step of a command loses the newest tokens of the active
\* ChatGPT account: they stay in auth.json or in its snapshot.
THEOREM ActiveLoginNeverLost ==
  ASSUME Serial
  PROVE  Spec => ActiveLoginKept
<1>1. TypeInv /\ KeptInv /\ [Next]_vars =>
        [\A p \in Plus :
           pc # "idle" /\ ReadRegistry.active = p /\ Held(p) => Held(p)']_vars
  BY HeldStep
<1>2. QED
  BY <1>1, KeptCorrect, PTL DEF Spec, ActiveLoginKept

\* TypeInv and RegistryInv hold throughout with a Codex beside the commands.
LEMMA RegistryCorrect ==
  ASSUME OneWriter
  PROVE  Spec => [](TypeInv /\ RegistryInv)
<1>1. Init => TypeInv /\ RegistryInv
  BY InitType, KeptInit DEF KeptInv
<1>2. TypeInv /\ RegistryInv /\ [Next]_vars => (TypeInv /\ RegistryInv)'
  BY TypeStep, RegistryStep
<1>3. QED
  BY <1>1, <1>2, PTL DEF Spec

-----------------------------------------------------------------------------
(***************************************************************************)
(* The active account is listed, even when commands overlap.               *)
(***************************************************************************)

\* Every list that is on disk, or that a command still holds, has its active
\* account, and the next one it writes will have it too.
ListInv ==
  /\ ListsActive(ReadRegistry) /\ ListsActive(cmd.reg) /\ ListsActive(save.reg)
  /\ pc \in SwitchSteps \ UndoSteps => cmd.target \in cmd.reg.accounts
  /\ pc = "unlist" => cmd.target # cmd.reg.active

\* A step that leaves the lists alone: it goes on with its command, or ends it.
ListFrame ==
  /\ UNCHANGED <<registry, save>>
  /\ \/ pc' \in {"idle", "historyRoute"} /\ cmd' \in {cmd, NoCommand}
     \/ /\ cmd'.reg = cmd.reg /\ cmd'.target = cmd.target
        /\ pc' \in SwitchSteps \ UndoSteps => pc \in SwitchSteps \ UndoSteps
        /\ pc' = "unlist" => pc = "unlist"

\* The steps that write neither the registry nor a list they hold.
LEMMA ListFrames ==
  ASSUME cmd \in Command
  PROVE  /\ SaveCurrentSnapshot \/ SwitchSync \/ SwitchRead \/ SwitchBaseline => ListFrame
         /\ SwitchCatalog \/ SwitchToPlus => ListFrame
         /\ SwitchWriteConfig \/ SwitchWriteAuth \/ SwitchWriteRoute => ListFrame
         /\ UndoConfig \/ UndoAuth \/ UndoRoute \/ UndoCatalog => ListFrame
         /\ DeleteSecret \/ DeleteCatalog \/ DeleteSnapshot => ListFrame
         /\ Repair \/ Codex \/ UNCHANGED vars => ListFrame
<1> USE DEF ListFrame, SwitchSteps, UndoSteps
<1>1. SaveCurrentSnapshot \/ SwitchSync => ListFrame
  BY DEF SaveCurrentSnapshot, SwitchSync, WriteSnapshot, KeepLocals
<1>2. SwitchRead \/ SwitchCatalog \/ SwitchToPlus => ListFrame
  BY StepLocals DEF SwitchRead, SwitchCatalog, SwitchToPlus, files
<1>3. SwitchBaseline => ListFrame
  BY DEF SwitchBaseline, Write, KeepLocals
<1>4. SwitchWriteConfig \/ SwitchWriteAuth \/ SwitchWriteRoute => ListFrame
  BY DEF SwitchWriteConfig, SwitchWriteAuth, SwitchWriteRoute, Write, KeepLocals
<1>5. UndoConfig \/ UndoAuth \/ UndoRoute \/ UndoCatalog => ListFrame
  BY DEF UndoConfig, UndoAuth, UndoRoute, UndoCatalog, Restore, KeepLocals
<1>6. DeleteSecret \/ DeleteCatalog \/ DeleteSnapshot => ListFrame
  BY DEF DeleteSecret, DeleteCatalog, DeleteSnapshot, KeepLocals
<1>7. Repair => ListFrame
  BY DEF Repair, EnsureFileAuth, EnsureProviders, EnsureRoute, Write
<1>8. Codex \/ UNCHANGED vars => ListFrame
  BY DEF Codex, CodexRefresh, CodexLogin, vars, files
<1>9. QED
  BY <1>1, <1>2, <1>3, <1>4, <1>5, <1>6, <1>7, <1>8

\* Every step keeps the active account on every list.
LEMMA ListStep == TypeInv /\ ListInv /\ [Next]_vars => ListInv'
<1> SUFFICES ASSUME TypeInv, ListInv, [Next]_vars PROVE ListInv'
  OBVIOUS
<1> USE DEF ListInv, ListsActive
<1>0. /\ cmd \in Command /\ cmd.reg \in Registry /\ save \in ApiSave /\ save.reg \in Registry
  BY DEF TypeInv, TypeOK, Command, ApiSave
<1>1. CASE ListFrame
  BY <1>1, IdleLocals DEF ListFrame, ReadRegistry, SwitchSteps, UndoSteps
<1>2. CASE MarkInvalidBegin \/ SaveCurrentOfApi
  <2>1. cmd'.reg = ReadRegistry
    <3>1. CASE MarkInvalidBegin
      BY <3>1, BegunLocals DEF MarkInvalidBegin
    <3>2. CASE SaveCurrentOfApi
      <4>1. cmd' = [NoCommand EXCEPT !.target = ReadRegistry.active, !.reg = ReadRegistry]
        BY <3>2 DEF SaveCurrentOfApi
      <4>2. QED
        BY <4>1, BegunLocals
    <3>3. QED
      BY <1>2, <3>1, <3>2
  <2>2. pc' = "commit" /\ UNCHANGED <<registry, save>>
    BY <1>2 DEF MarkInvalidBegin, SaveCurrentOfApi, files
  <2>3. QED
    BY <2>1, <2>2 DEF ReadRegistry, SwitchSteps, UndoSteps
<1>3. CASE SaveCurrentBegin
  <2>1. cmd'.reg = [active |-> auth.owner, accounts |-> ReadRegistry.accounts \cup {auth.owner}]
    BY <1>3, SaveLocals DEF SaveCurrentBegin
  <2>2. pc' = "snapshot" /\ UNCHANGED <<registry, save>>
    BY <1>3 DEF SaveCurrentBegin, files
  <2>3. QED
    BY <2>1, <2>2 DEF ReadRegistry, SwitchSteps, UndoSteps
<1>4. ASSUME NEW t \in Conn, SwitchBegin(t) \/ DeleteBegin(t)
      PROVE  ListInv'
  <2>1. cmd'.reg = ReadRegistry /\ cmd'.target = t
    <3>1. cmd' = [NoCommand EXCEPT !.target = t, !.reg = ReadRegistry]
      BY <1>4 DEF SwitchBegin, DeleteBegin
    <3>2. QED
      BY <3>1, BegunLocals
  <2>2. /\ UNCHANGED <<registry, save>> /\ t \in ReadRegistry.accounts
        /\ pc' \in {"sync", "unlist"} /\ (pc' = "unlist" => t # ReadRegistry.active)
    BY <1>4 DEF SwitchBegin, DeleteBegin, files
  <2>3. QED
    BY <2>1, <2>2 DEF ReadRegistry, SwitchSteps, UndoSteps
\* A command ends by writing the list it holds, or fails to.
<1>5. CASE WriteRegistry \/ UndoRegistry \/ DeleteRelist
  <2>1. ReadRegistry' \in {cmd.reg, ReadRegistry, EmptyRegistry}
    BY <1>0, <1>5, RegistryWritten DEF WriteRegistry, UndoRegistry, DeleteRelist, Write, Restore
  <2>2. pc' = "idle" /\ cmd' = NoCommand /\ save' = save
    BY <1>5 DEF WriteRegistry, UndoRegistry, DeleteRelist, Write, Restore, KeepLocals
  <2>3. QED
    BY <2>1, <2>2, IdleLocals DEF SwitchSteps, UndoSteps
<1>6. CASE SwitchCommit
  <2> DEFINE new == [cmd.reg EXCEPT !.active = cmd.target]
  <2>1. new \in Registry /\ new.active = cmd.target /\ new.accounts = cmd.reg.accounts
    BY <1>0, <1>6 DEF SwitchCommit, TypeInv, LocalsOK, SwitchSteps, Registry
  <2>2. registry' \in {new} \cup AfterFailedWrite(registry, new)
    BY <1>6 DEF SwitchCommit, Write
  <2> HIDE DEF new
  <2>3. ReadRegistry' \in {new, ReadRegistry, EmptyRegistry}
    BY <2>1, <2>2, RegistryWritten
  <2>4. /\ pc = "registry" /\ save' = save
        /\ \/ pc' = "idle" /\ cmd' = NoCommand
           \/ pc' = "undoConfig" /\ cmd'.reg = cmd.reg
    BY <1>0, <1>6, LateLocals DEF SwitchCommit, Write
  <2>5. QED
    BY <2>1, <2>3, <2>4, IdleLocals DEF SwitchSteps, UndoSteps
<1>7. CASE DeleteUnlist
  <2> DEFINE new == [cmd.reg EXCEPT !.accounts = @ \ {cmd.target}]
  <2>1. /\ new \in Registry /\ new.active = cmd.reg.active
        /\ new.accounts = cmd.reg.accounts \ {cmd.target}
    BY <1>0 DEF Registry
  <2>2. registry' \in {new} \cup AfterFailedWrite(registry, new)
    BY <1>7 DEF DeleteUnlist, Write
  <2> HIDE DEF new
  <2>3. ReadRegistry' \in {new, ReadRegistry, EmptyRegistry}
    BY <2>1, <2>2, RegistryWritten
  <2>4. /\ pc = "unlist" /\ save' = save
        /\ pc' \in {"secret", "file", "idle"} /\ cmd' \in {cmd, NoCommand}
    BY <1>7 DEF DeleteUnlist, Write, KeepLocals
  <2>5. QED
    BY <2>1, <2>3, <2>4, IdleLocals DEF SwitchSteps, UndoSteps
<1>8. CASE SaveApi
  <2>1. UNCHANGED <<pc, cmd>>
    BY <1>8 DEF SaveApi, SaveApiBegin, SaveApiSecret, SaveApiRegistry, SaveApiUndo
  <2>2. save'.reg \in {ReadRegistry, save.reg, EmptyRegistry}
    <3>1. ASSUME NEW a \in Apis, SaveApiBegin(a)
          PROVE  save'.reg = ReadRegistry
      BY <3>1 DEF SaveApiBegin
    <3>2. CASE SaveApiSecret \/ SaveApiRegistry \/ SaveApiUndo
      <4>1. \/ save' = [save EXCEPT !.pc = "write"]
            \/ save' = [save EXCEPT !.pc = "undo"]
            \/ save' = NoSave
        BY <3>2 DEF SaveApiSecret, SaveApiRegistry, SaveApiUndo
      <4>2. QED
        BY <1>0, <4>1, IdleLocals DEF ApiSave
    <3>3. QED
      BY <1>8, <3>1, <3>2 DEF SaveApi
  <2>3. CASE SaveApiRegistry
    <3> DEFINE new == [save.reg EXCEPT !.accounts = @ \cup {save.api}]
    <3>1. /\ new \in Registry /\ new.active = save.reg.active
          /\ new.accounts = save.reg.accounts \cup {save.api}
      BY <1>0, <2>3 DEF SaveApiRegistry, TypeInv, LocalsOK, Registry, Conn
    <3>2. registry' \in {new} \cup AfterFailedWrite(registry, new)
      BY <2>3 DEF SaveApiRegistry
    <3> HIDE DEF new
    <3>3. ReadRegistry' \in {new, ReadRegistry, EmptyRegistry}
      BY <3>1, <3>2, RegistryWritten
    <3>4. QED
      BY <2>1, <2>2, <3>1, <3>3, IdleLocals
  <2>4. CASE registry' = registry
    BY <2>1, <2>2, <2>4, IdleLocals DEF ReadRegistry
  <2>5. QED
    BY <1>8, <2>3, <2>4 DEF SaveApi, SaveApiBegin, SaveApiSecret, SaveApiUndo, files
<1>9. CASE Crash
  BY <1>9, IdleLocals DEF Crash, files, ReadRegistry, SwitchSteps, UndoSteps
<1>10. QED
  BY <1>0, <1>1, <1>2, <1>3, <1>4, <1>5, <1>6, <1>7, <1>8, <1>9, ListFrames
     DEF Next, SaveCurrent, Switch, Delete

\* Whatever fails, and whatever other commands or a Codex do meanwhile, the
\* registry never calls an account active that it does not list.
THEOREM ActiveAccountListed == Spec => []ActiveIsListed
<1>1. Init => TypeInv /\ ListInv
  BY InitType, IdleLocals
     DEF Init, ListInv, ListsActive, ReadRegistry, SwitchSteps, UndoSteps
<1>2. TypeInv /\ ListInv /\ [Next]_vars => (TypeInv /\ ListInv)'
  BY TypeStep, ListStep
<1>3. ListInv => ActiveIsListed
  BY DEF ListInv, ListsActive, ActiveIsListed
<1>4. QED
  BY <1>1, <1>2, <1>3, PTL DEF Spec

=============================================================================
