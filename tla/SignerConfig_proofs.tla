------------------------ MODULE SignerConfig_proofs -------------------------
(***************************************************************************)
(* Proofs about SignerConfig, for any number of API requests, broker-ctl   *)
(* processes and changes, and any set of edits, commands and saves.        *)
(***************************************************************************)
EXTENDS SignerConfig, TLAPS

-----------------------------------------------------------------------------
(* Tables and configurations.                                              *)

\* A table is a function from some of the keys.
LEMMA TablesType ==
    ASSUME NEW K, NEW V, NEW t \in Tables(K, V)
    PROVE  DOMAIN t \subseteq K /\ \A x \in DOMAIN t : t[x] \in V
BY DEF Tables

\* Put and Drop yield tables.
LEMMA PutType ==
    ASSUME NEW K, NEW V, NEW t \in Tables(K, V), NEW k \in K, NEW v \in V
    PROVE  Put(t, k, v) \in Tables(K, V)
<1> DEFINE D == DOMAIN t \cup {k}
<1>1. D \in SUBSET K
  BY TablesType
<1>2. Put(t, k, v) \in [D -> V]
  BY TablesType DEF Put
<1> QED
  BY <1>1, <1>2 DEF Tables

\* Removing an entry leaves a table.
LEMMA DropType ==
    ASSUME NEW K, NEW V, NEW t \in Tables(K, V), NEW k
    PROVE  Drop(t, k) \in Tables(K, V)
<1> DEFINE D == DOMAIN t \ {k}
<1>1. D \in SUBSET K
  BY TablesType
<1>2. Drop(t, k) \in [D -> V]
  BY TablesType DEF Drop
<1> QED
  BY <1>1, <1>2 DEF Tables

\* A host entry of a configuration is a host entry.
LEMMA HostEntryType ==
    ASSUME NEW c \in Configs, NEW h \in DOMAIN c.hosts
    PROVE  c.hosts[h] \in HostEntries /\ h \in Hosts
<1>1. c.hosts \in Tables(Hosts, HostEntries)
  BY DEF Configs
<1> QED
  BY <1>1, TablesType

\* The signer's edit of a configuration is a configuration.
LEMMA EditAllowType ==
    ASSUME NEW c \in Configs, NEW e \in Edits, ~editAllowRefuses(c, e)
    PROVE  editAllow(c, e) \in Configs
<1>1. e.host \in DOMAIN c.hosts /\ e.host \in Hosts /\ e.pattern \in Rules
  BY SignerConfigAssumption DEF editAllowRefuses, PolicyEdits
<1> DEFINE h == c.hosts[e.host]
           n == IF e.add
                THEN [h EXCEPT !.allow = h.allow \cup {e.pattern},
                               !.mode = IF h.mode = "off" THEN "allowlist" ELSE h.mode]
                ELSE [h EXCEPT !.allow = h.allow \ {e.pattern}]
<1>2. h \in HostEntries
  BY <1>1, HostEntryType
<1>3. n \in HostEntries
  BY <1>1, <1>2 DEF HostEntries
<1>4. c.hosts \in Tables(Hosts, HostEntries)
  BY DEF Configs
<1>5. Put(c.hosts, e.host, n) \in Tables(Hosts, HostEntries)
  BY <1>1, <1>3, <1>4, PutType
<1>6. editAllow(c, e) = [c EXCEPT !.hosts = Put(c.hosts, e.host, n)]
  BY DEF editAllow
<1> HIDE DEF n
<1> QED
  BY <1>5, <1>6 DEF Configs

\* A broker-ctl command turns a configuration into a configuration.
LEMMA CtlEditType ==
    ASSUME NEW c \in Configs, NEW k \in CtlCommands
    PROVE  ctlEdit(c, k) \in Configs
<1>1. /\ c.hosts \in Tables(Hosts, HostEntries)
      /\ c.ca_keys \in Tables(KeyNames, KeyRefs)
      /\ c.callers \in Tables(CNs, SUBSET Groups)
  BY DEF Configs
<1>2. CASE k.op = "host add"
  <2>1. k.name \in Hosts /\ k.entry \in HostEntries
    BY <1>2 DEF CtlCommands, HostCommands, KeyCommands, CallerCommands
  <2> DEFINE n == IF k.name \in DOMAIN c.hosts
                  THEN mergeCommandPolicyJSON(
                          mergeUnsetHostFields(k.entry, c.hosts[k.name], k.given),
                          c.hosts[k.name], k.given)
                  ELSE k.entry
  <2>2. n \in HostEntries
    <3>1. CASE k.name \in DOMAIN c.hosts
      <4>1. c.hosts[k.name] \in HostEntries
        BY <3>1, HostEntryType
      <4>2. mergeUnsetHostFields(k.entry, c.hosts[k.name], k.given) \in HostEntries
        BY <2>1, <4>1 DEF mergeUnsetHostFields, Kept, HostEntries
      <4> QED
        BY <3>1, <4>1, <4>2 DEF mergeCommandPolicyJSON, Kept, HostEntries
    <3> QED
      BY <2>1, <3>1
  <2>3. ctlEdit(c, k) = [c EXCEPT !.hosts = Put(c.hosts, k.name, n)]
    BY <1>2 DEF ctlEdit, cmdHostAdd
  <2> HIDE DEF n
  <2>4. Put(c.hosts, k.name, n) \in Tables(Hosts, HostEntries)
    BY <1>1, <2>1, <2>2, PutType
  <2> QED
    BY <2>3, <2>4 DEF Configs
<1>3. CASE k.op = "host remove"
  <2>1. Drop(c.hosts, k.name) \in Tables(Hosts, HostEntries)
    BY <1>1, DropType
  <2>2. ctlEdit(c, k) = [c EXCEPT !.hosts = Drop(c.hosts, k.name)]
    BY <1>3 DEF ctlEdit, cmdHostRemove
  <2> QED
    BY <2>1, <2>2 DEF Configs
<1>4. CASE k.op = "ca-keys add"
  <2>1. k.name \in KeyNames /\ k.entry \in KeyRefs
    BY <1>4 DEF CtlCommands, HostCommands, KeyCommands, CallerCommands
  <2>2. Put(c.ca_keys, k.name, k.entry) \in Tables(KeyNames, KeyRefs)
    BY <1>1, <2>1, PutType
  <2>3. ctlEdit(c, k) = [c EXCEPT !.ca_keys = Put(c.ca_keys, k.name, k.entry)]
    BY <1>4 DEF ctlEdit, cmdCAKeysAdd
  <2> QED
    BY <2>2, <2>3 DEF Configs
<1>5. CASE k.op = "ca-keys remove"
  <2>1. Drop(c.ca_keys, k.name) \in Tables(KeyNames, KeyRefs)
    BY <1>1, DropType
  <2>2. ctlEdit(c, k) = [c EXCEPT !.ca_keys = Drop(c.ca_keys, k.name)]
    BY <1>5 DEF ctlEdit, cmdCAKeysRemove
  <2> QED
    BY <2>1, <2>2 DEF Configs
<1>6. CASE k.op = "callers add"
  <2>1. k.name \in CNs /\ k.entry \in SUBSET Groups
    BY <1>6 DEF CtlCommands, HostCommands, KeyCommands, CallerCommands
  <2>2. Put(c.callers, k.name, k.entry) \in Tables(CNs, SUBSET Groups)
    BY <1>1, <2>1, PutType
  <2>3. ctlEdit(c, k) = [c EXCEPT !.callers = Put(c.callers, k.name, k.entry)]
    BY <1>6 DEF ctlEdit, cmdCallersAdd
  <2> QED
    BY <2>2, <2>3 DEF Configs
<1>7. CASE k.op = "callers remove"
  <2>1. Drop(c.callers, k.name) \in Tables(CNs, SUBSET Groups)
    BY <1>1, DropType
  <2>2. ctlEdit(c, k) = [c EXCEPT !.callers = Drop(c.callers, k.name)]
    BY <1>7 DEF ctlEdit, cmdCallersRemove
  <2> QED
    BY <2>1, <2>2 DEF Configs
<1> QED
  BY <1>2, <1>3, <1>4, <1>5, <1>6, <1>7
  DEF CtlCommands, HostCommands, KeyCommands, CallerCommands

-----------------------------------------------------------------------------
(* The inductive invariant.                                                *)

\* The request a holds writeMu.
Holding(a) == api[a].pc \in {"built", "opened", "written", "renamed"}
MutexInv == \A a, b \in Apis : Holding(a) /\ Holding(b) => a = b

\* The edit under way, if only the API is at work, is an edit of what the file holds, and
\* the temporary file is its own.
WantInv ==
    want # NoConfig =>
        /\ file = want
        /\ ~Outsiders
        /\ \A a \in Apis :
              /\ api[a].pc \in {"built", "opened", "written"}
                    => api[a].cfg = editAllow(file, api[a].req)
              /\ api[a].pc = "opened" => handle[a] = "tmp" /\ tmp = Empty
              /\ api[a].pc = "written" => tmp = api[a].cfg

\* Nothing is under way in a process that is not there.
DownInv ==
    running = Down => /\ \A a \in Apis : api[a].pc = "idle"
                      /\ \A r \in Reloaders : reloads[r].pc = "idle"

\* What was built passed buildState.
BuiltInv ==
    /\ running # Down => buildState(running)
    /\ \A a \in Apis : Holding(a) => buildState(api[a].cfg)
    /\ \A r \in Reloaders : reloads[r].pc = "built" => buildState(reloads[r].cfg)

\* What the watcher is about to put in force is the file, or it will look again.
WatchInv == reloads[Watch].pc = "built" => changed \/ reloads[Watch].cfg = file

-----------------------------------------------------------------------------
(* Types.                                                                  *)

\* The file system steps keep the types of what they write.
LEMMA WriteOpenedType ==
    ASSUME TypeOK, NEW w \in Writers, NEW c \in Configs, WriteOpened(w, c)
    PROVE  /\ file' \in Contents
           /\ tmp' \in Contents \cup {NoFile}
           /\ handle' \in [Writers -> {"none", "tmp", "file", "lost"}]
           /\ changed' \in BOOLEAN
BY DEF TypeOK, WriteOpened, Over, Contents

\* The rename puts into the file what the temporary file held.
LEMMA RenameTmpType ==
    ASSUME TypeOK, RenameTmp
    PROVE  /\ file' \in Contents
           /\ tmp' \in Contents \cup {NoFile}
           /\ handle' \in [Writers -> {"none", "tmp", "file", "lost"}]
           /\ changed' \in BOOLEAN
BY DEF TypeOK, RenameTmp

\* A request of the API carries an edit, and once it has read the file a configuration.
LEMMA ApiFacts ==
    ASSUME TypeOK, NEW a \in Apis
    PROVE  /\ api[a] \in ApiStates
           /\ api[a].pc # "idle" => api[a].req \in Edits
           /\ api[a].pc \in {"built", "opened", "written", "renamed"} => api[a].cfg \in Configs
BY DEF TypeOK, ApiStates

\* What a broker-ctl process holds once it has edited is a configuration.
LEMMA CtlFacts ==
    ASSUME TypeOK, NEW c \in Ctls
    PROVE  /\ ctl[c] \in CtlStates
           /\ ctl[c].pc # "idle" => ctl[c].cfg \in Configs
BY DEF TypeOK, CtlStates

\* What a reload holds once it has read is a configuration.
LEMMA ReloadFacts ==
    ASSUME TypeOK, NEW r \in Reloaders
    PROVE  /\ reloads[r] \in ReloadStates
           /\ reloads[r].pc = "built" => reloads[r].cfg \in Configs
           /\ reloads[r].pc # "built" => reloads[r].cfg = NoConfig
BY DEF TypeOK, ReloadStates

\* Only the policy API's requests advance through api.
LEMMA ApiStepType ==
    ASSUME TypeOK, NEW a \in Apis, NEW pc \in {"opened", "written", "renamed"},
           api[a].pc \in {"built", "opened", "written"}, ApiStep(a, pc)
    PROVE  api' \in [Apis -> ApiStates]
BY ApiFacts DEF TypeOK, ApiStep, ApiStates

\* broker-ctl's own steps keep the type of its state.
LEMMA CtlStepType ==
    ASSUME TypeOK, NEW c \in Ctls, NEW pc \in {"opened", "written"},
           ctl[c].pc # "idle", ctl' = [ctl EXCEPT ![c].pc = pc]
    PROVE  ctl' \in [Ctls -> CtlStates]
BY CtlFacts DEF TypeOK, CtlStates

\* The idle states are of their types.
LEMMA IdleTypes ==
    IdleApi \in ApiStates /\ IdleCtl \in CtlStates /\ IdleReload \in ReloadStates
BY DEF IdleApi, IdleCtl, IdleReload, ApiStates, CtlStates, ReloadStates

\* A swap keeps the types of the policy in force and of its history.
LEMMA ApplyType ==
    ASSUME TypeOK, NEW c \in Configs, NEW seen, NEW corrected, Apply(c, seen, corrected)
    PROVE  /\ running' \in Configs \cup {Down}
           /\ behind' \in SUBSET {"overtaken", "key failed", "changed at start"}
BY DEF TypeOK, Apply

\* The bounds hold after a counted step.
LEMMA CounterStep ==
    ASSUME NEW m \in Nat, NEW n \in 0..m, n < m
    PROVE  n + 1 \in 0..m
OBVIOUS

\* Every step keeps the types; the history of the API's edits needs WantInv.
LEMMA TypeStep == TypeOK /\ WantInv /\ DownInv /\ [Next]_vars => TypeOK'
<1> SUFFICES ASSUME TypeOK, WantInv, DownInv, [Next]_vars PROVE TypeOK'
  OBVIOUS
<1> USE SignerConfigAssumption, IdleTypes
<1>1. ASSUME NEW a \in Apis, handlePolicyAllow(a) PROVE TypeOK'
  <2>1. PICK e \in Edits :
          api' = [api EXCEPT ![a] = [pc |-> "queued", req |-> e, cfg |-> NoConfig]]
    BY <1>1 DEF handlePolicyAllow
  <2>2. [pc |-> "queued", req |-> e, cfg |-> NoConfig] \in ApiStates
    BY DEF ApiStates
  <2>3. api' \in [Apis -> ApiStates]
    BY <2>1, <2>2 DEF TypeOK
  <2>4. changes' \in 0..MaxChanges
    BY <1>1, CounterStep DEF handlePolicyAllow, TypeOK
  <2> QED
    BY <1>1, <2>3, <2>4 DEF handlePolicyAllow, TypeOK
<1>2. ASSUME NEW a \in Apis, mutateAllowRead(a) PROVE TypeOK'
  <2>1. want' \in Configs \cup {NoConfig}
    BY <1>2 DEF mutateAllowRead, TypeOK
  <2>2. api[a].req \in Edits
    BY <1>2, ApiFacts DEF mutateAllowRead
  <2>3. api' \in [Apis -> ApiStates]
    <3>1. CASE api' = [api EXCEPT ![a] = IdleApi]
      BY <3>1 DEF TypeOK
    <3>2. CASE EditBuilds(file, api[a].req) /\
               api' = [api EXCEPT ![a].pc = "built", ![a].cfg = editAllow(file, api[a].req)]
      <4>1. editAllow(file, api[a].req) \in Configs
        BY <2>2, <3>2, EditAllowType DEF EditBuilds
      <4>2. [api[a] EXCEPT !.pc = "built", !.cfg = editAllow(file, api[a].req)] \in ApiStates
        BY <2>2, <4>1, ApiFacts DEF ApiStates
      <4>3. api' = [api EXCEPT ![a] = [api[a] EXCEPT !.pc = "built",
                                           !.cfg = editAllow(file, api[a].req)]]
        BY <3>2 DEF TypeOK
      <4> QED
        BY <4>2, <4>3 DEF TypeOK
    <3> QED
      BY <1>2, <3>1, <3>2 DEF mutateAllowRead
  <2> QED
    BY <1>2, <2>1, <2>3 DEF mutateAllowRead, TypeOK
<1>3. ASSUME NEW a \in Apis, mutateAllowOpen(a) PROVE TypeOK'
  <2>1. api' \in [Apis -> ApiStates]
    BY <1>3, ApiStepType DEF mutateAllowOpen
  <2> QED
    BY <1>3, <2>1 DEF mutateAllowOpen, OpenTmp, TypeOK, Contents, Writers
<1>4. ASSUME NEW a \in Apis, mutateAllowWrite(a) PROVE TypeOK'
  <2>1. api' \in [Apis -> ApiStates]
    BY <1>4, ApiStepType DEF mutateAllowWrite
  <2>2. api[a].cfg \in Configs /\ a \in Writers
    BY <1>4, ApiFacts DEF mutateAllowWrite, Writers
  <2>3. /\ file' \in Contents
        /\ tmp' \in Contents \cup {NoFile}
        /\ handle' \in [Writers -> {"none", "tmp", "file", "lost"}]
        /\ changed' \in BOOLEAN
    BY <1>4, <2>2, WriteOpenedType DEF mutateAllowWrite
  <2> QED
    BY <1>4, <2>1, <2>3 DEF mutateAllowWrite, TypeOK
<1>5. ASSUME NEW a \in Apis, mutateAllowRename(a) PROVE TypeOK'
  <2>1. CASE RenameTmp /\ ApiStep(a, "renamed")
             /\ want' = IF want = NoConfig THEN want ELSE editAllow(want, api[a].req)
    <3>1. api' \in [Apis -> ApiStates]
      BY <1>5, <2>1, ApiStepType DEF mutateAllowRename
    <3>2. api[a].cfg \in Configs
      BY <1>5, ApiFacts DEF mutateAllowRename
    <3>3. want' \in Configs \cup {NoConfig}
      BY <1>5, <2>1, <3>2 DEF mutateAllowRename, WantInv
    <3> QED
      BY <1>5, <2>1, <3>1, <3>3, RenameTmpType DEF mutateAllowRename, TypeOK
  <2>2. CASE RenameFails /\ api' = [api EXCEPT ![a] = IdleApi] /\ UNCHANGED want
    BY <1>5, <2>2 DEF mutateAllowRename, RenameFails, TypeOK
  <2> QED
    BY <1>5, <2>1, <2>2 DEF mutateAllowRename
<1>6. ASSUME NEW a \in Apis, mutateAllowSwap(a) PROVE TypeOK'
  <2>1. api[a].cfg \in Configs /\ running \in Configs
    BY <1>6, ApiFacts DEF mutateAllowSwap, DownInv, TypeOK
  <2>2. [api[a].cfg EXCEPT !.sign_rate = running.sign_rate] \in Configs
    BY <2>1 DEF Configs
  <2>3. /\ running' \in Configs \cup {Down}
        /\ behind' \in SUBSET {"overtaken", "key failed", "changed at start"}
    BY <1>6, <2>2, ApplyType DEF mutateAllowSwap
  <2> QED
    BY <1>6, <2>3 DEF mutateAllowSwap, TypeOK
<1>7. ASSUME NEW c \in Ctls, ctlRead(c) PROVE TypeOK'
  <2>1. PICK k \in Commands : ctl' = [ctl EXCEPT ![c] = [pc |-> "edited", cfg |-> ctlEdit(file, k)]]
    BY <1>7 DEF ctlRead
  <2>2. ctlEdit(file, k) \in Configs
    BY <1>7, CtlEditType DEF ctlRead
  <2>3. [pc |-> "edited", cfg |-> ctlEdit(file, k)] \in CtlStates
    BY <2>2 DEF CtlStates
  <2>4. ctl' \in [Ctls -> CtlStates]
    BY <2>1, <2>3 DEF TypeOK
  <2>5. changes' \in 0..MaxChanges
    BY <1>7, CounterStep DEF ctlRead, TypeOK
  <2> QED
    BY <1>7, <2>4, <2>5 DEF ctlRead, TypeOK
<1>8. ASSUME NEW c \in Ctls, ctlOpen(c) PROVE TypeOK'
  <2>1. ctl' \in [Ctls -> CtlStates]
    BY <1>8, CtlStepType DEF ctlOpen
  <2> QED
    BY <1>8, <2>1 DEF ctlOpen, OpenTmp, TypeOK, Contents, Writers
<1>9. ASSUME NEW c \in Ctls, ctlWrite(c) PROVE TypeOK'
  <2>1. ctl' \in [Ctls -> CtlStates]
    BY <1>9, CtlStepType DEF ctlWrite
  <2>2. ctl[c].cfg \in Configs /\ c \in Writers
    BY <1>9, CtlFacts DEF ctlWrite, Writers
  <2>3. /\ file' \in Contents
        /\ tmp' \in Contents \cup {NoFile}
        /\ handle' \in [Writers -> {"none", "tmp", "file", "lost"}]
        /\ changed' \in BOOLEAN
    BY <1>9, <2>2, WriteOpenedType DEF ctlWrite
  <2> QED
    BY <1>9, <2>1, <2>3 DEF ctlWrite, TypeOK
<1>10. ASSUME NEW c \in Ctls, ctlRename(c) PROVE TypeOK'
  <2>1. CASE RenameTmp
    BY <1>10, <2>1, RenameTmpType DEF ctlRename, TypeOK
  <2>2. CASE RenameFails
    BY <1>10, <2>2 DEF ctlRename, RenameFails, TypeOK
  <2> QED
    BY <1>10, <2>1, <2>2 DEF ctlRename
<1>11. CASE EditorOpens
  <2>1. changes' \in 0..MaxChanges
    BY <1>11, CounterStep DEF EditorOpens, TypeOK
  <2>2. handle' \in [Writers -> {"none", "tmp", "file", "lost"}]
    BY <1>11 DEF EditorOpens, TypeOK, Writers
  <2> QED
    BY <1>11, <2>1, <2>2 DEF EditorOpens, TypeOK, Contents
<1>12. CASE EditorWrites
  <2>1. editor \in Configs /\ Editor \in Writers
    BY <1>12 DEF EditorWrites, TypeOK, Writers
  <2>2. /\ file' \in Contents
        /\ tmp' \in Contents \cup {NoFile}
        /\ handle' \in [Writers -> {"none", "tmp", "file", "lost"}]
        /\ changed' \in BOOLEAN
    BY <1>12, <2>1, WriteOpenedType DEF EditorWrites
  <2> QED
    BY <1>12, <2>2 DEF EditorWrites, TypeOK
<1>13. ASSUME NEW r \in Requesters, RequestReload(r) PROVE TypeOK'
  <2>1. reloads[r] \in ReloadStates /\ reloads[r].cfg = NoConfig
    BY <1>13, ReloadFacts DEF RequestReload, Reloaders
  <2>2. [reloads[r] EXCEPT !.pc = "asked"] \in ReloadStates
    BY <2>1 DEF ReloadStates
  <2> QED
    BY <1>13, <2>2 DEF RequestReload, TypeOK, Reloaders
<1>14. CASE watchArms
  <2>1. reloads[Watch] \in ReloadStates /\ reloads[Watch].cfg = NoConfig
    BY <1>14, ReloadFacts DEF watchArms, Reloaders
  <2>2. [reloads[Watch] EXCEPT !.pc = "idle"] \in ReloadStates
    BY <2>1 DEF ReloadStates
  <2> QED
    BY <1>14, <2>2 DEF watchArms, TypeOK, Reloaders
<1>15. CASE watchTick
  <2>1. reloads[Watch] \in ReloadStates /\ reloads[Watch].cfg = NoConfig
    BY <1>15, ReloadFacts DEF watchTick, Reloaders
  <2>2. [reloads[Watch] EXCEPT !.pc = "asked"] \in ReloadStates
    BY <2>1 DEF ReloadStates
  <2> QED
    BY <1>15, <2>2 DEF watchTick, TypeOK, Reloaders
<1>16. ASSUME NEW r \in Reloaders, reloadRead(r) PROVE TypeOK'
  <2>1. Loadable(file) => [pc |-> "built", cfg |-> file] \in ReloadStates
    BY DEF Loadable, ReloadStates
  <2>2. reloads' \in [Reloaders -> ReloadStates]
    BY <1>16, <2>1 DEF reloadRead, TypeOK
  <2>3. behind' \in SUBSET {"overtaken", "key failed", "changed at start"}
    BY <1>16 DEF reloadRead, TypeOK
  <2> QED
    BY <1>16, <2>2, <2>3 DEF reloadRead, TypeOK
<1>17. ASSUME NEW r \in Reloaders, reloadSwap(r) PROVE TypeOK'
  <2>1. reloads[r].cfg \in Configs
    BY <1>17, ReloadFacts DEF reloadSwap
  <2>2. /\ running' \in Configs \cup {Down}
        /\ behind' \in SUBSET {"overtaken", "key failed", "changed at start"}
    BY <1>17, <2>1, ApplyType DEF reloadSwap
  <2> QED
    BY <1>17, <2>2 DEF reloadSwap, TypeOK
<1>18. CASE Start
  <2>1. reloads[Watch] \in ReloadStates /\ reloads[Watch].cfg = NoConfig
    BY <1>18, ReloadFacts DEF Start, DownInv, Reloaders
  <2>2. [reloads[Watch] EXCEPT !.pc = "unarmed"] \in ReloadStates
    BY <2>1 DEF ReloadStates
  <2> QED
    BY <1>18, <2>2 DEF Start, Loadable, TypeOK, Reloaders
<1>19. CASE Crash
  <2>1. crashes' \in 0..MaxCrashes
    BY <1>19, CounterStep DEF Crash, TypeOK
  <2>2. handle' \in [Writers -> {"none", "tmp", "file", "lost"}]
    BY <1>19 DEF Crash, TypeOK
  <2> QED
    BY <1>19, <2>1, <2>2 DEF Crash, TypeOK
<1>20. CASE UNCHANGED vars
  BY <1>20 DEF vars, TypeOK, Contents
<1> QED
  BY <1>1, <1>2, <1>3, <1>4, <1>5, <1>6, <1>7, <1>8, <1>9, <1>10, <1>11, <1>12, <1>13,
     <1>14, <1>15, <1>16, <1>17, <1>18, <1>19, <1>20
  DEF Next, ApiWork, CtlWork, ReloadWork

-----------------------------------------------------------------------------
(* Each part of the invariant is preserved.                                *)

\* What a request that was just accepted changes.
LEMMA QueuedFacts ==
    ASSUME TypeOK, NEW a \in Apis, handlePolicyAllow(a)
    PROVE  api'[a].pc = "queued" /\ \A b \in Apis : b # a => api'[b] = api[b]
<1>1. PICK e \in Edits :
        api' = [api EXCEPT ![a] = [pc |-> "queued", req |-> e, cfg |-> NoConfig]]
  BY DEF handlePolicyAllow
<1>2. api' = [b \in Apis |-> IF b = a THEN [pc |-> "queued", req |-> e, cfg |-> NoConfig] ELSE api[b]]
  BY <1>1 DEF TypeOK
<1> QED
  BY <1>2

\* A step of the API that only moves on changes one program counter.
LEMMA ApiStepFacts ==
    ASSUME TypeOK, NEW a \in Apis, NEW pc, ApiStep(a, pc)
    PROVE  /\ \A b \in Apis : b # a => api'[b] = api[b]
           /\ api'[a].pc = pc /\ api'[a].cfg = api[a].cfg /\ api'[a].req = api[a].req
<1>1. api[a] \in ApiStates
  BY ApiFacts
<1>2. api' = [b \in Apis |-> IF b = a THEN [api[a] EXCEPT !.pc = pc] ELSE api[b]]
  BY DEF TypeOK, ApiStep
<1> QED
  BY <1>1, <1>2 DEF ApiStates

\* What the steps up to the rename change of the requests.
LEMMA WritingFacts ==
    ASSUME TypeOK, NEW a \in Apis,
           mutateAllowOpen(a) \/ mutateAllowWrite(a) \/ mutateAllowRename(a)
    PROVE  /\ \A b \in Apis : b # a => api'[b] = api[b]
           /\ Holding(a)
           /\ api'[a] = IdleApi \/ (api'[a].cfg = api[a].cfg /\ api'[a].req = api[a].req)
<1>1. CASE api' = [api EXCEPT ![a] = IdleApi]
  BY <1>1 DEF TypeOK, Holding, mutateAllowOpen, mutateAllowWrite, mutateAllowRename
<1>2. ASSUME NEW pc, ApiStep(a, pc)
      PROVE  /\ \A b \in Apis : b # a => api'[b] = api[b]
             /\ api'[a].cfg = api[a].cfg /\ api'[a].req = api[a].req
  BY <1>2, ApiStepFacts
<1> QED
  BY <1>1, <1>2 DEF Holding, mutateAllowOpen, mutateAllowWrite, mutateAllowRename

\* A reload that is asked for or noticed has built nothing yet.
LEMMA AskedFacts ==
    ASSUME TypeOK, NEW r \in Reloaders, NEW pc, pc # "built",
           reloads' = [reloads EXCEPT ![r].pc = pc]
    PROVE  reloads'[r].pc = pc /\ \A q \in Reloaders : q # r => reloads'[q] = reloads[q]
<1>1. reloads[r] \in ReloadStates
  BY ReloadFacts
<1>2. reloads' = [q \in Reloaders |-> IF q = r THEN [reloads[r] EXCEPT !.pc = pc] ELSE reloads[q]]
  BY DEF TypeOK
<1> QED
  BY <1>1, <1>2 DEF ReloadStates

\* A step of the API leaves writeMu to one request.
LEMMA MutexStep == TypeOK /\ MutexInv /\ [Next]_vars => MutexInv'
<1> SUFFICES ASSUME TypeOK, MutexInv, [Next]_vars PROVE MutexInv'
  OBVIOUS
<1> USE DEF MutexInv, Holding
<1>1. ASSUME NEW a \in Apis, handlePolicyAllow(a) PROVE MutexInv'
  <2>1. api'[a].pc = "queued" /\ \A b \in Apis : b # a => api'[b] = api[b]
    BY <1>1, QueuedFacts
  <2> QED
    BY <2>1
<1>2. ASSUME NEW a \in Apis, mutateAllowRead(a) PROVE MutexInv'
  <2>1. \A b \in Apis : ~Holding(b)
    BY <1>2 DEF mutateAllowRead, WriteMuFree
  <2>2. \A b \in Apis : b # a => api'[b] = api[b]
    BY <1>2 DEF mutateAllowRead, TypeOK
  <2> QED
    BY <2>1, <2>2
<1>3. ASSUME NEW a \in Apis,
             mutateAllowOpen(a) \/ mutateAllowWrite(a) \/ mutateAllowRename(a) \/ mutateAllowSwap(a)
      PROVE  MutexInv'
  <2>1. Holding(a)
    BY <1>3 DEF mutateAllowOpen, mutateAllowWrite, mutateAllowRename, mutateAllowSwap
  <2>2. \A b \in Apis : b # a => api'[b] = api[b]
    BY <1>3 DEF mutateAllowOpen, mutateAllowWrite, mutateAllowRename, mutateAllowSwap, ApiStep, TypeOK
  <2> QED
    BY <2>1, <2>2
<1>4. CASE Crash
  BY <1>4 DEF Crash, IdleApi
<1>5. CASE UNCHANGED api
  BY <1>5
<1> QED
  BY <1>1, <1>2, <1>3, <1>4, <1>5
  DEF Next, ApiWork, CtlWork, ReloadWork, vars, ctlRead, ctlOpen, ctlWrite, ctlRename,
      EditorOpens, EditorWrites, RequestReload, watchArms, watchTick, reloadRead, reloadSwap, Start

\* Requests and reloads are under way only in a process that runs.
LEMMA DownStep == TypeOK /\ DownInv /\ [Next]_vars => DownInv'
<1> SUFFICES ASSUME TypeOK, DownInv, [Next]_vars PROVE DownInv'
  OBVIOUS
<1> USE DEF DownInv
<1>1. ASSUME NEW a \in Apis, handlePolicyAllow(a) PROVE DownInv'
  BY <1>1 DEF handlePolicyAllow
<1>2. ASSUME NEW a \in Apis, ApiWork(a) PROVE DownInv'
  <2>1. api[a].pc # "idle"
    BY <1>2 DEF ApiWork, mutateAllowRead, mutateAllowOpen, mutateAllowWrite, mutateAllowRename,
                mutateAllowSwap
  <2>2. running # Down
    BY <2>1
  <2>3. CASE mutateAllowSwap(a)
    <3>1. api[a].cfg \in Configs /\ running \in Configs
      BY <2>2, <2>3, ApiFacts DEF mutateAllowSwap, TypeOK
    <3>2. running' \in Configs
      BY <2>3, <3>1 DEF mutateAllowSwap, Apply, Configs
    <3> QED
      BY <3>2, SignerConfigAssumption
  <2>4. CASE UNCHANGED running
    BY <2>2, <2>4
  <2> QED
    BY <1>2, <2>3, <2>4
    DEF ApiWork, mutateAllowRead, mutateAllowOpen, mutateAllowWrite, mutateAllowRename
<1>3. ASSUME NEW r \in Requesters, RequestReload(r) PROVE DownInv'
  BY <1>3 DEF RequestReload
<1>4. CASE watchArms
  <2>1. running # Down
    BY <1>4 DEF watchArms, Reloaders
  <2> QED
    BY <1>4, <2>1 DEF watchArms
<1>5. CASE watchTick
  BY <1>5 DEF watchTick
<1>6. ASSUME NEW r \in Reloaders, reloadRead(r) PROVE DownInv'
  BY <1>6 DEF reloadRead
<1>7. ASSUME NEW r \in Reloaders, reloadSwap(r) PROVE DownInv'
  <2>1. reloads[r].cfg \in Configs
    BY <1>7, ReloadFacts DEF reloadSwap
  <2>2. running' \in Configs
    BY <1>7, <2>1 DEF reloadSwap, Apply
  <2> QED
    BY <2>2, SignerConfigAssumption
<1>8. CASE Start
  BY <1>8, SignerConfigAssumption DEF Start, Loadable
<1>9. CASE Crash
  BY <1>9 DEF Crash, IdleApi, IdleReload
<1>10. CASE UNCHANGED <<running, api, reloads>>
  BY <1>10
<1> QED
  BY <1>1, <1>2, <1>3, <1>4, <1>5, <1>6, <1>7, <1>8, <1>9, <1>10
  DEF Next, CtlWork, ReloadWork, vars, ctlRead, ctlOpen, ctlWrite, ctlRename, EditorOpens,
      EditorWrites

\* The rate plays no part in buildState.
LEMMA RateIsNotBuilt ==
    ASSUME NEW c \in Configs, NEW n, buildState(c)
    PROVE  buildState([c EXCEPT !.sign_rate = n])
<1>1. /\ [c EXCEPT !.sign_rate = n].hosts = c.hosts
      /\ [c EXCEPT !.sign_rate = n].ca_keys = c.ca_keys
  BY DEF Configs
<1> QED
  BY <1>1 DEF buildState

\* LastGoodKept's strengthening is kept: everything held between building and swapping
\* passed buildState (mutateAllow, reload).
LEMMA BuiltStep == TypeOK /\ DownInv /\ BuiltInv /\ [Next]_vars => BuiltInv'
<1> SUFFICES ASSUME TypeOK, DownInv, BuiltInv, [Next]_vars PROVE BuiltInv'
  OBVIOUS
<1> USE DEF BuiltInv, Holding
<1>1. ASSUME NEW a \in Apis, handlePolicyAllow(a) PROVE BuiltInv'
  <2>1. api'[a].pc = "queued" /\ \A b \in Apis : b # a => api'[b] = api[b]
    BY <1>1, QueuedFacts
  <2>2. UNCHANGED <<running, reloads>>
    BY <1>1 DEF handlePolicyAllow
  <2> QED
    BY <2>1, <2>2
<1>2. ASSUME NEW a \in Apis, mutateAllowRead(a) PROVE BuiltInv'
  <2>1. \A b \in Apis : b # a => api'[b] = api[b]
    BY <1>2 DEF mutateAllowRead, TypeOK
  <2>2. api'[a].pc = "idle" \/ buildState(api'[a].cfg)
    <3>1. CASE api' = [api EXCEPT ![a] = IdleApi]
      BY <3>1 DEF TypeOK, IdleApi
    <3>2. CASE EditBuilds(file, api[a].req) /\
               api' = [api EXCEPT ![a].pc = "built", ![a].cfg = editAllow(file, api[a].req)]
      <4>1. api'[a].cfg = editAllow(file, api[a].req)
        BY <3>2, ApiFacts DEF TypeOK, ApiStates
      <4> QED
        BY <3>2, <4>1 DEF EditBuilds
    <3> QED
      BY <1>2, <3>1, <3>2 DEF mutateAllowRead
  <2> QED
    BY <1>2, <2>1, <2>2 DEF mutateAllowRead
<1>3. ASSUME NEW a \in Apis, mutateAllowOpen(a) \/ mutateAllowWrite(a) \/ mutateAllowRename(a)
      PROVE  BuiltInv'
  <2>1. /\ \A b \in Apis : b # a => api'[b] = api[b]
        /\ Holding(a)
        /\ api'[a].pc = "idle" \/ api'[a].cfg = api[a].cfg
    BY <1>3, WritingFacts DEF IdleApi
  <2>2. UNCHANGED <<running, reloads>>
    BY <1>3 DEF mutateAllowOpen, mutateAllowWrite, mutateAllowRename
  <2> QED
    BY <2>1, <2>2
<1>4. ASSUME NEW a \in Apis, mutateAllowSwap(a) PROVE BuiltInv'
  <2>1. api[a].cfg \in Configs /\ buildState(api[a].cfg)
    BY <1>4, ApiFacts DEF mutateAllowSwap
  <2>2. buildState(running')
    BY <1>4, <2>1, RateIsNotBuilt DEF mutateAllowSwap, Apply
  <2> QED
    BY <1>4, <2>2 DEF mutateAllowSwap, TypeOK, IdleApi
<1>5. ASSUME NEW r \in Requesters, RequestReload(r) PROVE BuiltInv'
  <2>1. r \in Reloaders /\ reloads' = [reloads EXCEPT ![r].pc = "asked"]
    BY <1>5 DEF RequestReload, Reloaders
  <2> QED
    BY <1>5, <2>1, AskedFacts DEF RequestReload
<1>6. CASE watchArms \/ watchTick
  <2>1. PICK pc \in {"idle", "asked"} : reloads' = [reloads EXCEPT ![Watch].pc = pc]
    BY <1>6 DEF watchArms, watchTick
  <2>2. Watch \in Reloaders
    BY DEF Reloaders
  <2>3. UNCHANGED <<running, api>>
    BY <1>6 DEF watchArms, watchTick
  <2> QED
    BY <2>1, <2>2, <2>3, AskedFacts
<1>7. ASSUME NEW r \in Reloaders, reloadRead(r) PROVE BuiltInv'
  <2>1. \A q \in Reloaders : q # r => reloads'[q] = reloads[q]
    BY <1>7 DEF reloadRead, TypeOK
  <2>2. reloads'[r].pc = "idle" \/ buildState(reloads'[r].cfg)
    <3>1. \/ reloads'[r] = IdleReload
          \/ buildState(file) /\ reloads'[r] = [pc |-> "built", cfg |-> file]
      BY <1>7 DEF reloadRead, TypeOK, Loadable
    <3> QED
      BY <3>1 DEF IdleReload
  <2> QED
    BY <1>7, <2>1, <2>2 DEF reloadRead
<1>8. ASSUME NEW r \in Reloaders, reloadSwap(r) PROVE BuiltInv'
  <2>1. buildState(running')
    BY <1>8 DEF reloadSwap, Apply
  <2> QED
    BY <1>8, <2>1 DEF reloadSwap, TypeOK, IdleReload
<1>9. CASE Start
  <2>1. Watch \in Reloaders /\ reloads' = [reloads EXCEPT ![Watch].pc = "unarmed"]
    BY <1>9 DEF Start, Reloaders
  <2> QED
    BY <1>9, <2>1, AskedFacts DEF Start, Loadable
<1>10. CASE Crash
  BY <1>10 DEF Crash, IdleApi, IdleReload
<1>11. CASE UNCHANGED <<running, api, reloads>>
  BY <1>11
<1> QED
  BY <1>1, <1>2, <1>3, <1>4, <1>5, <1>6, <1>7, <1>8, <1>9, <1>10, <1>11
  DEF Next, ApiWork, CtlWork, ReloadWork, vars, ctlRead, ctlOpen, ctlWrite, ctlRename,
      EditorOpens, EditorWrites

\* The edits of the API add up: each is made to the file the previous one left.
LEMMA WantStep == TypeOK /\ MutexInv /\ WantInv /\ [Next]_vars => WantInv'
<1> SUFFICES ASSUME TypeOK, MutexInv, WantInv, [Next]_vars, want' # NoConfig
             PROVE  /\ file' = want'
                    /\ ~Outsiders'
                    /\ \A b \in Apis :
                          /\ api'[b].pc \in {"built", "opened", "written"}
                                => api'[b].cfg = editAllow(file', api'[b].req)
                          /\ api'[b].pc = "opened" => handle'[b] = "tmp" /\ tmp' = Empty
                          /\ api'[b].pc = "written" => tmp' = api'[b].cfg
  BY DEF WantInv
<1> DEFINE Goal == /\ file' = want'
                   /\ ~Outsiders'
                   /\ \A b \in Apis :
                          /\ api'[b].pc \in {"built", "opened", "written"}
                                => api'[b].cfg = editAllow(file', api'[b].req)
                          /\ api'[b].pc = "opened" => handle'[b] = "tmp" /\ tmp' = Empty
                          /\ api'[b].pc = "written" => tmp' = api'[b].cfg
<1>1. ASSUME NEW a \in Apis, handlePolicyAllow(a) PROVE Goal
  <2>1. api'[a].pc = "queued" /\ \A b \in Apis : b # a => api'[b] = api[b]
    BY <1>1, QueuedFacts
  <2> QED
    BY <1>1, <2>1 DEF handlePolicyAllow, WantInv, Outsiders
<1>2. ASSUME NEW a \in Apis, mutateAllowRead(a) PROVE Goal
  <2>1. \A b \in Apis : api[b].pc \in {"idle", "queued"}
    BY <1>2 DEF mutateAllowRead, WriteMuFree
  <2>2. \A b \in Apis : b # a => api'[b] = api[b]
    BY <1>2 DEF mutateAllowRead, TypeOK
  <2>3. file = want' /\ ~Outsiders
    BY <1>2 DEF mutateAllowRead, WantInv
  <2>4. \/ api'[a] = IdleApi
        \/ /\ api'[a].pc = "built"
           /\ api'[a].cfg = editAllow(file, api[a].req)
           /\ api'[a].req = api[a].req
    <3>1. CASE api' = [api EXCEPT ![a] = IdleApi]
      BY <3>1 DEF TypeOK
    <3>2. CASE api' = [api EXCEPT ![a].pc = "built", ![a].cfg = editAllow(file, api[a].req)]
      BY <3>2, ApiFacts DEF TypeOK, ApiStates
    <3> QED
      BY <1>2, <3>1, <3>2 DEF mutateAllowRead
  <2> QED
    BY <1>2, <2>1, <2>2, <2>3, <2>4 DEF mutateAllowRead, IdleApi, Outsiders
<1>3. ASSUME NEW a \in Apis, mutateAllowOpen(a) PROVE Goal
  <2>1. /\ \A b \in Apis : b # a => api'[b] = api[b] /\ ~Holding(b)
        /\ api'[a].cfg = api[a].cfg /\ api'[a].req = api[a].req /\ api'[a].pc = "opened"
    <3>1. ApiStep(a, "opened") /\ Holding(a)
      BY <1>3 DEF mutateAllowOpen, Holding
    <3> QED
      BY <3>1, ApiStepFacts DEF MutexInv
  <2>2. handle'[a] = "tmp" /\ tmp' = Empty
    BY <1>3 DEF mutateAllowOpen, OpenTmp, TypeOK, Writers
  <2>3. file' = file /\ want' = want /\ ~Outsiders' /\ api[a].pc = "built"
    BY <1>3 DEF mutateAllowOpen, WantInv, Outsiders
  <2> QED
    BY <2>1, <2>2, <2>3 DEF WantInv, Holding
<1>4. ASSUME NEW a \in Apis, mutateAllowWrite(a) PROVE Goal
  <2>1. /\ \A b \in Apis : b # a => api'[b] = api[b] /\ ~Holding(b)
        /\ api'[a].cfg = api[a].cfg /\ api'[a].req = api[a].req /\ api'[a].pc = "written"
    <3>1. ApiStep(a, "written") /\ Holding(a)
      BY <1>4 DEF mutateAllowWrite, Holding
    <3> QED
      BY <3>1, ApiStepFacts DEF MutexInv
  <2>2. want' = want /\ ~Outsiders' /\ api[a].pc = "opened"
    BY <1>4 DEF mutateAllowWrite, WantInv, Outsiders
  <2>3. handle[a] = "tmp" /\ tmp = Empty
    BY <2>2 DEF WantInv
  <2>4. tmp' = api[a].cfg /\ file' = file
    BY <1>4, <2>3 DEF mutateAllowWrite, WriteOpened, Over
  <2> QED
    BY <2>1, <2>2, <2>4 DEF WantInv, Holding
<1>5. ASSUME NEW a \in Apis, mutateAllowRename(a) PROVE Goal
  <2>1. want # NoConfig
    BY <1>5 DEF mutateAllowRename
  <2>2. api[a].cfg = editAllow(want, api[a].req) /\ tmp = api[a].cfg /\ ~Outsiders
    BY <1>5, <2>1 DEF mutateAllowRename, WantInv
  <2>3. tmp # NoFile
    BY <1>5, <2>2, ApiFacts, SignerConfigAssumption DEF mutateAllowRename
  <2>4. RenameTmp /\ ApiStep(a, "renamed") /\ want' = editAllow(want, api[a].req)
    BY <1>5, <2>1, <2>3 DEF mutateAllowRename, RenameFails
  <2>5. file' = want'
    BY <2>2, <2>4 DEF RenameTmp
  <2>6. \A b \in Apis : api'[b].pc \notin {"built", "opened", "written"}
    <3>1. \A b \in Apis : b # a => api'[b] = api[b] /\ ~Holding(b)
      BY <1>5, WritingFacts DEF MutexInv
    <3>2. api'[a].pc = "renamed"
      BY <2>4, ApiFacts DEF ApiStep, TypeOK, ApiStates
    <3> QED
      BY <3>1, <3>2 DEF Holding
  <2> QED
    BY <1>5, <2>2, <2>5, <2>6 DEF mutateAllowRename, Outsiders
<1>6. ASSUME NEW a \in Apis, mutateAllowSwap(a) PROVE Goal
  <2>1. api'[a] = IdleApi /\ \A b \in Apis : b # a => api'[b] = api[b]
    BY <1>6 DEF mutateAllowSwap, TypeOK
  <2> QED
    BY <1>6, <2>1 DEF mutateAllowSwap, WantInv, Outsiders, IdleApi
<1>7. ASSUME NEW c \in Ctls, ctlRead(c) \/ CtlWork(c) PROVE Goal
  BY <1>7 DEF CtlWork, ctlRead, ctlOpen, ctlWrite, ctlRename, WantInv, Outsiders
<1>8. CASE EditorOpens \/ EditorWrites
  BY <1>8 DEF EditorOpens, EditorWrites, WantInv, Outsiders
<1>9. CASE Crash
  <2>1. \A b \in Apis : api'[b].pc = "idle"
    BY <1>9 DEF Crash, IdleApi
  <2> QED
    BY <1>9, <2>1 DEF Crash, WantInv, Outsiders
<1>10. CASE UNCHANGED <<file, tmp, handle, api, ctl, editor, want>>
  BY <1>10 DEF WantInv, Outsiders
<1> QED
  BY <1>1, <1>2, <1>3, <1>4, <1>5, <1>6, <1>7, <1>8, <1>9, <1>10
  DEF Next, ApiWork, ReloadWork, vars, RequestReload, watchArms, watchTick, reloadRead,
      reloadSwap, Start

\* The watcher holds what the file holds, or knows that it changed.
LEMMA WatchStep == TypeOK /\ DownInv /\ WatchInv /\ [Next]_vars => WatchInv'
<1> SUFFICES ASSUME TypeOK, DownInv, WatchInv, [Next]_vars PROVE WatchInv'
  OBVIOUS
<1> USE DEF WatchInv
<1>0. Watch \in Reloaders
  BY DEF Reloaders
<1>1. ASSUME reloads'[Watch] = reloads[Watch], changed' = changed, file' = file PROVE WatchInv'
  BY <1>1
<1>2. ASSUME reloads'[Watch] = reloads[Watch], changed' PROVE WatchInv'
  BY <1>2
<1>3. ASSUME NEW a \in Apis, handlePolicyAllow(a) \/ ApiWork(a) PROVE WatchInv'
  BY <1>1, <1>2, <1>3
  DEF handlePolicyAllow, ApiWork, mutateAllowRead, mutateAllowOpen, mutateAllowWrite,
      mutateAllowRename, mutateAllowSwap, WriteOpened, RenameTmp, RenameFails
<1>4. ASSUME NEW c \in Ctls, ctlRead(c) \/ CtlWork(c) PROVE WatchInv'
  BY <1>1, <1>2, <1>4
  DEF CtlWork, ctlRead, ctlOpen, ctlWrite, ctlRename, WriteOpened, RenameTmp, RenameFails
<1>5. CASE EditorOpens \/ EditorWrites
  BY <1>1, <1>2, <1>5 DEF EditorOpens, EditorWrites, WriteOpened
<1>6. ASSUME NEW r \in Requesters, RequestReload(r) PROVE WatchInv'
  <2>1. r # Watch /\ r \in Reloaders
    BY SignerConfigAssumption DEF Watch, Reloaders
  <2>2. reloads'[Watch] = reloads[Watch]
    BY <1>0, <1>6, <2>1, AskedFacts DEF RequestReload
  <2> QED
    BY <1>1, <1>6, <2>2 DEF RequestReload
<1>7. CASE watchArms \/ watchTick
  <2>0. PICK pc \in {"idle", "asked"} : reloads' = [reloads EXCEPT ![Watch].pc = pc]
    BY <1>7 DEF watchArms, watchTick
  <2>1. reloads'[Watch].pc # "built"
    BY <1>0, <2>0, AskedFacts
  <2> QED
    BY <2>1
<1>8. ASSUME NEW r \in Reloaders, reloadRead(r) PROVE WatchInv'
  <2>1. CASE r = Watch
    <3>1. reloads'[Watch] = IdleReload \/ reloads'[Watch] = [pc |-> "built", cfg |-> file]
      BY <1>0, <1>8, <2>1 DEF reloadRead, TypeOK
    <3>2. file' = file
      BY <1>8 DEF reloadRead
    <3>3. CASE reloads'[Watch] = IdleReload
      BY <3>3 DEF IdleReload
    <3> QED
      BY <3>1, <3>2, <3>3
  <2>2. CASE r # Watch
    <3>1. reloads'[Watch] = reloads[Watch]
      BY <1>0, <1>8, <2>2 DEF reloadRead, TypeOK
    <3> QED
      BY <1>1, <1>8, <3>1 DEF reloadRead
  <2> QED
    BY <2>1, <2>2
<1>9. ASSUME NEW r \in Reloaders, reloadSwap(r) PROVE WatchInv'
  <2>1. reloads'[Watch] = IdleReload \/ reloads'[Watch] = reloads[Watch]
    BY <1>0, <1>9 DEF reloadSwap, TypeOK
  <2> QED
    BY <1>1, <1>9, <2>1 DEF reloadSwap, IdleReload
<1>10. CASE Start
  <2>1. reloads' = [reloads EXCEPT ![Watch].pc = "unarmed"]
    BY <1>10 DEF Start
  <2>2. reloads'[Watch].pc = "unarmed"
    BY <1>0, <2>1, AskedFacts
  <2> QED
    BY <2>2
<1>11. CASE Crash
  BY <1>0, <1>11 DEF Crash, IdleReload
<1>12. CASE UNCHANGED vars
  BY <1>1, <1>12 DEF vars
<1> QED
  BY <1>3, <1>4, <1>5, <1>6, <1>7, <1>8, <1>9, <1>10, <1>11, <1>12 DEF Next, ReloadWork

\* The signer is behind the file only for a reason.
LEMMA BehindStep == TypeOK /\ DownInv /\ WatchInv /\ BehindForAReason /\ [Next]_vars
                        => BehindForAReason'
<1> SUFFICES ASSUME TypeOK, DownInv, WatchInv, BehindForAReason, [Next]_vars
             PROVE  BehindForAReason'
  OBVIOUS
<1> USE DEF BehindForAReason, WatcherWillLoad
<1>0. Watch \in Reloaders
  BY DEF Reloaders
<1>1. ASSUME changed' PROVE BehindForAReason'
  BY <1>1
<1>2. ASSUME UNCHANGED <<file, running, behind, changed>>, reloads'[Watch] = reloads[Watch]
      PROVE  BehindForAReason'
  BY <1>2 DEF Loadable
<1>3. ASSUME NEW a \in Apis, handlePolicyAllow(a) PROVE BehindForAReason'
  BY <1>2, <1>3 DEF handlePolicyAllow
<1>4. ASSUME NEW a \in Apis, mutateAllowRead(a) \/ mutateAllowOpen(a) \/ mutateAllowWrite(a)
                                \/ mutateAllowRename(a)
      PROVE  BehindForAReason'
  BY <1>1, <1>2, <1>4 DEF mutateAllowRead, mutateAllowOpen, mutateAllowWrite, mutateAllowRename,
     OpenTmp, WriteOpened, RenameTmp, RenameFails
<1>5. ASSUME NEW a \in Apis, mutateAllowSwap(a) PROVE BehindForAReason'
  <2>1. UNCHANGED <<file, changed, reloads>>
    BY <1>5 DEF mutateAllowSwap
  <2>2. CASE WatcherWillLoad
    BY <2>1, <2>2
  <2>3. CASE ~WatcherWillLoad /\ file # running' /\ file = api[a].cfg
    <3>1. running # Down /\ behind' = behind
      BY <1>5, <2>3 DEF mutateAllowSwap, Apply, DownInv
    <3>2. SUFFICES ASSUME AutoReload, Loadable(file), behind = {} PROVE FALSE
      BY <2>1, <3>1 DEF Loadable
    <3>3. running = file
      BY <2>3, <3>1, <3>2
    <3>4. running \in Configs /\ running' = [running EXCEPT !.sign_rate = running.sign_rate]
      BY <1>5, <2>3, <3>1, <3>3 DEF mutateAllowSwap, Apply, TypeOK
    <3>5. running' = running
      BY <3>4 DEF Configs
    <3> QED
      BY <2>3, <3>3, <3>5
  <2>4. CASE ~WatcherWillLoad /\ file # running' /\ file # api[a].cfg
    <3>1. behind' = {"overtaken"}
      BY <1>5, <2>4 DEF mutateAllowSwap, Apply
    <3> QED
      BY <3>1
  <2>5. CASE file = running'
    BY <2>1, <2>5
  <2> QED
    BY <2>2, <2>3, <2>4, <2>5
<1>6. ASSUME NEW c \in Ctls, ctlRead(c) \/ CtlWork(c) PROVE BehindForAReason'
  BY <1>1, <1>2, <1>6 DEF CtlWork, ctlRead, ctlOpen, ctlWrite, ctlRename, OpenTmp, WriteOpened,
     RenameTmp, RenameFails
<1>7. CASE EditorOpens \/ EditorWrites
  BY <1>1, <1>2, <1>7 DEF EditorOpens, EditorWrites, WriteOpened
<1>8. ASSUME NEW r \in Requesters, RequestReload(r) PROVE BehindForAReason'
  <2>1. r # Watch /\ r \in Reloaders
    BY SignerConfigAssumption DEF Watch, Reloaders
  <2>2. reloads'[Watch] = reloads[Watch]
    BY <1>0, <1>8, <2>1, AskedFacts DEF RequestReload
  <2> QED
    BY <1>2, <1>8, <2>2 DEF RequestReload
<1>9. CASE watchArms
  <2>1. CASE changed
    BY <1>9, <2>1 DEF watchArms
  <2>2. CASE ~changed
    <3>1. reloads[Watch].pc = "unarmed" /\ UNCHANGED <<file, running>> /\ behind' = behind
      BY <1>9, <2>2 DEF watchArms
    <3> QED
      BY <2>2, <3>1 DEF Loadable
  <2> QED
    BY <2>1, <2>2
<1>10. CASE watchTick
  <2>1. reloads' = [reloads EXCEPT ![Watch].pc = "asked"]
    BY <1>10 DEF watchTick
  <2>2. reloads'[Watch].pc = "asked"
    BY <1>0, <2>1, AskedFacts
  <2> QED
    BY <2>2
<1>11. ASSUME NEW r \in Reloaders, reloadRead(r) PROVE BehindForAReason'
  <2>1. UNCHANGED <<file, running, changed>>
    BY <1>11 DEF reloadRead
  <2>2. CASE r # Watch
    <3>1. reloads'[Watch] = reloads[Watch]
      BY <1>0, <1>11, <2>2 DEF reloadRead, TypeOK
    <3>2. behind' = behind
      BY <1>11, <2>2 DEF reloadRead
    <3> QED
      BY <1>2, <2>1, <3>1, <3>2
  <2>3. CASE r = Watch /\ reloads' = [reloads EXCEPT ![r] = [pc |-> "built", cfg |-> file]]
    BY <1>0, <2>3 DEF TypeOK
  <2>4. CASE r = Watch /\ behind' = IF Loadable(file) THEN behind \cup {"key failed"} ELSE behind
    BY <2>1, <2>4 DEF Loadable
  <2> QED
    BY <1>11, <2>2, <2>3, <2>4 DEF reloadRead
<1>12. ASSUME NEW r \in Reloaders, reloadSwap(r) PROVE BehindForAReason'
  <2>1. UNCHANGED <<file, changed>> /\ running' = reloads[r].cfg
    BY <1>12 DEF reloadSwap, Apply
  <2>2. CASE changed
    BY <2>1, <2>2
  <2>3. CASE ~changed /\ r = Watch
    BY <1>12, <2>1, <2>3 DEF reloadSwap, WatchInv
  <2>4. CASE r # Watch /\ reloads[Watch].pc \in {"asked", "built"}
    <3>1. reloads'[Watch] = reloads[Watch]
      BY <1>0, <1>12, <2>4 DEF reloadSwap, TypeOK
    <3> QED
      BY <2>4, <3>1
  <2>5. CASE r # Watch /\ ~WatcherWillLoad
    <3>1. CASE file = running'
      BY <2>1, <3>1
    <3>2. CASE file # running'
      <4>1. behind' = {"overtaken"}
        BY <1>12, <2>1, <2>5, <3>2 DEF reloadSwap, Apply
      <4> QED
        BY <4>1
    <3> QED
      BY <3>1, <3>2
  <2> QED
    BY <2>2, <2>3, <2>4, <2>5
<1>13. CASE Start
  BY <1>13 DEF Start
<1>14. CASE Crash
  BY <1>14 DEF Crash
<1>15. CASE UNCHANGED vars
  BY <1>2, <1>15 DEF vars
<1> QED
  BY <1>3, <1>4, <1>5, <1>6, <1>7, <1>8, <1>9, <1>10, <1>11, <1>12, <1>13, <1>14, <1>15
  DEF Next, ApiWork, ReloadWork

-----------------------------------------------------------------------------
(* The theorems.                                                           *)

IInv == TypeOK /\ MutexInv /\ DownInv /\ WantInv /\ BuiltInv /\ WatchInv /\ BehindForAReason

\* The invariant holds before the signer is first started.
LEMMA InitIInv == Init => IInv
<1> SUFFICES ASSUME Init PROVE IInv
  OBVIOUS
<1>1. TypeOK
  <2>1. /\ api \in [Apis -> ApiStates] /\ ctl \in [Ctls -> CtlStates]
        /\ reloads \in [Reloaders -> ReloadStates]
    BY IdleTypes DEF Init
  <2>2. changes \in 0..MaxChanges /\ crashes \in 0..MaxCrashes
    BY SignerConfigAssumption DEF Init
  <2>3. /\ file \in Contents /\ tmp \in Contents \cup {NoFile}
        /\ handle \in [Writers -> {"none", "tmp", "file", "lost"}]
    BY SignerConfigAssumption DEF Init, Contents
  <2>4. /\ running \in Configs \cup {Down} /\ editor \in Configs \cup {NoConfig}
        /\ changed \in BOOLEAN /\ want \in Configs \cup {NoConfig}
        /\ behind \in SUBSET {"overtaken", "key failed", "changed at start"}
    BY DEF Init
  <2> QED
    BY <2>1, <2>2, <2>3, <2>4 DEF TypeOK
<1>2. \A a \in Apis : api[a].pc = "idle"
  BY DEF Init, IdleApi
<1>3. \A r \in Reloaders : reloads[r].pc = "idle"
  BY DEF Init, IdleReload
<1>4. Watch \in Reloaders
  BY DEF Reloaders
<1> QED
  BY <1>1, <1>2, <1>3, <1>4 DEF Init, IInv, MutexInv, Holding, DownInv, WantInv, BuiltInv, WatchInv,
     BehindForAReason

\* Every step keeps the invariant.
LEMMA NextIInv == IInv /\ [Next]_vars => IInv'
BY TypeStep, MutexStep, DownStep, WantStep, BuiltStep, WatchStep, BehindStep DEF IInv

\* The invariant holds in every behaviour.
LEMMA SpecIInv == Spec => []IInv
BY InitIInv, NextIInv, PTL DEF Spec

\* The signer's file, its running policy and the work under way keep their types.
THEOREM SignerConfigTypeOK == Spec => []TypeOK
<1>1. IInv => TypeOK
  BY DEF IInv
<1> QED
  BY <1>1, SpecIInv, PTL

\* reload and mutateAllow never put in force what buildState has not accepted, whatever
\* the file holds and whoever writes it.
THEOREM RunningPolicyIsValid == Spec => []LastGoodKept
<1>1. IInv => LastGoodKept
  BY DEF IInv, LastGoodKept, TypeOK, BuiltInv, Loadable
<1> QED
  BY <1>1, SpecIInv, PTL

\* mutateAllow loses no edit of the policy API while nobody else writes the file.
THEOREM PolicyEditsCompose == Spec => []EditsCompose
<1>1. IInv => EditsCompose
  BY DEF IInv, WantInv, EditsCompose
<1> QED
  BY <1>1, SpecIInv, PTL

\* With watchConfig running, the policy in force is the file's but for the reasons named.
THEOREM SignerKeepsUp == Spec => []BehindForAReason
<1>1. IInv => BehindForAReason
  BY DEF IInv
<1> QED
  BY <1>1, SpecIInv, PTL
=============================================================================
