---------------------------- MODULE SignerConfig ----------------------------
(***************************************************************************)
(* signer.json and the policy the signer runs with (cmd/signer/main.go,    *)
(* cmd/signer/policy.go), and those who change the file: the signer's own  *)
(* policy API, broker-ctl, which edits it from another process, and an     *)
(* operator's editor.  writeMu serialises the edits of the API; reload     *)
(* does not take it, and no lock is shared with the other processes.       *)
(***************************************************************************)
EXTENDS ConfigFile

CONSTANTS
    Apis,            \* goroutines that serve /v1/policy/hosts/{host}/allow
    Ctls,            \* broker-ctl processes
    Requesters,      \* reloads on request: "http" and "sighup"
    InitialConfig,   \* the file the signer is first started with
    Edits,           \* requests to the policy API: [caller, host, pattern, add]
    Commands,        \* command lines of broker-ctl
    Saved,           \* what an operator's editor may save
    AutoReload,      \* auto_reload_seconds > 0
    KeysMayFail,     \* a CA key (a remote vault) may fail to load now and then
    NoConfig, Down, NoFile, Empty, Torn,
    MaxChanges,      \* bound: edits, commands and saves
    MaxCrashes       \* bound: ends of the signer's process

Editor == "editor"
Watch == "watch"
Writers == Apis \cup Ctls \cup {Editor}
Reloaders == Requesters \cup {Watch}

ASSUME SignerConfigAssumption ==
    /\ Requesters \subseteq {"http", "sighup"}
    /\ Apis \cap Ctls = {} /\ Editor \notin Apis \cup Ctls
    /\ InitialConfig \in Configs
    /\ Edits \subseteq PolicyEdits
    /\ Commands \subseteq CtlCommands
    /\ Saved \subseteq Configs
    /\ {NoConfig, Down, NoFile, Empty, Torn} \cap Configs = {}
    /\ MaxChanges \in Nat /\ MaxCrashes \in Nat

VARIABLES
    file,       \* what signer.json holds
    tmp,        \* what signer.json.tmp holds, the name all writers use
    handle,     \* where the file a writer has open is now
    running,    \* local, hosts, callers, reloadCN and signRateMin
    api, ctl, editor, reloads,
    changed,    \* the file's modification time is not the one watchConfig knows
    behind,     \* history: why running may differ from the file for good
    want,       \* history: the file the edits of the API made one after another add up to
    changes, crashes

vars == <<file, tmp, handle, running, api, ctl, editor, reloads, changed, behind, want,
          changes, crashes>>

Contents == Configs \cup {Empty, Torn}

IdleApi == [pc |-> "idle", req |-> NoConfig, cfg |-> NoConfig]
ApiStates == [pc: {"idle"}, req: {NoConfig}, cfg: {NoConfig}]
             \cup [pc: {"queued"}, req: Edits, cfg: {NoConfig}]
             \cup [pc: {"built", "opened", "written", "renamed"}, req: Edits, cfg: Configs]
IdleCtl == [pc |-> "idle", cfg |-> NoConfig]
CtlStates == [pc: {"idle"}, cfg: {NoConfig}]
             \cup [pc: {"edited", "opened", "written"}, cfg: Configs]
IdleReload == [pc |-> "idle", cfg |-> NoConfig]
ReloadStates == [pc: {"idle", "unarmed", "asked"}, cfg: {NoConfig}]
                \cup [pc: {"built"}, cfg: Configs]

TypeOK ==
    /\ file \in Contents
    /\ tmp \in Contents \cup {NoFile}
    /\ handle \in [Writers -> {"none", "tmp", "file", "lost"}]
    /\ running \in Configs \cup {Down}
    /\ api \in [Apis -> ApiStates]
    /\ ctl \in [Ctls -> CtlStates]
    /\ editor \in Configs \cup {NoConfig}
    /\ reloads \in [Reloaders -> ReloadStates]
    /\ changed \in BOOLEAN
    /\ behind \in SUBSET {"overtaken", "key failed", "changed at start"}
    /\ want \in Configs \cup {NoConfig}
    /\ changes \in 0..MaxChanges
    /\ crashes \in 0..MaxCrashes

Init ==
    /\ file = InitialConfig
    /\ tmp = NoFile
    /\ handle = [w \in Writers |-> "none"]
    /\ running = Down
    /\ api = [a \in Apis |-> IdleApi]
    /\ ctl = [c \in Ctls |-> IdleCtl]
    /\ editor = NoConfig
    /\ reloads = [r \in Reloaders |-> IdleReload]
    /\ changed = FALSE
    /\ behind = {}
    /\ want = NoConfig
    /\ changes = 0
    /\ crashes = 0

-----------------------------------------------------------------------------
(* The file system.                                                        *)

\* parseConfig and buildState accept what was read.
Loadable(c) == c \in Configs /\ buildState(c)

\* Someone other than the API is writing, or about to.
Outsiders == editor # NoConfig \/ \E c \in Ctls : ctl[c].pc # "idle"

\* os.WriteFile, first half: O_TRUNC on the shared temporary name.
OpenTmp(w) ==
    /\ tmp' = Empty
    /\ handle' = [handle EXCEPT ![w] = "tmp"]

\* os.WriteFile, second half.  Over what another writer has put there the result is the
\* new text or, where that is the shorter one, the new text with a tail of the old.
Over(old, c) == IF old = Empty THEN {c} ELSE {c, Torn}
WriteOpened(w, c) ==
    /\ handle' = [handle EXCEPT ![w] = "none"]
    /\ \/ handle[w] = "tmp" /\ tmp' \in Over(tmp, c) /\ UNCHANGED <<file, changed>>
       \/ handle[w] = "file" /\ file' \in Over(file, c) /\ changed' = TRUE /\ UNCHANGED tmp
       \/ handle[w] = "lost" /\ UNCHANGED <<file, tmp, changed>>

\* os.Rename takes along the files that are open under the temporary name.
RenameTmp ==
    /\ tmp # NoFile
    /\ file' = tmp
    /\ tmp' = NoFile
    /\ changed' = TRUE
    /\ handle' = [w \in Writers |-> CASE handle[w] = "tmp" -> "file"
                                      [] handle[w] = "file" -> "lost"
                                      [] OTHER -> handle[w]]

\* The name is gone: another writer has renamed it already.
RenameFails == tmp = NoFile /\ UNCHANGED <<file, tmp, changed, handle>>

-----------------------------------------------------------------------------
(* The policy API.                                                         *)

ApiStep(a, pc) == api' = [api EXCEPT ![a].pc = pc]

\* handlePolicyAllow up to the lock: the caller is authorised by the policy in force,
\* and the pattern compiles.  A refused request leaves no trace.
handlePolicyAllow(a) ==
    /\ running # Down
    /\ api[a].pc = "idle"
    /\ changes < MaxChanges
    /\ changes' = changes + 1
    /\ \E e \in Edits :
          /\ e.caller \in running.reload_callers
          /\ e.pattern \notin BadRules
          /\ api' = [api EXCEPT ![a] = [pc |-> "queued", req |-> e, cfg |-> NoConfig]]
    /\ UNCHANGED <<file, tmp, handle, running, ctl, editor, reloads, changed, behind,
                   want, crashes>>

\* Variant: edits do not exclude each other.
WriteMuFree_Unlocked == TRUE

\* writeMu is held from here to mutateAllowSwap or an error.
WriteMuFree == \A b \in Apis : api[b].pc \in {"idle", "queued"}

\* Variant: the edit is persisted and applied without building the state first.
EditBuilds_Unvalidated(c, e) == c \in Configs /\ ~editAllowRefuses(c, e)

EditBuilds(c, e) ==
    c \in Configs /\ ~editAllowRefuses(c, e) /\ buildState(editAllow(c, e))

\* The file is read, edited and the result validated, before anything is written.
mutateAllowRead(a) ==
    /\ api[a].pc = "queued"
    /\ WriteMuFree
    /\ want' = IF Outsiders \/ file \notin Configs \/ want # NoConfig THEN want ELSE file
    /\ \/ /\ EditBuilds(file, api[a].req)
          /\ api' = [api EXCEPT ![a].pc = "built", ![a].cfg = editAllow(file, api[a].req)]
       \/ /\ KeysMayFail \/ ~EditBuilds(file, api[a].req)
          /\ api' = [api EXCEPT ![a] = IdleApi]
    /\ UNCHANGED <<file, tmp, handle, running, ctl, editor, reloads, changed, behind,
                   changes, crashes>>

\* atomicWrite: open, write, rename.
mutateAllowOpen(a) ==
    /\ api[a].pc = "built"
    /\ OpenTmp(a)
    /\ ApiStep(a, "opened")
    /\ UNCHANGED <<file, running, ctl, editor, reloads, changed, behind, want, changes,
                   crashes>>

mutateAllowWrite(a) ==
    /\ api[a].pc = "opened"
    /\ WriteOpened(a, api[a].cfg)
    /\ ApiStep(a, "written")
    /\ UNCHANGED <<running, ctl, editor, reloads, behind, want, changes, crashes>>

mutateAllowRename(a) ==
    /\ api[a].pc = "written"
    /\ \/ /\ RenameTmp
          /\ ApiStep(a, "renamed")
          /\ want' = IF want = NoConfig THEN want ELSE editAllow(want, api[a].req)
       \/ /\ RenameFails
          /\ api' = [api EXCEPT ![a] = IdleApi]
          /\ UNCHANGED want
    /\ UNCHANGED <<running, ctl, editor, reloads, behind, changes, crashes>>

\* The watcher has still to notice the last change, or is loading it.
WatcherWillLoad == changed \/ reloads[Watch].pc \in {"asked", "built"}

\* A swap under s.mu: c is put in force, built from the contents seen.  Afterwards the
\* watcher will set right what is wrong with it, or nobody will.
Apply(c, seen, corrected) ==
    /\ running' = c
    /\ behind' = CASE corrected \/ file = c -> {}
                   [] ~corrected /\ file # c /\ file = seen -> behind
                   [] OTHER -> {"overtaken"}

\* Everything but signRateMin is replaced.
mutateAllowSwap(a) ==
    /\ api[a].pc = "renamed"
    /\ Apply([api[a].cfg EXCEPT !.sign_rate = running.sign_rate], api[a].cfg, WatcherWillLoad)
    /\ api' = [api EXCEPT ![a] = IdleApi]
    /\ UNCHANGED <<file, tmp, handle, ctl, editor, reloads, changed, want, changes, crashes>>

-----------------------------------------------------------------------------
(* broker-ctl and the editor.                                              *)

\* loadRaw, the table, the edit.  A command that cannot read the file or refuses ends here.
ctlRead(c) ==
    /\ ctl[c].pc = "idle"
    /\ changes < MaxChanges
    /\ changes' = changes + 1
    /\ file \in Configs
    /\ \E k \in Commands :
          /\ ~ctlRefuses(file, k)
          /\ ctl' = [ctl EXCEPT ![c] = [pc |-> "edited", cfg |-> ctlEdit(file, k)]]
    /\ want' = NoConfig
    /\ UNCHANGED <<file, tmp, handle, running, api, editor, reloads, changed, behind,
                   crashes>>

\* writeRaw: open, write, rename.
ctlOpen(c) ==
    /\ ctl[c].pc = "edited"
    /\ OpenTmp(c)
    /\ ctl' = [ctl EXCEPT ![c].pc = "opened"]
    /\ UNCHANGED <<file, running, api, editor, reloads, changed, behind, want, changes,
                   crashes>>

ctlWrite(c) ==
    /\ ctl[c].pc = "opened"
    /\ WriteOpened(c, ctl[c].cfg)
    /\ ctl' = [ctl EXCEPT ![c].pc = "written"]
    /\ UNCHANGED <<running, api, editor, reloads, behind, want, changes, crashes>>

ctlRename(c) ==
    /\ ctl[c].pc = "written"
    /\ RenameTmp \/ RenameFails
    /\ ctl' = [ctl EXCEPT ![c] = IdleCtl]
    /\ UNCHANGED <<running, api, editor, reloads, behind, want, changes, crashes>>

\* An editor saves in place: the file is empty for a while.
EditorOpens ==
    /\ editor = NoConfig
    /\ changes < MaxChanges
    /\ changes' = changes + 1
    /\ editor' \in Saved
    /\ file' = Empty
    /\ changed' = TRUE
    /\ handle' = [handle EXCEPT ![Editor] = "file"]
    /\ want' = NoConfig
    /\ UNCHANGED <<tmp, running, api, ctl, reloads, behind, crashes>>

EditorWrites ==
    /\ editor # NoConfig
    /\ WriteOpened(Editor, editor)
    /\ editor' = NoConfig
    /\ UNCHANGED <<running, api, ctl, reloads, behind, want, changes, crashes>>

-----------------------------------------------------------------------------
(* Reloading.                                                              *)

\* POST /v1/reload is for the callers in reload_callers; SIGHUP asks nobody.
handleReload == running.reload_callers # {}

\* broker-ctl reload sends either.
RequestReload(r) ==
    /\ running # Down
    /\ reloads[r].pc = "idle"
    /\ r = "http" => handleReload
    /\ reloads' = [reloads EXCEPT ![r].pc = "asked"]
    /\ UNCHANGED <<file, tmp, handle, running, api, ctl, editor, changed, behind, want,
                   changes, crashes>>

\* Variant: a tick during an edit of the API remembers the time and does not reload.
watchTick_SkipsWhenBusy ==
    /\ AutoReload
    /\ running # Down
    /\ reloads[Watch].pc = "idle"
    /\ changed
    /\ changed' = FALSE
    /\ reloads' = IF WriteMuFree THEN [reloads EXCEPT ![Watch].pc = "asked"] ELSE reloads
    /\ UNCHANGED <<file, tmp, handle, running, api, ctl, editor, behind, want, changes,
                   crashes>>

\* watchConfig begins by remembering the modification time, whatever was loaded.
watchArms ==
    /\ AutoReload
    /\ reloads[Watch].pc = "unarmed"
    /\ reloads' = [reloads EXCEPT ![Watch].pc = "idle"]
    /\ behind' = IF changed THEN behind \cup {"changed at start"} ELSE behind
    /\ changed' = FALSE
    /\ UNCHANGED <<file, tmp, handle, running, api, ctl, editor, want, changes, crashes>>

\* A tick that sees a new modification time remembers it and reloads.
watchTick ==
    /\ AutoReload
    /\ running # Down
    /\ reloads[Watch].pc = "idle"
    /\ changed
    /\ changed' = FALSE
    /\ reloads' = [reloads EXCEPT ![Watch].pc = "asked"]
    /\ UNCHANGED <<file, tmp, handle, running, api, ctl, editor, behind, want, changes,
                   crashes>>

\* Variant: what was read is taken without parsing it.
reloadRead_Unparsed(r) ==
    /\ reloads[r].pc = "asked"
    /\ reloads' = [reloads EXCEPT ![r] = [pc |-> "built", cfg |-> file]]
    /\ UNCHANGED <<file, tmp, handle, running, api, ctl, editor, changed, behind, want,
                   changes, crashes>>

\* reload: loadConfig and buildState; on an error the state in force stays.
reloadRead(r) ==
    /\ reloads[r].pc = "asked"
    /\ \/ /\ Loadable(file)
          /\ reloads' = [reloads EXCEPT ![r] = [pc |-> "built", cfg |-> file]]
          /\ UNCHANGED behind
       \/ /\ KeysMayFail \/ ~Loadable(file)
          /\ reloads' = [reloads EXCEPT ![r] = IdleReload]
          /\ behind' = IF r = Watch /\ Loadable(file) THEN behind \cup {"key failed"}
                                                      ELSE behind
    /\ UNCHANGED <<file, tmp, handle, running, api, ctl, editor, changed, want, changes,
                   crashes>>

\* Variant: the modification time is remembered after the reload.
reloadSwap_RemembersLate(r) ==
    /\ reloads[r].pc = "built"
    /\ Apply(reloads[r].cfg, reloads[r].cfg, changed \/ (r # Watch /\ WatcherWillLoad))
    /\ reloads' = [reloads EXCEPT ![r] = IdleReload]
    /\ changed' = (changed /\ r # Watch)
    /\ UNCHANGED <<file, tmp, handle, api, ctl, editor, want, changes, crashes>>

\* reload, the swap under s.mu.
reloadSwap(r) ==
    /\ reloads[r].pc = "built"
    /\ Apply(reloads[r].cfg, reloads[r].cfg, changed \/ (r # Watch /\ WatcherWillLoad))
    /\ reloads' = [reloads EXCEPT ![r] = IdleReload]
    /\ UNCHANGED <<file, tmp, handle, api, ctl, editor, changed, want, changes, crashes>>

-----------------------------------------------------------------------------
(* The process.                                                            *)

\* main: the file is loaded; watchConfig looks at it only later, once it runs.
Start ==
    /\ running = Down
    /\ Loadable(file)
    /\ running' = file
    /\ behind' = {}
    /\ changed' = FALSE
    /\ reloads' = [reloads EXCEPT ![Watch].pc = "unarmed"]
    /\ UNCHANGED <<file, tmp, handle, api, ctl, editor, want, changes, crashes>>

\* The process ends in the middle of whatever it was doing; temporary files stay.
Crash ==
    /\ running # Down
    /\ crashes < MaxCrashes
    /\ crashes' = crashes + 1
    /\ running' = Down
    /\ api' = [a \in Apis |-> IdleApi]
    /\ reloads' = [r \in Reloaders |-> IdleReload]
    /\ handle' = [w \in Writers |-> IF w \in Apis THEN "none" ELSE handle[w]]
    /\ UNCHANGED <<file, tmp, ctl, editor, changed, behind, want, changes>>

ApiWork(a) == \/ mutateAllowRead(a) \/ mutateAllowOpen(a) \/ mutateAllowWrite(a)
              \/ mutateAllowRename(a) \/ mutateAllowSwap(a)
CtlWork(c) == ctlOpen(c) \/ ctlWrite(c) \/ ctlRename(c)
ReloadWork(r) == reloadRead(r) \/ reloadSwap(r)

Next ==
    \/ \E a \in Apis : handlePolicyAllow(a) \/ ApiWork(a)
    \/ \E c \in Ctls : ctlRead(c) \/ CtlWork(c)
    \/ EditorOpens \/ EditorWrites
    \/ \E r \in Requesters : RequestReload(r)
    \/ \E r \in Reloaders : ReloadWork(r)
    \/ watchArms \/ watchTick
    \/ Start \/ Crash

\* What has begun is finished and the watcher ticks; nobody has to make a change, ask for
\* a reload or start the signer again.
Fairness ==
    /\ \A a \in Apis : WF_vars(ApiWork(a))
    /\ \A c \in Ctls : WF_vars(CtlWork(c))
    /\ WF_vars(EditorWrites)
    /\ \A r \in Reloaders : WF_vars(ReloadWork(r))
    /\ WF_vars(watchArms)
    /\ WF_vars(watchTick)

Spec == Init /\ [][Next]_vars /\ Fairness

-----------------------------------------------------------------------------
(* Properties.                                                             *)

\* The policy in force always passed buildState, whatever half-written, invalid or lost
\* file the reloads and edits met.
LastGoodKept == running # Down => Loadable(running)

\* While only the API edits the file, the file is what its edits made one after another
\* add up to: none is lost to another one, to a reload, or to the end of the process.
EditsCompose == want # NoConfig => file = want

\* With auto reload, the policy in force is the file's, unless the watcher has a change
\* still to load, the file cannot be loaded, or one of three things went wrong: another
\* reload or an edit put in what the file no longer held after the watcher had loaded it,
\* a CA key failed to load, or the file changed while the signer was starting.
BehindForAReason ==
    AutoReload /\ running # Down /\ Loadable(file) /\ behind = {} =>
        running = file \/ WatcherWillLoad

\* With auto reload the policy in force ends up being the file's, for the same reasons.
Converges ==
    <>[](\/ running \in {file, Down}
         \/ ~Loadable(file)
         \/ behind # {})

\* "disk and the running policy stay consistent": when nothing is under way, the policy
\* in force is the file's.
DiskAndRunningAgree ==
    /\ running # Down
    /\ \A a \in Apis : api[a].pc = "idle"
    /\ \A r \in Reloaders : reloads[r].pc \in {"idle", "unarmed"}
    => running = file
=============================================================================
