--------------------------- MODULE ConfigMutation ---------------------------
(***************************************************************************)
(* The commands that change the router configuration                       *)
(* (packages/config/src/mutation.ts) and the encrypted credentials beside  *)
(* it (credentials.ts), as the command line runs them (apps/cli).          *)
(*                                                                         *)
(* The files are state: the configuration, the history of applied changes, *)
(* the backups, the two lock files, the credential store.  Each write of a *)
(* file is a step; a command may crash between any two of its steps and    *)
(* then leaves its lock file behind.                                       *)
(*                                                                         *)
(* A hash stands for its content.  The file a recorded change names as its *)
(* backup is kept in its entry; a backup that no entry names is never read *)
(* and left out.  The empty history is the missing state file.  A provider *)
(* that refers to a credential refers to one of its own name.  brought is  *)
(* a history variable.                                                     *)
(***************************************************************************)
EXTENDS Sequences, SequencesExt, FiniteSets, Naturals

CONSTANTS
    Command,    \* processes of the command line that may overlap
    Provider,
    Fake,       \* the provider that takes no credential
    Model,
    Owner,      \* the provider that defines each model
    NoModel,
    Default,    \* the content init writes
    Job,        \* the commands people give
    Edited,     \* contents an editor may leave, or Missing
    Missing,    \* the content of no file
    MaxHistory, \* bound on the recorded changes
    MaxEdits    \* bound on the acts from outside

VARIABLES
    config,  \* the configuration file
    history, \* the recorded changes, oldest first
    lock,    \* the lock file of the configuration exists
    store,   \* providers whose credential the store holds
    brought, \* providers whose reference people wrote, with nothing stored for it since
    keyLock, \* the lock file of the credential store exists
    pc,      \* the next step of each command
    task,    \* what each command works on
    edits,   \* outside acts so far
    left     \* lock files that a crash left behind

files == <<config, history, store, brought>>
locks == <<lock, keyLock, left>>
vars == <<files, locks, pc, task, edits>>

(* A configuration: the keys the commands set, the providers it defines    *)
(* with their enabled flags, the providers that refer to a credential, and *)
(* whether the text is laid out as the YAML printer lays it out.           *)
Mode == {"fixed", "balanced", "eco", "quality"}

ContentOf(P) ==
    [mode       : Mode,
     model      : Model,
     baseline   : Model \cup {NoModel},
     calibrated : SUBSET Model,
     enabled    : [P -> BOOLEAN],
     refers     : SUBSET P,
     tidy       : BOOLEAN]

Content == UNION {ContentOf(P) : P \in SUBSET Provider}

Entry ==
    [previous : Content \cup {Missing},
     applied  : Content,
     backup   : Content \cup {Missing}]

(* The commands there are, with what they are given.                       *)
JobKind ==
    UNION {[kind : {"init", "undo"}],
           [kind : {"set-mode"}, mode : Mode],
           [kind : {"use-model", "set-baseline"}, model : Model],
           [kind : {"set-calibration"}, models : SUBSET Model],
           [kind : {"remove-provider", "login"}, provider : Provider],
           [kind : {"add-provider"}, provider : Provider, enabled : BOOLEAN, refers : BOOLEAN],
           [kind : {"set-enabled"}, provider : Provider, enabled : BOOLEAN]}

ASSUME ConfigAssumption ==
    /\ Fake \in Provider
    /\ Owner \in [Model -> Provider]
    /\ NoModel \notin Model
    /\ Missing \notin Content
    /\ Default \in Content
    /\ Default.refers = {}
    /\ Edited \subseteq Content \cup {Missing}
    /\ Job \subseteq JobKind
    /\ MaxHistory \in Nat
    /\ MaxEdits \in Nat

NoJob == [kind |-> "none"]

Task ==
    [job   : Job \cup {NoJob},
     read  : Content \cup {Missing},
     next  : Content \cup {Missing},
     saved : Content \cup {Missing},
     keys  : SUBSET Provider]

Idle == [job |-> NoJob, read |-> Missing, next |-> Missing, saved |-> Missing, keys |-> {}]

Phase == {"idle", "lock", "read", "drop", "apply", "backup", "record", "install",
          "restore", "shrink", "release",
          "keyLock", "keyRead", "keyWrite", "keyRelease"}

HoldingKeys == {"keyRead", "keyWrite", "keyRelease"}

Holding == Phase \ ({"idle", "lock", "keyLock"} \cup HoldingKeys)

TypeOK ==
    /\ config \in Content \cup {Missing}
    /\ history \in Seq(Entry)
    /\ lock \in BOOLEAN
    /\ store \subseteq Provider
    /\ brought \subseteq Provider
    /\ keyLock \in BOOLEAN
    /\ pc \in [Command -> Phase]
    /\ task \in [Command -> Task]
    /\ edits \in 0 .. MaxEdits
    /\ left \subseteq {"config", "keys"}

(* The references of a content that a person wrote. *)
Written(c) == IF c = Missing THEN {} ELSE c.refers

Init ==
    /\ config \in Edited
    /\ brought = Written(config)
    /\ history = <<>>
    /\ lock = FALSE
    /\ store = {}
    /\ keyLock = FALSE
    /\ pc = [p \in Command |-> "idle"]
    /\ task = [p \in Command |-> Idle]
    /\ edits = 0
    /\ left = {}

-----------------------------------------------------------------------------
(* What a change makes of a configuration. *)

Defined(c) == {m \in Model : Owner[m] \in DOMAIN c.enabled}

Available(c) == {m \in Defined(c) : c.enabled[Owner[m]]}

(* The schema of the whole file. *)
Valid(c) ==
    /\ c.model \in Available(c)
    /\ c.baseline \in Available(c) \cup {NoModel}
    /\ c.calibrated \subseteq Defined(c)

InUse(c, p) == p \in {Owner[m] : m \in {c.model, c.baseline} \ {NoModel}}

Allowed(c, j) ==
    CASE j.kind \in {"use-model", "set-baseline"} -> j.model \in Available(c)
      [] j.kind = "add-provider" -> j.provider \notin DOMAIN c.enabled
      [] j.kind = "remove-provider" ->
            j.provider \in DOMAIN c.enabled /\ ~InUse(c, j.provider)
      [] j.kind = "login" -> j.provider \in DOMAIN c.enabled \ {Fake}
      [] j.kind = "set-enabled" ->
            /\ j.provider \in DOMAIN c.enabled
            /\ j.enabled \/ ~InUse(c, j.provider)
      [] OTHER -> TRUE

(* The reference that the definition of a new provider carries. *)
Given(j) == IF j.kind = "add-provider" /\ j.refers THEN {j.provider} ELSE {}

Only(f, S) == [x \in S |-> f[x]]

Patched(c, j) ==
    CASE j.kind = "set-mode" -> [c EXCEPT !.mode = j.mode]
      [] j.kind = "use-model" -> [c EXCEPT !.mode = "fixed", !.model = j.model]
      [] j.kind = "set-baseline" -> [c EXCEPT !.baseline = j.model]
      [] j.kind = "set-calibration" -> [c EXCEPT !.calibrated = j.models]
      [] j.kind = "add-provider" ->
            [c EXCEPT !.enabled = [p \in DOMAIN @ \cup {j.provider} |->
                                    IF p = j.provider THEN j.enabled ELSE @[p]],
                      !.refers = @ \cup Given(j)]
      [] j.kind = "remove-provider" ->
            [c EXCEPT !.enabled = Only(@, DOMAIN @ \ {j.provider}),
                      !.refers = @ \ {j.provider}]
      [] j.kind = "login" -> [c EXCEPT !.refers = @ \cup {j.provider}]
      [] j.kind = "set-enabled" -> [c EXCEPT !.enabled[j.provider] = j.enabled]

(* The document is printed whole, whatever its layout was. *)
Changed(c, j) == [Patched(c, j) EXCEPT !.tidy = TRUE]

-----------------------------------------------------------------------------
(* The steps of a command. *)

Go(p, phase) == pc' = [pc EXCEPT ![p] = phase]

At(p, phase, kinds) == pc[p] = phase /\ task[p].job.kind \in kinds

Plan(p, read, next) ==
    task' = [task EXCEPT ![p].read = read, ![p].next = next]

End(p) == Go(p, "idle") /\ task' = [task EXCEPT ![p] = Idle]

Finish(p) == Go(p, "release") /\ task' = [task EXCEPT ![p] = Idle]

(* Mutant: an error leaves the lock file. *)
FailLocked(p) == End(p) /\ UNCHANGED <<files, locks>>

Fail(p) == Finish(p) /\ UNCHANGED <<files, locks>>

Changes == {"set-mode", "use-model", "set-baseline", "set-calibration",
            "add-provider", "remove-provider", "set-enabled", "login"}

Room ==
    Len(history) + Cardinality({p \in Command : task[p].job.kind \notin {"none", "undo"}})
        < MaxHistory

(* A command that finds the lock file taken ends without a change. *)
Begin(p) ==
    /\ pc[p] = "idle"
    /\ ~lock
    /\ \E j \in {k \in Job : k.kind # "login"} :
        /\ j.kind = "undo" \/ Room
        /\ task' = [task EXCEPT ![p] = [Idle EXCEPT !.job = j]]
    /\ lock' = TRUE
    /\ Go(p, "read")
    /\ UNCHANGED <<files, keyLock, left>>

(* login looks the provider up before it takes any lock. *)
BeginLogin(p) ==
    /\ pc[p] = "idle"
    /\ Room
    /\ config # Missing
    /\ Valid(config)
    /\ \E j \in {k \in Job : k.kind = "login"} :
        /\ Allowed(config, j)
        /\ task' = [task EXCEPT ![p] = [Idle EXCEPT !.job = j, !.read = config]]
    /\ Go(p, "keyLock")
    /\ UNCHANGED <<files, locks>>

(* Mutant: a taken credential lock is no reason to stop. *)
TakeKeyLockAnyway(p) ==
    /\ pc[p] = "keyLock"
    /\ Go(p, IF keyLock THEN "lock" ELSE "keyRead")
    /\ keyLock' = TRUE
    /\ UNCHANGED <<files, lock, left, task>>

TakeKeyLock(p) ==
    /\ pc[p] = "keyLock"
    /\ IF keyLock
       THEN End(p) /\ UNCHANGED keyLock
       ELSE keyLock' = TRUE /\ Go(p, "keyRead") /\ UNCHANGED task
    /\ UNCHANGED <<files, lock, left>>

ReadKeys(p) ==
    /\ pc[p] = "keyRead"
    /\ task' = [task EXCEPT ![p].keys = store]
    /\ Go(p, "keyWrite")
    /\ UNCHANGED <<files, locks>>

WriteKeys(p) ==
    /\ pc[p] = "keyWrite"
    /\ store' = task[p].keys \cup {task[p].job.provider}
    /\ brought' = brought \ {task[p].job.provider}
    /\ Go(p, "keyRelease")
    /\ UNCHANGED <<config, history, locks, task>>

(* A provider that refers to its credential already needs no change. *)
ReleaseKeys(p) ==
    /\ pc[p] = "keyRelease"
    /\ keyLock' = FALSE
    /\ IF task[p].job.provider \in task[p].read.refers
       THEN End(p)
       ELSE Go(p, "lock") /\ task' = [task EXCEPT ![p] = [Idle EXCEPT !.job = task[p].job]]
    /\ UNCHANGED <<files, lock, left>>

TakeLock(p) ==
    /\ pc[p] = "lock"
    /\ IF lock
       THEN End(p) /\ UNCHANGED lock
       ELSE lock' = TRUE /\ Go(p, "read") /\ UNCHANGED task
    /\ UNCHANGED <<files, keyLock, left>>

ReadInit(p) ==
    /\ At(p, "read", {"init"})
    /\ IF config = Missing /\ history = <<>>
       THEN Go(p, "record") /\ Plan(p, Missing, Default) /\ UNCHANGED <<files, locks>>
       ELSE Fail(p)

(* Mutant: no reconciliation, any configuration can be changed. *)
ReadChangeOnly(p) ==
    /\ At(p, "read", Changes)
    /\ IF config # Missing /\ Valid(config)
       THEN Go(p, "apply") /\ Plan(p, config, Missing) /\ UNCHANGED <<files, locks>>
       ELSE Fail(p)

(* A change whose last predecessor was recorded and never installed drops  *)
(* that record; any other disagreement is drift.                           *)
ReadChange(p) ==
    /\ At(p, "read", Changes)
    /\ IF /\ config # Missing
          /\ Valid(config)
          /\ history # <<>> => config \in {Last(history).applied, Last(history).previous}
       THEN /\ Go(p, IF history = <<>> \/ Last(history).applied = config
                     THEN "apply" ELSE "drop")
            /\ Plan(p, config, Missing)
            /\ UNCHANGED <<files, locks>>
       ELSE Fail(p)

Drop(p) ==
    /\ pc[p] = "drop"
    /\ history' = Front(history)
    /\ Go(p, "apply")
    /\ UNCHANGED <<config, store, brought, locks, task>>

Apply(p) ==
    /\ pc[p] = "apply"
    /\ LET c == task[p].read
           j == task[p].job
       IN  IF Allowed(c, j) /\ Valid(Changed(c, j)) /\ Changed(c, j) # c
           THEN /\ Go(p, "backup")
                /\ Plan(p, c, Changed(c, j))
                /\ brought' = brought \cup (Given(j) \ store)
                /\ UNCHANGED <<config, history, store, locks>>
           ELSE Fail(p)

(* Mutant: the backup is taken of the new content. *)
BackupNext(p) ==
    /\ pc[p] = "backup"
    /\ task' = [task EXCEPT ![p].saved = task[p].next]
    /\ Go(p, "record")
    /\ UNCHANGED <<files, locks>>

Backup(p) ==
    /\ pc[p] = "backup"
    /\ task' = [task EXCEPT ![p].saved = task[p].read]
    /\ Go(p, "record")
    /\ UNCHANGED <<files, locks>>

Record(p) ==
    /\ pc[p] = "record"
    /\ history' = Append(history, [previous |-> task[p].read,
                                   applied  |-> task[p].next,
                                   backup   |-> task[p].saved])
    /\ Go(p, "install")
    /\ UNCHANGED <<config, store, brought, locks, task>>

Install(p) ==
    /\ pc[p] = "install"
    /\ config' = task[p].next
    /\ Finish(p)
    /\ UNCHANGED <<history, store, brought, locks>>

(* Mutant: undo does not compare the configuration with the record. *)
ReadUndoBlindly(p) ==
    /\ At(p, "read", {"undo"})
    /\ IF history = <<>>
       THEN Fail(p)
       ELSE /\ Go(p, "restore")
            /\ Plan(p, config, Last(history).previous)
            /\ UNCHANGED <<files, locks>>

(* An undo of what was never installed, or was put back, only forgets it. *)
ReadUndo(p) ==
    /\ At(p, "read", {"undo"})
    /\ IF history = <<>>
       THEN Fail(p)
       ELSE LET e == Last(history) IN
            CASE config = e.previous ->
                    Go(p, "shrink") /\ UNCHANGED <<files, locks, task>>
              [] config # e.previous /\ config = e.applied
                   /\ (e.previous # Missing => e.backup = e.previous /\ Valid(e.previous)) ->
                    /\ Go(p, "restore")
                    /\ Plan(p, config, e.previous)
                    /\ UNCHANGED <<files, locks>>
              [] OTHER -> Fail(p)

(* Removing a configuration that is gone fails. *)
Restore(p) ==
    /\ pc[p] = "restore"
    /\ IF config = Missing /\ task[p].next = Missing
       THEN Fail(p)
       ELSE /\ config' = task[p].next
            /\ Go(p, "shrink")
            /\ UNCHANGED <<history, store, brought, locks, task>>

Shrink(p) ==
    /\ pc[p] = "shrink"
    /\ history' = Front(history)
    /\ Finish(p)
    /\ UNCHANGED <<config, store, brought, locks>>

Release(p) ==
    /\ pc[p] = "release"
    /\ lock' = FALSE
    /\ End(p)
    /\ UNCHANGED <<files, keyLock, left>>

-----------------------------------------------------------------------------
(* Crashes, and what people do to the files. *)

Crash(p) ==
    /\ pc[p] # "idle"
    /\ End(p)
    /\ left' = left \cup (IF pc[p] \in Holding THEN {"config"} ELSE {})
                    \cup (IF pc[p] \in HoldingKeys THEN {"keys"} ELSE {})
    /\ UNCHANGED <<files, lock, keyLock>>

(* Someone deletes the lock files that crashes left. *)
RemoveLocks ==
    /\ left # {}
    /\ left' = {}
    /\ lock' = (lock /\ "config" \notin left)
    /\ keyLock' = (keyLock /\ "keys" \notin left)
    /\ UNCHANGED <<files, pc, task, edits>>

(* Nobody edits the files while a command works on them. *)
Outside ==
    /\ edits < MaxEdits
    /\ \A p \in Command : pc[p] \notin Holding
    /\ edits' = edits + 1

Edit ==
    /\ Outside
    /\ config' \in Edited \ {config}
    /\ brought' = brought \cup (Written(config') \ store)
    /\ UNCHANGED <<history, store, locks, pc, task>>

LoseBackup ==
    /\ Outside
    /\ \E i \in DOMAIN history :
        /\ history[i].backup # Missing
        /\ history' = [history EXCEPT ![i].backup = Missing]
    /\ UNCHANGED <<config, store, brought, locks, pc, task>>

Step(p) ==
    \/ Begin(p) \/ BeginLogin(p) \/ TakeKeyLock(p) \/ ReadKeys(p) \/ WriteKeys(p) \/ ReleaseKeys(p)
    \/ TakeLock(p) \/ ReadInit(p) \/ ReadChange(p) \/ Drop(p) \/ Apply(p)
    \/ Backup(p) \/ Record(p) \/ Install(p) \/ ReadUndo(p) \/ Restore(p)
    \/ Shrink(p) \/ Release(p) \/ Crash(p)

Next ==
    \/ (\E p \in Command : Step(p)) /\ UNCHANGED edits
    \/ RemoveLocks
    \/ Edit
    \/ LoseBackup

Spec == Init /\ [][Next]_vars

-----------------------------------------------------------------------------
Guards(exists, inside, name) ==
    /\ \A p, q \in Command : pc[p] \in inside /\ pc[q] \in inside => p = q
    /\ exists <=> name \in left \/ \E p \in Command : pc[p] \in inside
    /\ name \in left => \A p \in Command : pc[p] \notin inside

(* A lock file exists exactly while one command works under it or after a  *)
(* crash did: no error path leaves it behind, and no two commands work on  *)
(* the configuration, or on the credential store, at once.                 *)
LocksAccounted ==
    /\ Guards(lock, Holding, "config")
    /\ Guards(keyLock, HoldingKeys, "keys")

(* Each recorded change starts where the one before it ended, through      *)
(* crashes, recoveries and edits from outside.                             *)
HistoryIsChain ==
    /\ \A i \in DOMAIN history : history[i].previous # history[i].applied
    /\ \A i \in DOMAIN history \ {1} :
        history[i].previous = history[i - 1].applied

(* While nobody else touches the files every recorded change can be        *)
(* undone: the configuration is what the last one left or, after a crash,  *)
(* what it started from, and each has the backup it goes back to.          *)
UndoPossible ==
    edits = 0 =>
        /\ history # <<>> =>
            config \in {Last(history).applied, Last(history).previous}
        /\ \A i \in DOMAIN history :
            history[i].backup = history[i].previous

(* No configuration refers to a credential the store does not hold, through *)
(* undo, crashes and overlapping logins, but by a reference that a person  *)
(* wrote, into the file or into the definition given to `provider add`,    *)
(* and has stored nothing for since: mutation.ts:277 adds the definition   *)
(* with whatever credentialRef it carries, and no command asks the store.  *)
CredentialsBehindReferences ==
    config # Missing => config.refers \subseteq store \cup brought

(* The contents the user can go back to. *)
Contents ==
    LET before == [i \in DOMAIN history |-> history[i].previous]
    IN  IF history # <<>> /\ Last(history).previous = config
        THEN before
        ELSE Append(before, config)

(* The configuration is one the recorded changes know. *)
Undrifted ==
    history # <<>> => config \in {Last(history).applied, Last(history).previous}

Stack == INSTANCE UndoStack WITH
    Content <- Content \cup {Missing}, stack <- Contents, ours <- Undrifted

(* Every change and every undo happens at once or not at all, wherever a   *)
(* command crashes, and nothing but an edit replaces a content.            *)
RefinesUndoStack == Stack!Spec
=============================================================================
