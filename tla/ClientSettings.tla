--------------------------- MODULE ClientSettings ---------------------------
(***************************************************************************)
(* The settings files of the coding agents that the command line routes    *)
(* through the gateway (apps/cli/src/claude-code-settings.ts,              *)
(* openai-client-settings.ts) and the uninstall command that puts them     *)
(* back (uninstall.ts).                                                    *)
(*                                                                         *)
(* Of a settings file the model keeps the block of keys vartma manages, as *)
(* one value, and whether anything else is in it.  Each write of a file is *)
(* a step; the command may crash between two of them.  A backup is kept    *)
(* where the state file names it.                                          *)
(*                                                                         *)
(* original and torn are history variables.                                *)
(***************************************************************************)
EXTENDS Naturals

CONSTANTS
    Client,     \* the settings files
    Claude,     \* the one with a bypass and a routed backup
    Own,        \* managed blocks that a user may write
    Routed,     \* managed blocks that configure may write
    Nothing,    \* the empty managed block
    Missing,    \* no file
    MaxEdits    \* bound on the edits of the user

VARIABLES
    file,     \* the settings file of each client
    routed,   \* the routed backup that the state of each client names
    state,    \* the state file of each client
    gateway,  \* the managed gateway runs
    cmd,      \* the command that runs
    edits,
    original, \* the block each client had before vartma's
    torn      \* configured by a command that crashed before it said so

vars == <<file, routed, state, gateway, cmd, edits, original, torn>>

Block == Own \cup Routed \cup {Nothing}

File == [block : Block, other : BOOLEAN]

Configured ==
    [baseline : Block, existed : BOOLEAN, hash : Routed, bypassed : BOOLEAN]

ASSUME ClientAssumption ==
    /\ Claude \in Client
    /\ Nothing \notin Own \cup Routed
    /\ Own \cap Routed = {}
    /\ Missing \notin File \cup Configured
    /\ MaxEdits \in Nat

Idle == [phase |-> "idle"]

(* What a command has read, and is about to write.                         *)
Cmd ==
    UNION {[phase : {"idle", "stop", "inspect"}],
           [phase    : {"routed", "settings", "state"},
            client   : Client,
            block    : Routed,
            read     : File \cup {Missing},
            baseline : Block,
            existed  : BOOLEAN],
           [phase : {"bypass"}, on : BOOLEAN, next : File],
           [phase : {"bypassState"}, on : BOOLEAN],
           [phase : {"undo", "forget"}, client : Client, todo : SUBSET Client]}

TypeOK ==
    /\ file \in [Client -> File \cup {Missing}]
    /\ routed \in [Client -> Block]
    /\ state \in [Client -> Configured \cup {Missing}]
    /\ gateway \in BOOLEAN
    /\ cmd \in Cmd
    /\ edits \in 0 .. MaxEdits
    /\ original \in [Client -> Block]
    /\ torn \in [Client -> BOOLEAN]

BlockOf(f) == IF f = Missing THEN Nothing ELSE f.block

Init ==
    /\ file \in [Client -> [block : Own \cup {Nothing}, other : BOOLEAN] \cup {Missing}]
    /\ routed = [c \in Client |-> Nothing]
    /\ state = [c \in Client |-> Missing]
    /\ gateway \in BOOLEAN
    /\ cmd = Idle
    /\ edits = 0
    /\ original = [c \in Client |-> BlockOf(file[c])]
    /\ torn = [c \in Client |-> FALSE]

-----------------------------------------------------------------------------
(* The managed keys take the values they have in source; all else stays.   *)
Merge(current, source) ==
    [block |-> source, other |-> current # Missing /\ current.other]

(* What undo leaves of the client's file. *)
Restored(c, s) ==
    LET f == Merge(file[c], s.baseline)
    IN  IF c # Claude /\ ~s.existed /\ f = [block |-> Nothing, other |-> FALSE]
        THEN Missing
        ELSE f

(* Mutant: the status believes the state file. *)
StatusOfState(c) ==
    LET s == state[c] IN
    IF s = Missing THEN "not_configured"
    ELSE IF s.bypassed THEN "bypassed" ELSE "active"

Status(c) ==
    LET s == state[c] IN
    IF s = Missing THEN "not_configured"
    ELSE LET expected == IF s.bypassed THEN s.baseline
                         ELSE IF c = Claude THEN routed[c] ELSE s.hash
         IN  IF BlockOf(file[c]) # expected THEN "drifted"
             ELSE IF s.bypassed THEN "bypassed" ELSE "active"

Write(c, f) == file' = [file EXCEPT ![c] = f]

(* Mutant: every configure takes a new baseline. *)
ConfigureAfresh(c) ==
    /\ cmd = Idle
    /\ \E b \in Routed :
        cmd' = [phase    |-> IF c = Claude THEN "routed" ELSE "settings",
                client   |-> c,
                block    |-> b,
                read     |-> file[c],
                baseline |-> BlockOf(file[c]),
                existed  |-> file[c] # Missing]
    /\ UNCHANGED <<file, routed, state, gateway>>

(* configure: the baseline is read once, when no state names one.  Nobody  *)
(* sees the backup before the state does.                                  *)
Configure(c) ==
    /\ cmd = Idle
    /\ \E b \in Routed :
        LET s == state[c]
        IN  cmd' = [phase    |-> IF c = Claude THEN "routed" ELSE "settings",
                    client   |-> c,
                    block    |-> b,
                    read     |-> file[c],
                    baseline |-> IF s = Missing THEN BlockOf(file[c]) ELSE s.baseline,
                    existed  |-> IF s = Missing THEN file[c] # Missing ELSE s.existed]
    /\ UNCHANGED <<file, routed, state, gateway>>

WriteRouted ==
    /\ cmd.phase = "routed"
    /\ routed' = [routed EXCEPT ![cmd.client] = cmd.block]
    /\ cmd' = [cmd EXCEPT !.phase = "settings"]
    /\ UNCHANGED <<file, state, gateway>>

WriteSettings ==
    /\ cmd.phase = "settings"
    /\ Write(cmd.client, Merge(cmd.read, cmd.block))
    /\ cmd' = [cmd EXCEPT !.phase = "state"]
    /\ UNCHANGED <<routed, state, gateway>>

WriteState ==
    /\ cmd.phase = "state"
    /\ state' = [state EXCEPT ![cmd.client] =
                    [baseline |-> cmd.baseline, existed |-> cmd.existed,
                     hash |-> cmd.block, bypassed |-> FALSE]]
    /\ cmd' = Idle
    /\ UNCHANGED <<file, routed, gateway>>

(* bypass on puts the baseline back for a while, bypass off the router.    *)
Bypass(on) ==
    /\ cmd = Idle
    /\ state[Claude] # Missing
    /\ LET source == IF on THEN state[Claude].baseline ELSE routed[Claude]
       IN  cmd' = [phase |-> "bypass", on |-> on, next |-> Merge(file[Claude], source)]
    /\ UNCHANGED <<file, routed, state, gateway>>

WriteBypass ==
    /\ cmd.phase = "bypass"
    /\ Write(Claude, cmd.next)
    /\ cmd' = [phase |-> "bypassState", on |-> cmd.on]
    /\ UNCHANGED <<routed, state, gateway>>

WriteBypassState ==
    /\ cmd.phase = "bypassState"
    /\ state' = [state EXCEPT ![Claude].bypassed = cmd.on]
    /\ cmd' = Idle
    /\ UNCHANGED <<file, routed, gateway>>

(* Mutant: the state file goes first. *)
Forgetting(c, todo) == [phase |-> "forget", client |-> c, todo |-> todo]

(* todo is what an uninstall still has to undo after this client. *)
Undoing(c, todo) == [phase |-> "undo", client |-> c, todo |-> todo]

Undo(c) ==
    /\ cmd = Idle
    /\ state[c] # Missing
    /\ cmd' = Undoing(c, {})
    /\ UNCHANGED <<file, routed, state, gateway>>

Restore ==
    /\ cmd.phase = "undo"
    /\ Write(cmd.client, Restored(cmd.client, state[cmd.client]))
    /\ cmd' = [cmd EXCEPT !.phase = "forget"]
    /\ UNCHANGED <<routed, state, gateway>>

Forget ==
    /\ cmd.phase = "forget"
    /\ state' = [state EXCEPT ![cmd.client] = Missing]
    /\ cmd' = IF cmd.todo = {} THEN Idle
              ELSE Undoing(CHOOSE c \in cmd.todo : TRUE, {})
    /\ UNCHANGED <<file, routed, gateway>>

Uninstall ==
    /\ cmd = Idle
    /\ cmd' = [phase |-> "stop"]
    /\ UNCHANGED <<file, routed, state, gateway>>

(* A gateway that refuses to stop ends the command. *)
StopGateway ==
    /\ cmd.phase = "stop"
    /\ \/ gateway' = FALSE /\ cmd' = [phase |-> "inspect"]
       \/ gateway /\ cmd' = Idle /\ UNCHANGED gateway
    /\ UNCHANGED <<file, routed, state>>

(* Claude Code is put back first, then the OpenAI client. *)
Inspect ==
    /\ cmd.phase = "inspect"
    /\ LET configured == {c \in Client : Status(c) # "not_configured"}
       IN  cmd' = CASE configured = {} -> Idle
                    [] Claude \in configured -> Undoing(Claude, configured \ {Claude})
                    [] OTHER -> Undoing(CHOOSE c \in configured : TRUE, {})
    /\ UNCHANGED <<file, routed, state, gateway>>

Command ==
    /\ \/ \E c \in Client : Configure(c) \/ Undo(c)
       \/ WriteRouted \/ WriteSettings \/ WriteState
       \/ \E on \in BOOLEAN : Bypass(on)
       \/ WriteBypass \/ WriteBypassState
       \/ Restore \/ Forget
       \/ Uninstall \/ StopGateway \/ Inspect
    /\ UNCHANGED <<edits, original, torn>>

Crash ==
    /\ cmd # Idle
    /\ cmd' = Idle
    /\ torn' = [c \in Client |->
                    \/ torn[c]
                    \/ cmd.phase = "state" /\ cmd.client = c /\ state[c] = Missing]
    /\ UNCHANGED <<file, routed, state, gateway, edits, original>>

(* The user, or `vartma start`, between two commands. *)
Edit(c) ==
    /\ cmd = Idle
    /\ edits < MaxEdits
    /\ edits' = edits + 1
    /\ \E f \in [block : Own \cup {BlockOf(file[c])}, other : BOOLEAN] :
        /\ Write(c, f)
        /\ original' = IF state[c] = Missing
                       THEN [original EXCEPT ![c] = f.block] ELSE original
    /\ UNCHANGED <<routed, state, gateway, cmd, torn>>

Start ==
    /\ cmd = Idle
    /\ ~gateway
    /\ gateway' = TRUE
    /\ UNCHANGED <<file, routed, state, cmd, edits, original, torn>>

Next == Command \/ Crash \/ (\E c \in Client : Edit(c)) \/ Start

Spec == Init /\ [][Next]_vars

-----------------------------------------------------------------------------
(* Whatever the order of configure, bypass, undo, uninstall, crashes and   *)
(* edits, the recorded baseline is the block the client had before vartma, *)
(* unless a first configure crashed between its settings and its state.    *)
BaselineIsOriginal ==
    \A c \in Client :
        state[c] # Missing /\ ~torn[c] => state[c].baseline = original[c]

(* A client that no state file mentions runs with the user's own values,   *)
(* not the router's: undo and uninstall forget only what they put back.    *)
(* Only a first configure has the settings written before the state.       *)
ForgottenIsRestored ==
    \A c \in Client :
        state[c] = Missing /\ ~torn[c] /\ ~(cmd.phase = "state" /\ cmd.client = c) =>
            BlockOf(file[c]) = original[c]

(* The status never says bypassed while the router's values are in force,  *)
(* nor active while the user's are.                                        *)
StatusTruthful ==
    \A c \in Client : ~torn[c] =>
        /\ Status(c) = "bypassed" => BlockOf(file[c]) = original[c]
        /\ Status(c) = "active" => BlockOf(file[c]) \in Routed

(* docs/claude-code.md: undo restores the original values.  Without the    *)
(* exception for a crash this does not hold.                               *)
(* Refuted by the code: see the findings in the README.                     *)
UndoRestoresOriginal ==
    \A c \in Client : state[c] # Missing => state[c].baseline = original[c]
=============================================================================
