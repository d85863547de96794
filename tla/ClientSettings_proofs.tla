----------------------- MODULE ClientSettings_proofs -----------------------
(***************************************************************************)
(* Theorems about ClientSettings for any clients, blocks and number of     *)
(* edits: the baseline is the user's, what is forgotten is put back, and   *)
(* the status is true.                                                     *)
(*                                                                         *)
(* None of the three is inductive alone.  A command reads the baseline and *)
(* writes it two steps later, so the invariant also says what the running  *)
(* command has read; and a client that is forgotten must have been put     *)
(* back the step before.                                                   *)
(***************************************************************************)
EXTENDS ClientSettings, TLAPS

Configuring == {"routed", "settings", "state"}

(* A configure carries the block the client had before vartma.             *)
BaselineRead ==
    cmd.phase \in Configuring /\ ~torn[cmd.client] => cmd.baseline = original[cmd.client]

RoutedKept ==
    /\ state[Claude] # Missing => routed[Claude] \in Routed
    /\ cmd.phase \in {"settings", "state"} /\ cmd.client = Claude => routed[Claude] \in Routed

(* The state file a command works from stays there, and an undo forgets    *)
(* only what it has put back.                                              *)
Doing ==
    /\ cmd.phase \in {"bypass", "bypassState"} => state[Claude] # Missing
    /\ cmd.phase \in {"undo", "forget"} =>
          /\ state[cmd.client] # Missing
          /\ cmd.client \notin cmd.todo
          /\ \A c \in cmd.todo : state[c] # Missing
    /\ cmd.phase = "forget" => BlockOf(file[cmd.client]) = state[cmd.client].baseline

IInv ==
    /\ TypeOK
    /\ BaselineIsOriginal
    /\ ForgottenIsRestored
    /\ BaselineRead
    /\ RoutedKept
    /\ Doing

-----------------------------------------------------------------------------
(* Blocks and files. *)

LEMMA BlockType == \A f \in File \cup {Missing} : BlockOf(f) \in Block
BY DEF BlockOf, File, Block

LEMMA Merged ==
    ASSUME NEW f \in File \cup {Missing}, NEW b \in Block
    PROVE  Merge(f, b) \in File /\ BlockOf(Merge(f, b)) = b
<1>1. (f # Missing /\ f.other) \in BOOLEAN
  OBVIOUS
<1>2. Merge(f, b) \in File /\ Merge(f, b).block = b
  BY <1>1 DEF Merge, File
<1> QED
  BY <1>2, ClientAssumption DEF BlockOf

(* A file that undo removes was the empty block. *)
LEMMA RestoredBlock ==
    ASSUME TypeOK, NEW c \in Client, state[c] # Missing
    PROVE  /\ Restored(c, state[c]) \in File \cup {Missing}
           /\ BlockOf(Restored(c, state[c])) = state[c].baseline
<1> DEFINE f == Merge(file[c], state[c].baseline)
<1>1. state[c].baseline \in Block /\ file[c] \in File \cup {Missing}
  BY DEF TypeOK, Configured
<1>2. f \in File /\ BlockOf(f) = state[c].baseline
  BY <1>1, Merged
<1>3. f = [block |-> Nothing, other |-> FALSE] => state[c].baseline = Nothing
  BY DEF Merge
<1>4. BlockOf(Missing) = Nothing
  BY DEF BlockOf
<1>5. Restored(c, state[c]) = f \/ (Restored(c, state[c]) = Missing /\ state[c].baseline = Nothing)
  BY <1>3 DEF Restored
<1> HIDE DEF f
<1> QED
  BY <1>2, <1>4, <1>5

(* The fields of the running command. *)
LEMMA Fields ==
    ASSUME TypeOK
    PROVE  /\ cmd.phase \in Configuring =>
                 /\ cmd.client \in Client /\ cmd.block \in Routed /\ cmd.baseline \in Block
                 /\ cmd.read \in File \cup {Missing} /\ cmd.existed \in BOOLEAN
                 /\ \A p \in Configuring :
                      /\ [cmd EXCEPT !.phase = p] \in Cmd
                      /\ [cmd EXCEPT !.phase = p].phase = p
                      /\ [cmd EXCEPT !.phase = p].client = cmd.client
                      /\ [cmd EXCEPT !.phase = p].baseline = cmd.baseline
           /\ cmd.phase = "bypass" => cmd.next \in File
           /\ cmd.phase \in {"bypass", "bypassState"} => cmd.on \in BOOLEAN
           /\ cmd.phase \in {"undo", "forget"} =>
                 /\ cmd.client \in Client /\ cmd.todo \in SUBSET Client
                 /\ [cmd EXCEPT !.phase = "forget"] \in Cmd
                 /\ [cmd EXCEPT !.phase = "forget"].phase = "forget"
                 /\ [cmd EXCEPT !.phase = "forget"].client = cmd.client
                 /\ [cmd EXCEPT !.phase = "forget"].todo = cmd.todo
BY DEF TypeOK, Cmd, Configuring

(* A command that is over, or works on no client, asks for nothing more.    *)
LEMMA Resting ==
    ASSUME NEW c \in Cmd, c.phase \in {"idle", "stop", "inspect"}
    PROVE  c.phase \notin Configuring \cup {"bypass", "bypassState", "undo", "forget"}
BY DEF Configuring

LEMMA InitIInv == ASSUME Init PROVE IInv
<1>1. /\ file \in [Client -> [block : Own \cup {Nothing}, other : BOOLEAN] \cup {Missing}]
      /\ cmd = Idle
      /\ \A c \in Client : state[c] = Missing /\ torn[c] = FALSE
                           /\ original[c] = BlockOf(file[c])
  BY DEF Init
<1>2. file \in [Client -> File \cup {Missing}]
  BY <1>1 DEF File, Block
<1>3. original \in [Client -> Block]
  BY <1>2, BlockType DEF Init
<1>4. cmd \in Cmd /\ cmd.phase = "idle"
  BY <1>1 DEF Idle, Cmd
<1>5. TypeOK
  BY <1>2, <1>3, <1>4, ClientAssumption DEF Init, TypeOK, Block
<1> QED
  BY <1>1, <1>4, <1>5, ClientAssumption
     DEF IInv, BaselineIsOriginal, ForgottenIsRestored, BaselineRead, RoutedKept, Doing, Configuring
-----------------------------------------------------------------------------
(* The steps of the commands. *)

Kept == UNCHANGED <<edits, original, torn>>

(* A command that rests changes no file. *)
LEMMA RestKeeps ==
    ASSUME IInv, Kept, UNCHANGED <<file, routed, state>>, gateway' \in BOOLEAN,
           cmd.phase # "state", cmd' \in Cmd, cmd'.phase \in {"idle", "stop", "inspect"}
    PROVE  IInv'
<1>1. cmd'.phase \notin Configuring \cup {"bypass", "bypassState", "undo", "forget"}
  BY Resting
<1>2. TypeOK'
  BY DEF IInv, TypeOK, Kept
<1> QED
  BY <1>1, <1>2 DEF IInv, BaselineIsOriginal, ForgottenIsRestored, BaselineRead, RoutedKept,
                    Doing, Kept, Configuring

LEMMA ConfigureKeeps == ASSUME IInv, Kept, NEW c \in Client, Configure(c) PROVE IInv'
<1> DEFINE s == state[c]
<1>1. PICK b \in Routed :
        cmd' = [phase    |-> IF c = Claude THEN "routed" ELSE "settings",
                client   |-> c,
                block    |-> b,
                read     |-> file[c],
                baseline |-> IF s = Missing THEN BlockOf(file[c]) ELSE s.baseline,
                existed  |-> IF s = Missing THEN file[c] # Missing ELSE s.existed]
  BY DEF Configure
<1>2. cmd = Idle /\ UNCHANGED <<file, routed, state, gateway>> /\ cmd.phase = "idle"
  BY DEF Configure, Idle
<1>3. file[c] \in File \cup {Missing} /\ s \in Configured \cup {Missing}
  BY DEF IInv, TypeOK
<1>4. /\ cmd'.phase \in {"routed", "settings"} /\ (cmd'.phase = "settings" => c # Claude)
      /\ cmd'.client = c
      /\ cmd'.baseline = IF s = Missing THEN BlockOf(file[c]) ELSE s.baseline
  BY <1>1
<1>5. cmd' \in Cmd
  <2>1. (IF s = Missing THEN BlockOf(file[c]) ELSE s.baseline) \in Block
    BY <1>3, BlockType DEF Configured
  <2>2. (IF s = Missing THEN file[c] # Missing ELSE s.existed) \in BOOLEAN
    BY <1>3 DEF Configured
  <2>3. (IF c = Claude THEN "routed" ELSE "settings") \in {"routed", "settings", "state"}
    OBVIOUS
  <2> QED
    BY <1>1, <1>3, <2>1, <2>2, <2>3 DEF Cmd
<1>6. TypeOK'
  BY <1>2, <1>5 DEF IInv, TypeOK, Kept
<1>7. ~torn[c] => cmd'.baseline = original[c]
  BY <1>2, <1>4 DEF IInv, BaselineIsOriginal, ForgottenIsRestored
<1> QED
  BY <1>2, <1>4, <1>6, <1>7 DEF IInv, BaselineIsOriginal, ForgottenIsRestored, BaselineRead,
                               RoutedKept, Doing, Kept, Configuring

LEMMA WriteRoutedKeeps == ASSUME IInv, Kept, WriteRouted PROVE IInv'
<1>1. /\ cmd.phase = "routed" /\ cmd' = [cmd EXCEPT !.phase = "settings"]
      /\ routed' = [routed EXCEPT ![cmd.client] = cmd.block]
      /\ UNCHANGED <<file, state, gateway>>
  BY DEF WriteRouted
<1>2. /\ cmd.client \in Client /\ cmd.block \in Routed
      /\ cmd' \in Cmd /\ cmd'.phase = "settings"
      /\ cmd'.client = cmd.client /\ cmd'.baseline = cmd.baseline
  BY <1>1, Fields DEF IInv, Configuring
<1>3. TypeOK'
  BY <1>1, <1>2 DEF IInv, TypeOK, Kept, Block
<1>4. RoutedKept'
  BY <1>1, <1>2, ClientAssumption DEF IInv, TypeOK, RoutedKept
<1> QED
  BY <1>1, <1>2, <1>3, <1>4 DEF IInv, BaselineIsOriginal, ForgottenIsRestored, BaselineRead,
                               Doing, Kept, Configuring

LEMMA WriteSettingsKeeps == ASSUME IInv, Kept, WriteSettings PROVE IInv'
<1>1. /\ cmd.phase = "settings" /\ cmd' = [cmd EXCEPT !.phase = "state"]
      /\ file' = [file EXCEPT ![cmd.client] = Merge(cmd.read, cmd.block)]
      /\ UNCHANGED <<routed, state, gateway>>
  BY DEF WriteSettings, Write
<1>2. /\ cmd.client \in Client /\ cmd.block \in Block /\ cmd.read \in File \cup {Missing}
      /\ cmd' \in Cmd /\ cmd'.phase = "state"
      /\ cmd'.client = cmd.client /\ cmd'.baseline = cmd.baseline
  BY <1>1, Fields DEF IInv, Configuring, Block
<1>3. TypeOK'
  BY <1>1, <1>2, Merged DEF IInv, TypeOK, Kept
<1>4. ForgottenIsRestored'
  BY <1>1, <1>2 DEF IInv, TypeOK, ForgottenIsRestored, Kept
<1> QED
  BY <1>1, <1>2, <1>3, <1>4 DEF IInv, BaselineIsOriginal, BaselineRead,
                               RoutedKept, Doing, Kept, Configuring

LEMMA WriteStateKeeps == ASSUME IInv, Kept, WriteState PROVE IInv'
<1> DEFINE c == cmd.client
           s == [baseline |-> cmd.baseline, existed |-> cmd.existed,
                 hash |-> cmd.block, bypassed |-> FALSE]
<1>1. cmd.phase = "state" /\ cmd' = Idle /\ state' = [state EXCEPT ![c] = s]
      /\ UNCHANGED <<file, routed, gateway>>
  BY DEF WriteState
<1>2. c \in Client /\ s \in Configured /\ s # Missing /\ s.baseline = cmd.baseline
  <2>1. /\ c \in Client /\ cmd.block \in Routed /\ cmd.baseline \in Block
        /\ cmd.existed \in BOOLEAN
    BY <1>1, Fields DEF IInv, Configuring
  <2>2. s \in Configured
    BY <2>1 DEF Configured
  <2> QED
    BY <2>1, <2>2, ClientAssumption
<1> HIDE DEF s
<1>3. cmd' \in Cmd /\ cmd'.phase = "idle"
  BY <1>1 DEF Idle, Cmd
<1>4. state'[c] = s /\ \A d \in Client \ {c} : state'[d] = state[d]
  BY <1>1, <1>2 DEF IInv, TypeOK
<1>5. TypeOK'
  BY <1>1, <1>2, <1>3 DEF IInv, TypeOK, Kept
<1>6. BaselineIsOriginal'
  BY <1>1, <1>2, <1>4 DEF IInv, BaselineIsOriginal, BaselineRead, Configuring, Kept
<1>7. ForgottenIsRestored'
  BY <1>1, <1>2, <1>4 DEF IInv, ForgottenIsRestored, Kept
<1>8. RoutedKept'
  BY <1>1, <1>2, <1>3, <1>4, ClientAssumption DEF IInv, RoutedKept
<1> QED
  BY <1>3, <1>5, <1>6, <1>7, <1>8 DEF IInv, BaselineRead, Doing, Configuring

LEMMA BypassKeeps == ASSUME IInv, Kept, NEW on \in BOOLEAN, Bypass(on) PROVE IInv'
<1> DEFINE source == IF on THEN state[Claude].baseline ELSE routed[Claude]
           n == Merge(file[Claude], source)
<1>1. /\ cmd = Idle /\ state[Claude] # Missing
      /\ cmd' = [phase |-> "bypass", on |-> on, next |-> n]
      /\ UNCHANGED <<file, routed, state, gateway>> /\ cmd.phase = "idle"
  BY DEF Bypass, Idle
<1>2. source \in Block /\ file[Claude] \in File \cup {Missing}
  BY <1>1, ClientAssumption DEF IInv, TypeOK, Configured
<1>3. n \in File
  BY <1>2, Merged
<1> HIDE DEF n
<1>4. cmd' \in Cmd /\ cmd'.phase = "bypass"
  BY <1>1, <1>3 DEF Cmd
<1>5. TypeOK'
  BY <1>1, <1>4 DEF IInv, TypeOK, Kept
<1> QED
  BY <1>1, <1>4, <1>5 DEF IInv, BaselineIsOriginal, ForgottenIsRestored, BaselineRead,
                         RoutedKept, Doing, Kept, Configuring

LEMMA WriteBypassKeeps == ASSUME IInv, Kept, WriteBypass PROVE IInv'
<1>1. /\ cmd.phase = "bypass" /\ file' = [file EXCEPT ![Claude] = cmd.next]
      /\ cmd' = [phase |-> "bypassState", on |-> cmd.on]
      /\ UNCHANGED <<routed, state, gateway>>
  BY DEF WriteBypass, Write
<1>2. cmd.next \in File /\ cmd.on \in BOOLEAN /\ Claude \in Client /\ state[Claude] # Missing
  BY <1>1, Fields, ClientAssumption DEF IInv, Doing
<1>3. cmd' \in Cmd /\ cmd'.phase = "bypassState"
  BY <1>1, <1>2 DEF Cmd
<1>4. TypeOK'
  BY <1>1, <1>2, <1>3 DEF IInv, TypeOK, Kept
<1>5. ForgottenIsRestored'
  BY <1>1, <1>2, <1>3 DEF IInv, TypeOK, ForgottenIsRestored, Kept
<1> QED
  BY <1>1, <1>2, <1>3, <1>4, <1>5 DEF IInv, BaselineIsOriginal, BaselineRead,
                                     RoutedKept, Doing, Kept, Configuring

LEMMA WriteBypassStateKeeps == ASSUME IInv, Kept, WriteBypassState PROVE IInv'
<1> DEFINE s == [state[Claude] EXCEPT !.bypassed = cmd.on]
<1>1. /\ cmd.phase = "bypassState" /\ state' = [state EXCEPT ![Claude] = s]
      /\ cmd' = Idle /\ UNCHANGED <<file, routed, gateway>>
  BY DEF WriteBypassState
<1>2. cmd.on \in BOOLEAN /\ Claude \in Client /\ state[Claude] \in Configured
  BY <1>1, Fields, ClientAssumption DEF IInv, TypeOK, Doing
<1>3. s \in Configured /\ s # Missing /\ s.baseline = state[Claude].baseline
  BY <1>2, ClientAssumption DEF Configured
<1> HIDE DEF s
<1>4. cmd' \in Cmd /\ cmd'.phase = "idle"
  BY <1>1 DEF Idle, Cmd
<1>5. state'[Claude] = s /\ \A d \in Client \ {Claude} : state'[d] = state[d]
  BY <1>1, <1>2 DEF IInv, TypeOK
<1>6. state[Claude] # Missing
  BY <1>2, ClientAssumption
<1>7. TypeOK'
  BY <1>1, <1>3, <1>4 DEF IInv, TypeOK, Kept
<1>8. BaselineIsOriginal' /\ RoutedKept'
  BY <1>1, <1>3, <1>4, <1>5, <1>6 DEF IInv, BaselineIsOriginal, RoutedKept, Kept
<1>9. ForgottenIsRestored'
  BY <1>1, <1>3, <1>5 DEF IInv, ForgottenIsRestored, Kept
<1> QED
  BY <1>4, <1>7, <1>8, <1>9 DEF IInv, BaselineRead, Doing, Configuring

LEMMA UndoKeeps == ASSUME IInv, Kept, NEW c \in Client, Undo(c) PROVE IInv'
<1>1. /\ cmd = Idle /\ state[c] # Missing /\ cmd' = Undoing(c, {})
      /\ UNCHANGED <<file, routed, state, gateway>> /\ cmd.phase = "idle"
  BY DEF Undo, Idle
<1>2. cmd' \in Cmd /\ cmd'.phase = "undo" /\ cmd'.client = c /\ cmd'.todo = {}
  BY <1>1 DEF Undoing, Cmd
<1>3. TypeOK'
  BY <1>1, <1>2 DEF IInv, TypeOK, Kept
<1> QED
  BY <1>1, <1>2, <1>3 DEF IInv, BaselineIsOriginal, ForgottenIsRestored, BaselineRead,
                         RoutedKept, Doing, Kept, Configuring

LEMMA RestoreKeeps == ASSUME IInv, Kept, Restore PROVE IInv'
<1> DEFINE f == Restored(cmd.client, state[cmd.client])
<1>1. /\ cmd.phase = "undo" /\ file' = [file EXCEPT ![cmd.client] = f]
      /\ cmd' = [cmd EXCEPT !.phase = "forget"]
      /\ UNCHANGED <<routed, state, gateway>>
  BY DEF Restore, Write
<1>2. /\ cmd.client \in Client /\ state[cmd.client] # Missing
      /\ cmd' \in Cmd /\ cmd'.phase = "forget"
      /\ cmd'.client = cmd.client /\ cmd'.todo = cmd.todo
  BY <1>1, Fields DEF IInv, Doing
<1>3. f \in File \cup {Missing} /\ BlockOf(f) = state[cmd.client].baseline
  BY <1>2, RestoredBlock DEF IInv
<1> HIDE DEF f
<1>4. TypeOK'
  BY <1>1, <1>2, <1>3 DEF IInv, TypeOK, Kept
<1>5. file'[cmd.client] = f /\ \A d \in Client \ {cmd.client} : file'[d] = file[d]
  BY <1>1, <1>2 DEF IInv, TypeOK
<1>6. ForgottenIsRestored'
  BY <1>1, <1>2, <1>5 DEF IInv, ForgottenIsRestored, Kept
<1>7. Doing'
  BY <1>1, <1>2, <1>3, <1>5 DEF IInv, Doing
<1> QED
  BY <1>1, <1>2, <1>4, <1>6, <1>7 DEF IInv, BaselineIsOriginal, BaselineRead,
                                     RoutedKept, Kept, Configuring

LEMMA ForgetKeeps == ASSUME IInv, Kept, Forget PROVE IInv'
<1> DEFINE c == cmd.client
           next == CHOOSE d \in cmd.todo : TRUE
<1>1. /\ cmd.phase = "forget" /\ state' = [state EXCEPT ![c] = Missing]
      /\ cmd' = IF cmd.todo = {} THEN Idle ELSE Undoing(next, {})
      /\ UNCHANGED <<file, routed, gateway>>
  BY DEF Forget
<1>2. /\ c \in Client /\ cmd.todo \in SUBSET Client /\ c \notin cmd.todo
      /\ state[c] # Missing /\ BlockOf(file[c]) = state[c].baseline
      /\ \A d \in cmd.todo : state[d] # Missing
  BY <1>1, Fields DEF IInv, Doing
<1>3. state'[c] = Missing /\ \A d \in Client \ {c} : state'[d] = state[d]
  BY <1>1, <1>2 DEF IInv, TypeOK
<1>4. /\ cmd' \in Cmd /\ cmd'.phase \in {"idle", "undo"}
      /\ cmd'.phase = "undo" => cmd'.client \in cmd.todo /\ cmd'.todo = {}
  <2>1. CASE cmd.todo = {}
    BY <1>1, <2>1 DEF Idle, Cmd
  <2>2. CASE cmd.todo # {}
    <3>1. next \in cmd.todo
      BY <2>2
    <3> HIDE DEF next
    <3> QED
      BY <1>1, <1>2, <2>2, <3>1 DEF Undoing, Cmd
  <2> QED
    BY <2>1, <2>2
<1>5. TypeOK'
  BY <1>1, <1>2, <1>4 DEF IInv, TypeOK, Kept
<1>6. BaselineIsOriginal' /\ RoutedKept'
  BY <1>1, <1>3, <1>4, ClientAssumption DEF IInv, BaselineIsOriginal, RoutedKept, Kept
<1>7. ForgottenIsRestored'
  BY <1>1, <1>2, <1>3 DEF IInv, ForgottenIsRestored, BaselineIsOriginal, Kept
<1>8. Doing'
  BY <1>2, <1>3, <1>4 DEF IInv, Doing
<1>9. BaselineRead'
  BY <1>4 DEF BaselineRead, Configuring
<1> QED
  BY <1>5, <1>6, <1>7, <1>8, <1>9 DEF IInv

LEMMA StopGatewayKeeps == ASSUME IInv, Kept, StopGateway PROVE IInv'
<1>1. cmd.phase = "stop" /\ UNCHANGED <<file, routed, state>> /\ gateway \in BOOLEAN
  BY DEF StopGateway, IInv, TypeOK
<1>2. CASE gateway' = FALSE /\ cmd' = [phase |-> "inspect"]
  <2>1. cmd' \in Cmd /\ cmd'.phase = "inspect"
    BY <1>2 DEF Cmd
  <2> QED
    BY <1>1, <1>2, <2>1, RestKeeps
<1>3. CASE cmd' = Idle /\ UNCHANGED gateway
  <2>1. cmd' \in Cmd /\ cmd'.phase = "idle"
    BY <1>3 DEF Idle, Cmd
  <2> QED
    BY <1>1, <1>3, <2>1, RestKeeps
<1> QED
  BY <1>2, <1>3 DEF StopGateway

LEMMA UninstallKeeps == ASSUME IInv, Kept, Uninstall PROVE IInv'
<1>1. gateway' \in BOOLEAN /\ cmd' \in Cmd /\ cmd'.phase = "stop" /\ cmd.phase = "idle"
  BY DEF Uninstall, Idle, Cmd, IInv, TypeOK
<1> QED
  BY <1>1, RestKeeps DEF Uninstall

LEMMA InspectKeeps == ASSUME IInv, Kept, Inspect PROVE IInv'
<1> DEFINE configured == {c \in Client : Status(c) # "not_configured"}
<1>1. cmd.phase = "inspect" /\ UNCHANGED <<file, routed, state, gateway>>
  BY DEF Inspect
<1>2. \A c \in configured : c \in Client /\ state[c] # Missing
  BY DEF Status
<1>3. CASE cmd' = Idle
  <2>1. cmd' \in Cmd /\ cmd'.phase = "idle" /\ gateway' \in BOOLEAN
    BY <1>1, <1>3 DEF Idle, Cmd, IInv, TypeOK
  <2> QED
    BY <1>1, <2>1, RestKeeps
<1>4. ASSUME NEW c \in configured, NEW todo \in SUBSET (configured \ {c}), cmd' = Undoing(c, todo)
      PROVE  IInv'
  <2>1. cmd' \in Cmd /\ cmd'.phase = "undo" /\ cmd'.client = c /\ cmd'.todo = todo
    BY <1>2, <1>4 DEF Undoing, Cmd
  <2>2. TypeOK'
    BY <1>1, <2>1 DEF IInv, TypeOK, Kept
  <2> QED
    BY <1>1, <1>2, <2>1, <2>2 DEF IInv, BaselineIsOriginal, ForgottenIsRestored, BaselineRead,
                                 RoutedKept, Doing, Kept, Configuring
<1>5. \/ cmd' = Idle
      \/ Claude \in configured /\ cmd' = Undoing(Claude, configured \ {Claude})
      \/ configured # {} /\ cmd' = Undoing(CHOOSE c \in configured : TRUE, {})
  BY DEF Inspect
<1> HIDE DEF configured
<1>6. configured # {} => (CHOOSE c \in configured : TRUE) \in configured
  OBVIOUS
<1> QED
  BY <1>3, <1>4, <1>5, <1>6

LEMMA CommandKeeps == ASSUME IInv, Command PROVE IInv'
<1>1. Kept
  BY DEF Command, Kept
<1> QED
  BY <1>1, ConfigureKeeps, UndoKeeps, WriteRoutedKeeps, WriteSettingsKeeps, WriteStateKeeps,
     BypassKeeps, WriteBypassKeeps, WriteBypassStateKeeps, RestoreKeeps, ForgetKeeps,
     UninstallKeeps, StopGatewayKeeps, InspectKeeps DEF Command

-----------------------------------------------------------------------------
(* Crashes, the user, and the theorems. *)

LEMMA CrashKeeps == ASSUME IInv, Crash PROVE IInv'
<1>1. /\ cmd' = Idle /\ UNCHANGED <<file, routed, state, gateway, edits, original>>
      /\ torn' \in [Client -> BOOLEAN]
      /\ \A c \in Client : torn'[c] <=>
            torn[c] \/ (cmd.phase = "state" /\ cmd.client = c /\ state[c] = Missing)
  BY DEF Crash, IInv, TypeOK
<1>2. cmd' \in Cmd /\ cmd'.phase = "idle"
  BY <1>1 DEF Idle, Cmd
<1>3. TypeOK'
  BY <1>1, <1>2 DEF IInv, TypeOK
<1>4. BaselineIsOriginal' /\ ForgottenIsRestored'
  BY <1>1 DEF IInv, BaselineIsOriginal, ForgottenIsRestored
<1> QED
  BY <1>1, <1>2, <1>3, <1>4 DEF IInv, BaselineRead, RoutedKept, Doing, Configuring

LEMMA EditKeeps == ASSUME IInv, NEW c \in Client, Edit(c) PROVE IInv'
<1>1. PICK f \in [block : Own \cup {BlockOf(file[c])}, other : BOOLEAN] :
        /\ file' = [file EXCEPT ![c] = f]
        /\ original' = IF state[c] = Missing THEN [original EXCEPT ![c] = f.block] ELSE original
  BY DEF Edit, Write
<1>2. /\ cmd = Idle /\ cmd.phase = "idle" /\ edits < MaxEdits /\ edits' = edits + 1
      /\ UNCHANGED <<routed, state, gateway, cmd, torn>>
  BY DEF Edit, Idle
<1>3. f \in File /\ f.block \in Block /\ BlockOf(f) = f.block
  <2>1. BlockOf(file[c]) \in Block /\ Own \subseteq Block
    BY BlockType DEF IInv, TypeOK, Block
  <2>2. f \in File
    BY <1>1, <2>1 DEF File
  <2> QED
    BY <2>2, ClientAssumption DEF File, BlockOf
<1>4. TypeOK'
  BY <1>1, <1>2, <1>3, ClientAssumption DEF IInv, TypeOK
<1>5. /\ file'[c] = f /\ \A d \in Client \ {c} : file'[d] = file[d] /\ original'[d] = original[d]
      /\ state[c] = Missing => original'[c] = f.block
      /\ state[c] # Missing => original'[c] = original[c]
  BY <1>1 DEF IInv, TypeOK
<1>6. BaselineIsOriginal'
  BY <1>2, <1>5 DEF IInv, BaselineIsOriginal
<1>7. ForgottenIsRestored'
  BY <1>2, <1>3, <1>5 DEF IInv, ForgottenIsRestored
<1> QED
  BY <1>2, <1>4, <1>6, <1>7 DEF IInv, BaselineRead, RoutedKept, Doing, Configuring

LEMMA Induction == ASSUME IInv, [Next]_vars PROVE IInv'
<1>1. CASE Start
  <2>1. cmd' \in Cmd /\ gateway' \in BOOLEAN /\ cmd.phase = "idle" /\ cmd' = cmd
        /\ UNCHANGED <<file, routed, state>> /\ Kept
    BY <1>1 DEF Start, Idle, Kept, IInv, TypeOK
  <2> QED
    BY <2>1, RestKeeps
<1>2. CASE UNCHANGED vars
  BY <1>2 DEF IInv, TypeOK, BaselineIsOriginal, ForgottenIsRestored, BaselineRead, RoutedKept,
              Doing, vars
<1> QED
  BY <1>1, <1>2, CommandKeeps, CrashKeeps, EditKeeps DEF Next

(* Every reachable state satisfies the inductive invariant. *)
THEOREM Invariance == Spec => []IInv
<1>1. Init => IInv
  BY InitIInv
<1>2. IInv /\ [Next]_vars => IInv'
  BY Induction
<1> QED
  BY <1>1, <1>2, PTL DEF Spec

(* Settings, states and commands are always well formed: what undo leaves  *)
(* of a file is one, or no file (mergeManagedEnvironment).                 *)
THEOREM TypeCorrect == Spec => []TypeOK
<1>1. IInv => TypeOK
  BY DEF IInv
<1> QED
  BY <1>1, Invariance, PTL

(* However configure, bypass, undo, crashes and edits follow one another:   *)
(* the recorded baseline is the user's own block (configureClaudeCode,     *)
(* configureOpenAIClient).                                                 *)
THEOREM BaselineKept == Spec => []BaselineIsOriginal
<1>1. IInv => BaselineIsOriginal
  BY DEF IInv
<1> QED
  BY <1>1, Invariance, PTL

(* A client without a state file runs with the user's own values           *)
(* (undoClaudeCodeConfiguration, undoOpenAIClientConfiguration,            *)
(* uninstall).                                                             *)
THEOREM RestoredBeforeForgotten == Spec => []ForgottenIsRestored
<1>1. IInv => ForgottenIsRestored
  BY DEF IInv
<1> QED
  BY <1>1, Invariance, PTL

(* The status never calls the router's values bypassed nor the user's      *)
(* active (claudeCodeStatus, openAIClientStatus).                          *)
THEOREM StatusTrue == Spec => []StatusTruthful
<1>1. IInv => StatusTruthful
  <2> SUFFICES ASSUME IInv, NEW c \in Client, ~torn[c]
               PROVE  /\ Status(c) = "bypassed" => BlockOf(file[c]) = original[c]
                      /\ Status(c) = "active" => BlockOf(file[c]) \in Routed
    BY DEF StatusTruthful
  <2>1. CASE state[c] = Missing
    BY <2>1 DEF Status
  <2>2. CASE state[c] # Missing
    <3>1. state[c].baseline = original[c] /\ state[c].bypassed \in BOOLEAN
      BY <2>2 DEF IInv, BaselineIsOriginal, TypeOK, Configured
    <3>2. state[c].hash \in Routed /\ (c = Claude => routed[c] \in Routed)
      BY <2>2 DEF IInv, TypeOK, Configured, RoutedKept
    <3>3. CASE state[c].bypassed
      BY <2>2, <3>1, <3>3 DEF Status
    <3>4. CASE ~state[c].bypassed /\ c = Claude
      BY <2>2, <3>2, <3>4 DEF Status
    <3>5. CASE ~state[c].bypassed /\ c # Claude
      BY <2>2, <3>2, <3>5 DEF Status
    <3> QED
      BY <3>1, <3>3, <3>4, <3>5
  <2> QED
    BY <2>1, <2>2
<1> QED
  BY <1>1, Invariance, PTL
=============================================================================
