----------------------- MODULE ManagedGateway_proofs -----------------------
(***************************************************************************)
(* Theorems about ManagedGateway for any commands, process IDs and bounds: *)
(* stop signals only the gateway it asked about, and a gateway that runs   *)
(* undisturbed is the one the state file names.                            *)
(*                                                                         *)
(* The first rests on a token standing for one process, whoever remembers  *)
(* it: the state file, a command, or the process.  The second needs what   *)
(* each command in progress knows of the state file, and that between the  *)
(* spawn and the end of a start only that start is responsible for the     *)
(* process.                                                                *)
(***************************************************************************)
EXTENDS ManagedGateway, TLAPS

(* The state file, a command or a running gateway pairs a process ID with  *)
(* an instance token.                                                      *)
Bears(p, id) ==
    \/ state = [pid |-> p, id |-> id]
    \/ \E c \in Command : cmd[c].at \notin Alone /\ cmd[c].pid = p /\ cmd[c].id = id
    \/ IsGateway(p) /\ proc[p].id = id /\ id # 0

(* A token stands for one process. *)
OneProcess ==
    \A p, q \in Pid : \A id \in Token :
        Bears(p, id) => id \in 1 .. spawned /\ (Bears(q, id) => p = q)

(* What a command is about to signal is its gateway, unless that has ended. *)
KillsOwn ==
    \A c \in Command : cmd[c].at = "kill" =>
        LET p == proc[cmd[c].pid]
        IN  (p.is = "gateway" /\ p.id = cmd[c].id) \/ c \in lapsed

Live(p) == IsGateway(p) /\ proc[p].id # 0 /\ ~proc[p].dying

Recorded(p) == state = [pid |-> p, id |-> proc[p].id]

(* A gateway of a start that is still at work.                             *)
Watched(p) ==
    \E c \in Command :
        /\ cmd[c].at \in {"write", "wait", "cleanup"}
        /\ cmd[c].pid = p /\ cmd[c].id = proc[p].id
        /\ cmd[c].at # "write" => Recorded(p)

(* A start works on its own. *)
Exclusive ==
    \A c, d \in Command : cmd[c].at \in StartPhase /\ c # d => cmd[d] = Idle

LiveKnown ==
    \A p \in Pid : Live(p) => Watched(p) \/ (Recorded(p) /\ proc[p].phase = "serving")

StateSeen ==
    \A c \in Command :
        /\ cmd[c].at \in {"spawn", "write"} => state = Missing
        /\ cmd[c].at \in {"probe", "wait", "cleanup"} =>
              state = [pid |-> cmd[c].pid, id |-> cmd[c].id]
        /\ cmd[c].at \in {"ask", "kill"} =>
              state \in {Missing, [pid |-> cmd[c].pid, id |-> cmd[c].id]}

NoneLeft ==
    \A c \in Command : cmd[c].at \in {"unlink", "forget", "gone", "poll", "done"} =>
        \A p \in Pid : ~Live(p)

(* Without a disturbance. *)
Calm ==
    /\ Exclusive
    /\ LiveKnown
    /\ StateSeen
    /\ NoneLeft

IInv ==
    /\ TypeOK
    /\ OneProcess
    /\ KillsOwn
    /\ ~disturbed => Calm

-----------------------------------------------------------------------------
(* The steps of one command. *)

Others(c) == \A d \in Command \ {c} : cmd'[d] = cmd[d]

Looking == (StartPhase \cup StopPhase) \ Alone

LEMMA Fields ==
    ASSUME TypeOK, NEW c \in Command
    PROVE  /\ cmd[c].at \in Alone \cup StartPhase \cup StopPhase
           /\ cmd[c].at \notin Alone =>
                /\ cmd[c].at \in Looking
                /\ cmd[c].pid \in Pid /\ cmd[c].id \in Token
                /\ [pid |-> cmd[c].pid, id |-> cmd[c].id] \in Named
BY DEF TypeOK, Cmd, Looking, Named

LEMMA SetTo ==
    ASSUME TypeOK, NEW c \in Command, NEW x \in Cmd, cmd' = [cmd EXCEPT ![c] = x]
    PROVE  cmd' \in [Command -> Cmd] /\ cmd'[c] = x /\ Others(c)
BY DEF TypeOK, Others

LEMMA EndsIdle ==
    ASSUME TypeOK, NEW c \in Command, End(c)
    PROVE  cmd' \in [Command -> Cmd] /\ cmd'[c] = Idle /\ cmd'[c].at = "idle" /\ Others(c)
<1>1. Idle \in Cmd /\ Idle.at = "idle"
  BY DEF Idle, Cmd, Alone
<1> QED
  BY <1>1, SetTo DEF End

LEMMA GoesTo ==
    ASSUME TypeOK, NEW c \in Command, cmd[c].at \notin Alone, NEW phase \in Looking, Go(c, phase)
    PROVE  /\ cmd' \in [Command -> Cmd]
           /\ cmd'[c].at = phase /\ cmd'[c].pid = cmd[c].pid /\ cmd'[c].id = cmd[c].id
           /\ Others(c)
<1> DEFINE x == [cmd[c] EXCEPT !.at = phase]
<1>1. cmd[c] \in [at : Looking, pid : Pid, id : Token]
  BY DEF TypeOK, Cmd, Looking
<1>2. /\ x \in [at : Looking, pid : Pid, id : Token]
      /\ x.at = phase /\ x.pid = cmd[c].pid /\ x.id = cmd[c].id
  BY <1>1
<1>3. cmd' = [cmd EXCEPT ![c] = x]
  BY DEF Go
<1>4. x \in Cmd
  BY <1>2 DEF Cmd, Looking
<1> HIDE DEF x
<1> QED
  BY <1>2, <1>3, <1>4, SetTo

(* Whoever names a process has it from someone who did. *)
LEMMA FewerBear ==
    ASSUME OneProcess, spawned' = spawned,
           \A p \in Pid : \A id \in Token : Bears(p, id)' => Bears(p, id)
    PROVE  OneProcess'
BY DEF OneProcess, Token

(* A step of a command that leaves the processes alone. *)
LEMMA CommandStep ==
    ASSUME TypeOK, OneProcess, KillsOwn, Lapses, NEW c \in Command, Others(c), UNCHANGED <<proc, spawned>>,
           \/ state' \in {state, Missing}
           \/ cmd[c].at \notin Alone /\ state' = [pid |-> cmd[c].pid, id |-> cmd[c].id],
           cmd'[c].at \notin Alone =>
              \/ cmd[c].at \notin Alone /\ cmd'[c].pid = cmd[c].pid /\ cmd'[c].id = cmd[c].id
              \/ state = [pid |-> cmd'[c].pid, id |-> cmd'[c].id],
           cmd'[c].at = "kill" =>
              LET p == proc[cmd'[c].pid] IN p.is = "gateway" /\ p.id = cmd'[c].id
    PROVE  OneProcess' /\ KillsOwn'
<1>1. ASSUME NEW p \in Pid, NEW id \in Token, Bears(p, id)'
      PROVE  Bears(p, id)
  <2>1. CASE state' = [pid |-> p, id |-> id]
    BY <2>1, GatewayAssumption DEF Bears, Named
  <2>2. CASE \E d \in Command : cmd'[d].at \notin Alone /\ cmd'[d].pid = p /\ cmd'[d].id = id
    <3>1. PICK d \in Command : cmd'[d].at \notin Alone /\ cmd'[d].pid = p /\ cmd'[d].id = id
      BY <2>2
    <3>2. CASE d = c
      BY <3>1, <3>2 DEF Bears
    <3>3. CASE d # c
      BY <3>1, <3>3 DEF Bears, Others
    <3> QED
      BY <3>2, <3>3
  <2>3. CASE IsGateway(p)' /\ proc'[p].id = id /\ id # 0
    BY <2>3 DEF Bears, IsGateway
  <2> QED
    BY <1>1, <2>1, <2>2, <2>3 DEF Bears
<1>2. OneProcess'
  BY <1>1, FewerBear
<1>3. KillsOwn'
  BY DEF KillsOwn, Others, Lapses
<1> QED
  BY <1>2, <1>3

(* A step of a process that keeps its token, or ends. *)
LEMMA ProcessStep ==
    ASSUME TypeOK, OneProcess, KillsOwn, Lapses, NEW p \in Pid, NEW q \in Gateway \cup {Dead, Stranger},
           proc' = [proc EXCEPT ![p] = q], UNCHANGED spawned,
           q = Dead \/ (IsGateway(p) /\ q \in Gateway /\ q.id = proc[p].id),
           \/ UNCHANGED <<state, cmd>>
           \/ \E c \in Command :
                 /\ Others(c) /\ cmd[c].at \notin Alone /\ UNCHANGED state
                 /\ cmd'[c].at # "kill" /\ cmd'[c].pid = cmd[c].pid /\ cmd'[c].id = cmd[c].id
    PROVE  OneProcess' /\ KillsOwn' /\ \A r \in Pid : Live(r)' => Live(r) \/ (r = p /\ Live(p)')
<1>1. proc'[p] = q /\ \A r \in Pid \ {p} : proc'[r] = proc[r]
  BY DEF TypeOK
<1>2. q \in Gateway => q.is = "gateway"
  BY DEF Gateway
<1>3. \A d \in Command : cmd'[d].at \notin Alone =>
          cmd[d].at \notin Alone /\ cmd'[d].pid = cmd[d].pid /\ cmd'[d].id = cmd[d].id
  BY DEF Others
<1>4. ASSUME NEW r \in Pid, NEW id \in Token, Bears(r, id)'
      PROVE  Bears(r, id)
  <2>1. CASE state' = [pid |-> r, id |-> id]
    BY <2>1 DEF Bears
  <2>2. CASE \E d \in Command : cmd'[d].at \notin Alone /\ cmd'[d].pid = r /\ cmd'[d].id = id
    BY <1>3, <2>2 DEF Bears
  <2>3. CASE IsGateway(r)' /\ proc'[r].id = id /\ id # 0
    BY <1>1, <1>2, <2>3 DEF Bears, IsGateway, Dead
  <2> QED
    BY <1>4, <2>1, <2>2, <2>3 DEF Bears
<1>5. OneProcess'
  BY <1>4, FewerBear
<1>6. \A d \in Command : cmd'[d].at = "kill" => cmd[d] = cmd'[d]
  BY DEF Others
<1>7. KillsOwn'
  <2> SUFFICES ASSUME NEW d \in Command, cmd'[d].at = "kill"
               PROVE  LET r == proc'[cmd'[d].pid]
                      IN  (r.is = "gateway" /\ r.id = cmd'[d].id) \/ d \in lapsed'
    BY DEF KillsOwn
  <2>1. /\ cmd[d].at = "kill" /\ cmd'[d] = cmd[d] /\ cmd[d].pid \in Pid
        /\ LET r == proc[cmd[d].pid]
           IN  (r.is = "gateway" /\ r.id = cmd[d].id) \/ d \in lapsed
    BY <1>6, Fields DEF KillsOwn, Alone
  <2>4. d \in lapsed \/ proc'[cmd[d].pid] = Dead => d \in lapsed'
    BY <2>1 DEF Lapses
  <2>2. CASE cmd[d].pid = p
    BY <1>1, <1>2, <2>1, <2>2, <2>4 DEF IsGateway
  <2>3. CASE cmd[d].pid # p
    BY <1>1, <2>1, <2>3, <2>4
  <2> QED
    BY <2>2, <2>3
<1>8. \A r \in Pid : Live(r)' => Live(r) \/ (r = p /\ Live(p)')
  BY <1>1 DEF Live, IsGateway
<1> QED
  BY <1>5, <1>7, <1>8
-----------------------------------------------------------------------------
(* What the commands know of one another when nothing disturbs them. *)

LEMMA StartAlone ==
    ASSUME Calm, NEW c \in Command, cmd[c].at \in StartPhase
    PROVE  \A d \in Command \ {c} : cmd[d] = Idle
BY DEF Calm, Exclusive

LEMMA StopAlone ==
    ASSUME Calm, NEW c \in Command, cmd[c].at \in StopPhase
    PROVE  /\ \A d \in Command : cmd[d].at \notin StartPhase
           /\ \A p \in Pid : Live(p) => Recorded(p) /\ proc[p].phase = "serving"
<1>1. cmd[c] # Idle /\ cmd[c].at \notin StartPhase
  BY DEF Idle, StartPhase, StopPhase
<1>2. \A d \in Command : cmd[d].at \notin StartPhase
  BY <1>1 DEF Calm, Exclusive
<1>3. \A p \in Pid : ~Watched(p)
  BY <1>2 DEF Watched, StartPhase
<1> QED
  BY <1>2, <1>3 DEF Calm, LiveKnown

(* What a step of a start has to show. *)
LEMMA StartCalm ==
    ASSUME Calm, NEW c \in Command, cmd[c].at \in StartPhase, Others(c),
           LiveKnown',
           cmd'[c].at \in {"spawn", "write"} => state' = Missing,
           cmd'[c].at \in {"probe", "wait", "cleanup"} =>
               state' = [pid |-> cmd'[c].pid, id |-> cmd'[c].id],
           cmd'[c].at \notin {"ask", "kill", "gone", "poll", "done"},
           cmd'[c].at \in {"unlink", "forget"} => \A p \in Pid : ~Live(p)'
    PROVE  Calm'
<1>1. \A d \in Command \ {c} : cmd'[d] = Idle /\ cmd'[d].at = "idle"
  BY StartAlone DEF Others, Idle
<1>2. Exclusive'
  BY <1>1 DEF Exclusive, StartPhase
<1>3. StateSeen'
  BY <1>1 DEF StateSeen
<1>4. NoneLeft'
  BY <1>1 DEF NoneLeft
<1> QED
  BY <1>2, <1>3, <1>4 DEF Calm

(* What a step of a stop has to show. *)
LEMMA StopCalm ==
    ASSUME Calm, NEW c \in Command, cmd[c].at \in StopPhase, Others(c),
           cmd'[c] = Idle \/ cmd'[c].at \in StopPhase,
           state' = state \/ (state' = Missing /\ \A p \in Pid : ~Live(p)'),
           \A p \in Pid : Live(p)' => Live(p) /\ proc'[p] = proc[p],
           cmd'[c].at \in {"ask", "kill"} =>
               state' \in {Missing, [pid |-> cmd'[c].pid, id |-> cmd'[c].id]},
           cmd'[c].at \in {"gone", "poll", "done"} => \A p \in Pid : ~Live(p)'
    PROVE  Calm'
<1>1. \A d \in Command : cmd'[d].at \notin StartPhase
  BY StopAlone DEF Others, Idle, StartPhase, StopPhase
<1>2. Exclusive'
  BY <1>1 DEF Exclusive
<1>3. LiveKnown'
  BY StopAlone DEF LiveKnown, Recorded
<1>4. StateSeen'
  <2>1. ASSUME NEW d \in Command, cmd'[d].at \in {"ask", "kill"}
        PROVE  state' \in {Missing, [pid |-> cmd'[d].pid, id |-> cmd'[d].id]}
    BY <2>1 DEF Calm, StateSeen, Others
  <2> QED
    BY <1>1, <2>1 DEF StateSeen, StartPhase
<1>5. NoneLeft'
  <2>1. ASSUME NEW d \in Command \ {c}, NEW p \in Pid,
               cmd'[d].at \in {"forget", "gone", "poll", "done"}
        PROVE  ~Live(p)'
    BY <2>1 DEF Calm, NoneLeft, Others
  <2>2. \A d \in Command : cmd'[d].at \notin {"unlink", "forget"}
    BY <1>1 DEF StartPhase
  <2> QED
    BY <2>1, <2>2 DEF NoneLeft
<1> QED
  BY <1>2, <1>3, <1>4, <1>5 DEF Calm

LEMMA InitIInv == ASSUME Init PROVE IInv
<1>1. /\ state = Missing /\ spawned = 0 /\ others = 0 /\ disturbed = FALSE
      /\ proc \in [Pid -> {Dead}] /\ cmd \in [Command -> {Idle}] /\ Idle.at = "idle"
  BY DEF Init, Idle
<1>2. Idle \in Cmd
  BY DEF Idle, Cmd, Alone
<1>3. TypeOK
  <2>1. proc \in [Pid -> Gateway \cup {Dead, Stranger}] /\ cmd \in [Command -> Cmd]
    BY <1>1, <1>2
  <2>2. spawned \in Token /\ others \in 0 .. MaxOthers
    BY <1>1, GatewayAssumption DEF Token
  <2> QED
    BY <2>1, <2>2 DEF TypeOK, Init
<1>4. \A p \in Pid : ~IsGateway(p)
  BY <1>1 DEF IsGateway, Dead
<1>5. \A p \in Pid, id \in Token : ~Bears(p, id)
  BY <1>1, <1>4, GatewayAssumption DEF Bears, Named, Alone
<1>6. OneProcess
  BY <1>5 DEF OneProcess
<1>7. KillsOwn /\ Exclusive /\ StateSeen /\ NoneLeft
  BY <1>1 DEF KillsOwn, Exclusive, StateSeen, NoneLeft, StartPhase
<1>8. LiveKnown
  BY <1>4 DEF LiveKnown, Live
<1> QED
  BY <1>3, <1>6, <1>7, <1>8 DEF IInv, Calm

-----------------------------------------------------------------------------
(* start *)

LEMMA BeginKeeps ==
    ASSUME IInv, Lapses, NEW c \in Command, NEW phase \in {"read", "stopRead"}, Begin(c, phase)
    PROVE  IInv'
<1> DEFINE x == [at |-> phase]
<1>1. /\ cmd[c] = Idle /\ cmd[c].at = "idle" /\ cmd' = [cmd EXCEPT ![c] = x]
      /\ UNCHANGED <<state, proc, spawned, others>>
      /\ disturbed' \in BOOLEAN
      /\ ~disturbed' => ~disturbed /\ Starting = {}
      /\ ~disturbed' /\ phase = "read" => \A d \in Command : cmd[d] = Idle
  BY DEF Begin, Idle, IInv, TypeOK, StartPhase
<1>2. x \in Cmd /\ x.at = phase /\ phase \in Alone
  BY DEF Cmd, Alone
<1> HIDE DEF x
<1>3. cmd' \in [Command -> Cmd] /\ cmd'[c] = x /\ Others(c)
  BY <1>1, <1>2, SetTo DEF IInv
<1>4. TypeOK'
  BY <1>1, <1>3 DEF IInv, TypeOK, Lapses
<1>5. OneProcess' /\ KillsOwn'
  BY <1>1, <1>2, <1>3, CommandStep DEF IInv
<1>6. ASSUME ~disturbed' PROVE Calm'
  <2>1. Calm /\ \A d \in Command : cmd[d].at \notin StartPhase
    BY <1>1, <1>6 DEF IInv, Starting
  <2>2. Exclusive'
    BY <1>1, <1>2, <1>3, <1>6, <2>1 DEF Exclusive, Others, StartPhase
  <2>3. LiveKnown'
    BY <1>1, <2>1 DEF Calm, LiveKnown, Live, IsGateway, Recorded, Watched, StartPhase
  <2>4. StateSeen' /\ NoneLeft'
    BY <1>1, <1>2, <1>3, <2>1 DEF Calm, StateSeen, NoneLeft, Others, Live, IsGateway
  <2> QED
    BY <2>2, <2>3, <2>4 DEF Calm
<1> QED
  BY <1>4, <1>5, <1>6 DEF IInv

LEMMA ReadStartKeeps == ASSUME IInv, Lapses, NEW c \in Command, ReadStart(c) PROVE IInv'
<1> DEFINE x == IF state = Missing THEN [at |-> "spawn"]
                ELSE IF ~processExists(state.pid) THEN [at |-> "unlink"]
                ELSE [at |-> "probe", pid |-> state.pid, id |-> state.id]
<1>1. /\ cmd[c].at = "read" /\ cmd' = [cmd EXCEPT ![c] = x]
      /\ UNCHANGED <<state, proc, spawned, others, disturbed>>
  BY DEF ReadStart
<1>2. state # Missing => state \in Named /\ state = [pid |-> state.pid, id |-> state.id]
  BY DEF IInv, TypeOK, Named
<1>3. /\ x.at \in {"spawn", "unlink", "probe"}
      /\ x.at = "spawn" => state = Missing
      /\ x.at = "unlink" => state # Missing /\ proc[state.pid] = Dead
      /\ x.at = "probe" => state = [pid |-> x.pid, id |-> x.id]
  BY <1>2 DEF processExists
<1>4. x \in Cmd
  BY <1>2 DEF Cmd, Alone, StartPhase, Named
<1> HIDE DEF x
<1>5. cmd' \in [Command -> Cmd] /\ cmd'[c] = x /\ Others(c)
  BY <1>1, <1>4, SetTo DEF IInv
<1>6. TypeOK'
  BY <1>1, <1>5 DEF IInv, TypeOK, Lapses
<1>7. OneProcess' /\ KillsOwn'
  BY <1>1, <1>3, <1>5, CommandStep DEF IInv, Alone
<1>8. ASSUME ~disturbed' PROVE Calm'
  <2>1. Calm /\ \A d \in Command \ {c} : cmd[d] = Idle /\ cmd[d].at = "idle"
    BY <1>1, <1>8, StartAlone DEF IInv, StartPhase, Idle
  <2>2. \A p \in Pid : ~Watched(p)
    BY <1>1, <2>1 DEF Watched
  <2>3. \A p \in Pid : Live(p) => Recorded(p) /\ proc[p].phase = "serving"
    BY <2>1, <2>2 DEF Calm, LiveKnown
  <2>4. x.at = "unlink" => \A p \in Pid : ~Live(p)
    BY <1>3, <2>3 DEF Recorded, Live, IsGateway, Dead
  <2>5. \A p \in Pid : Live(p)' <=> Live(p)
    BY <1>1 DEF Live, IsGateway
  <2>6. LiveKnown'
    BY <1>1, <2>3, <2>5 DEF LiveKnown, Recorded
  <2> QED
    BY <1>1, <1>3, <1>5, <2>1, <2>4, <2>5, <2>6, StartCalm DEF StartPhase
<1> QED
  BY <1>6, <1>7, <1>8 DEF IInv

LEMMA OwnsTells ==
    ASSUME TypeOK, NEW c \in Command, cmd[c].at \notin Alone, NEW answer \in BOOLEAN, Owns(c, answer)
    PROVE  /\ disturbed' \in BOOLEAN
           /\ ~disturbed' => ~disturbed
           /\ answer => \E p \in Bound : proc[p].id = cmd[c].id
           /\ ~answer /\ ~disturbed' => \A p \in Serving : proc[p].id # cmd[c].id
BY DEF Owns, Answers, TypeOK

LEMMA ProbeKeeps == ASSUME IInv, Lapses, NEW c \in Command, Probe(c) PROVE IInv'
<1>1. cmd[c].at = "probe" /\ UNCHANGED <<state, proc, spawned, others>> /\ cmd[c].at \notin Alone
  BY DEF Probe, Alone
<1>2. PICK answer \in BOOLEAN :
        Owns(c, answer) /\ IF answer THEN End(c) ELSE cmd' = [cmd EXCEPT ![c] = [at |-> "unlink"]]
  BY DEF Probe
<1>3. /\ cmd' \in [Command -> Cmd] /\ Others(c)
      /\ answer => cmd'[c].at = "idle"
      /\ ~answer => cmd'[c].at = "unlink"
  <2>1. CASE answer
    BY <1>2, <2>1, EndsIdle DEF IInv
  <2>2. CASE ~answer
    <3> DEFINE x == [at |-> "unlink"]
    <3>1. x \in Cmd /\ x.at = "unlink"
      BY DEF Cmd, Alone
    <3> HIDE DEF x
    <3>2. cmd' = [cmd EXCEPT ![c] = x]
      BY <1>2, <2>2 DEF x
    <3> QED
      BY <2>2, <3>1, <3>2, SetTo DEF IInv
  <2> QED
    BY <2>1, <2>2
<1>4. TypeOK'
  BY <1>1, <1>2, <1>3, OwnsTells DEF IInv, TypeOK, Lapses
<1>5. OneProcess' /\ KillsOwn'
  BY <1>1, <1>3, CommandStep DEF IInv, Alone
<1>6. ASSUME ~disturbed' PROVE Calm'
  <2>1. /\ Calm
        /\ \A p \in Serving : ~answer => proc[p].id # cmd[c].id
    BY <1>1, <1>2, <1>6, OwnsTells DEF IInv
  <2>2. \A d \in Command \ {c} : cmd[d] = Idle /\ cmd[d].at = "idle"
    BY <1>1, <2>1, StartAlone DEF StartPhase, Idle
  <2>3. \A p \in Pid : ~Watched(p)
    BY <1>1, <2>2 DEF Watched
  <2>4. \A p \in Pid : Live(p) => Recorded(p) /\ proc[p].phase = "serving"
    BY <2>1, <2>3 DEF Calm, LiveKnown
  <2>5. state = [pid |-> cmd[c].pid, id |-> cmd[c].id]
    BY <1>1, <2>1 DEF Calm, StateSeen
  <2>6. ~answer => \A p \in Pid : ~Live(p)
    BY <2>1, <2>4, <2>5 DEF Recorded, Live, Serving, Bound
  <2>7. \A p \in Pid : Live(p)' <=> Live(p)
    BY <1>1 DEF Live, IsGateway
  <2>8. LiveKnown'
    BY <1>1, <2>4, <2>7 DEF LiveKnown, Recorded
  <2> QED
    BY <1>1, <1>3, <2>1, <2>6, <2>7, <2>8, StartCalm DEF StartPhase
<1> QED
  BY <1>4, <1>5, <1>6 DEF IInv

LEMMA UnlinkKeeps == ASSUME IInv, Lapses, NEW c \in Command, Unlink(c) PROVE IInv'
<1> DEFINE x == [cmd[c] EXCEPT !.at = "spawn"]
<1>1. /\ cmd[c].at = "unlink" /\ state' = Missing /\ cmd' = [cmd EXCEPT ![c] = x]
      /\ UNCHANGED <<proc, spawned, others, disturbed>>
  BY DEF Unlink, Go
<1>2. x \in Cmd /\ x.at = "spawn"
  <2>1. cmd[c] \in [at : Alone]
    BY <1>1 DEF IInv, TypeOK, Cmd, Alone
  <2> QED
    BY <2>1 DEF Cmd, Alone
<1> HIDE DEF x
<1>3. cmd' \in [Command -> Cmd] /\ cmd'[c] = x /\ Others(c)
  BY <1>1, <1>2, SetTo DEF IInv
<1>4. TypeOK'
  BY <1>1, <1>3 DEF IInv, TypeOK, Lapses
<1>5. OneProcess' /\ KillsOwn'
  BY <1>1, <1>2, <1>3, CommandStep DEF IInv, Alone
<1>6. ASSUME ~disturbed' PROVE Calm'
  <2>1. Calm /\ \A p \in Pid : ~Live(p)'
    BY <1>1, <1>6 DEF IInv, Calm, NoneLeft, Live, IsGateway
  <2>2. LiveKnown'
    BY <2>1 DEF LiveKnown
  <2> QED
    BY <1>1, <1>2, <1>3, <2>1, <2>2, StartCalm DEF StartPhase
<1> QED
  BY <1>4, <1>5, <1>6 DEF IInv

(* A new process has a process ID nobody is about to signal, and a token    *)
(* nobody has, or none.                                                    *)
LEMMA NewProcess ==
    ASSUME IInv, NEW p \in Pid, Free(p), NEW id \in Token, proc' = [proc EXCEPT ![p] = Fresh(id)]
    PROVE  /\ proc' \in [Pid -> Gateway \cup {Dead, Stranger}]
           /\ proc'[p] = Fresh(id) /\ \A r \in Pid \ {p} : proc'[r] = proc[r]
           /\ \A c \in Command : cmd[c].at = "kill" =>
                  cmd[c].pid \in Pid /\ (cmd[c].pid # p \/ c \in lapsed)
           /\ ~Live(p)
<1>1. Fresh(id) \in Gateway
  BY DEF Fresh, Gateway, Booting
<1>2. proc \in [Pid -> Gateway \cup {Dead, Stranger}]
  BY DEF IInv, TypeOK
<1>3. ASSUME NEW c \in Command, cmd[c].at = "kill"
      PROVE  cmd[c].pid \in Pid /\ (cmd[c].pid # p \/ c \in lapsed)
  <2>1. cmd[c].pid \in Pid
    BY <1>3, Fields DEF IInv, Alone
  <2>2. proc[p].is = "dead"
    BY DEF Free, processExists, Dead
  <2> QED
    BY <1>3, <2>1, <2>2 DEF IInv, KillsOwn
<1>4. ~Live(p)
  BY DEF Live, IsGateway, Free, processExists, Dead
<1> QED
  BY <1>1, <1>2, <1>3, <1>4

LEMMA SpawnKeeps == ASSUME IInv, Lapses, NEW c \in Command, Spawn(c) PROVE IInv'
<1>1. cmd[c].at = "spawn" /\ UNCHANGED <<state, others, disturbed>>
  BY DEF Spawn
<1>2. CASE End(c) /\ UNCHANGED <<proc, spawned>>
  <2>1. cmd' \in [Command -> Cmd] /\ cmd'[c].at = "idle" /\ Others(c)
    BY <1>2, EndsIdle DEF IInv
  <2>2. TypeOK'
    BY <1>1, <1>2, <2>1 DEF IInv, TypeOK, Lapses
  <2>3. OneProcess' /\ KillsOwn'
    BY <1>1, <1>2, <2>1, CommandStep DEF IInv, Alone
  <2>4. ASSUME ~disturbed' PROVE Calm'
    <3>1. Calm /\ \A p \in Pid : Live(p)' => Live(p)
      BY <1>1, <1>2, <2>4 DEF IInv, Live, IsGateway
    <3>2. \A d \in Command \ {c} : cmd[d] = Idle /\ cmd[d].at = "idle"
      BY <1>1, <3>1, StartAlone DEF StartPhase, Idle
    <3>3. \A p \in Pid : ~Watched(p)
      BY <1>1, <3>2 DEF Watched
    <3>4. LiveKnown'
      BY <1>1, <1>2, <3>1, <3>3 DEF Calm, LiveKnown, Recorded
    <3> QED
      BY <1>1, <2>1, <3>1, <3>4, StartCalm DEF StartPhase
  <2> QED
    BY <2>2, <2>3, <2>4 DEF IInv
<1>3. CASE /\ spawned < MaxSpawns /\ \E p \in Pid : Free(p)
           /\ \E p \in {q \in Pid : Free(q)} :
                /\ proc' = [proc EXCEPT ![p] = Fresh(spawned + 1)]
                /\ spawned' = spawned + 1
                /\ cmd' = [cmd EXCEPT ![c] = [at |-> "write", pid |-> p, id |-> spawned + 1]]
  <2>1. PICK p \in Pid :
          /\ Free(p) /\ spawned' = spawned + 1
          /\ proc' = [proc EXCEPT ![p] = Fresh(spawned + 1)]
          /\ cmd' = [cmd EXCEPT ![c] = [at |-> "write", pid |-> p, id |-> spawned + 1]]
    BY <1>3
  <2> DEFINE id == spawned + 1
             x == [at |-> "write", pid |-> p, id |-> id]
  <2>2. /\ spawned \in 0 .. MaxSpawns /\ id \in Token /\ id \in 1 .. spawned' /\ id # 0
        /\ id > spawned /\ spawned' \in Token /\ 1 .. spawned \subseteq 1 .. spawned'
    BY <1>3, <2>1, GatewayAssumption DEF IInv, TypeOK, Token
  <2>3. x \in Cmd /\ x.at = "write" /\ x.pid = p /\ x.id = id
    BY <2>2 DEF Cmd, StartPhase, StopPhase, Alone
  <2>4. cmd' = [cmd EXCEPT ![c] = x] /\ proc' = [proc EXCEPT ![p] = Fresh(id)]
    BY <2>1
  <2> HIDE DEF x, id
  <2>5. cmd' \in [Command -> Cmd] /\ cmd'[c] = x /\ Others(c)
    BY <2>3, <2>4, SetTo DEF IInv
  <2>6. /\ proc' \in [Pid -> Gateway \cup {Dead, Stranger}]
        /\ proc'[p] = Fresh(id) /\ \A r \in Pid \ {p} : proc'[r] = proc[r]
        /\ \A d \in Command : cmd[d].at = "kill" =>
               cmd[d].pid \in Pid /\ (cmd[d].pid # p \/ d \in lapsed)
    BY <2>1, <2>2, <2>4, NewProcess
  <2>7. TypeOK'
    BY <1>1, <2>2, <2>5, <2>6 DEF IInv, TypeOK, Lapses
  <2>8. ASSUME NEW r \in Pid, NEW i \in Token, Bears(r, i)'
        PROVE  Bears(r, i) \/ (r = p /\ i = id)
    <3>1. CASE state' = [pid |-> r, id |-> i]
      BY <1>1, <3>1 DEF Bears
    <3>2. CASE \E d \in Command : cmd'[d].at \notin Alone /\ cmd'[d].pid = r /\ cmd'[d].id = i
      BY <2>3, <2>5, <3>2 DEF Bears, Others
    <3>3. CASE IsGateway(r)' /\ proc'[r].id = i /\ i # 0
      BY <2>6, <3>3 DEF Bears, IsGateway, Fresh
    <3> QED
      BY <2>8, <3>1, <3>2, <3>3 DEF Bears
  <2>9. OneProcess'
    <3> SUFFICES ASSUME NEW r \in Pid, NEW s \in Pid, NEW i \in Token, Bears(r, i)'
                 PROVE  i \in 1 .. spawned' /\ (Bears(s, i)' => r = s)
      BY DEF OneProcess
    <3>1. ~(id \in 1 .. spawned)
      BY <2>2
    <3>2. ~Bears(r, id) /\ ~Bears(s, id)
      BY <2>2, <3>1 DEF IInv, OneProcess
    <3>3. CASE i = id
      BY <2>2, <2>8, <3>2, <3>3
    <3>4. CASE i # id
      BY <2>2, <2>8, <3>4 DEF IInv, OneProcess
    <3> QED
      BY <3>3, <3>4
  <2>10. KillsOwn'
    <3>1. ASSUME NEW d \in Command, cmd'[d].at = "kill"
          PROVE  d # c /\ cmd'[d] = cmd[d] /\ (d \in lapsed => d \in lapsed')
      BY <2>3, <2>5, <3>1 DEF Others, Lapses
    <3> QED
      BY <2>6, <3>1 DEF IInv, KillsOwn
  <2>11. ASSUME ~disturbed' PROVE Calm'
    <3>1. Calm /\ state = Missing
      BY <1>1, <2>11 DEF IInv, Calm, StateSeen
    <3>2. \A d \in Command \ {c} : cmd[d] = Idle /\ cmd[d].at = "idle"
      BY <1>1, <3>1, StartAlone DEF StartPhase, Idle
    <3>3. \A r \in Pid : ~(Live(r) /\ Recorded(r))
      <4>1. ASSUME NEW r \in Pid, Live(r), Recorded(r) PROVE FALSE
        <5>1. proc[r].id \in Token
          BY <4>1 DEF Live, IsGateway, IInv, TypeOK, Gateway, Dead, Stranger
        <5> QED
          BY <3>1, <4>1, <5>1, GatewayAssumption DEF Recorded, Named
      <4> QED
        BY <4>1
    <3>4. \A r \in Pid : ~Live(r)
      BY <1>1, <3>1, <3>2, <3>3 DEF Calm, LiveKnown, Watched
    <3>5. \A r \in Pid \ {p} : ~Live(r)'
      BY <2>6, <3>4 DEF Live, IsGateway
    <3>6. LiveKnown'
      BY <2>3, <2>5, <2>6, <3>5 DEF LiveKnown, Watched, Fresh
    <3> QED
      BY <1>1, <2>3, <2>5, <3>1, <3>6, StartCalm DEF StartPhase
  <2> QED
    BY <2>7, <2>9, <2>10, <2>11 DEF IInv
<1> QED
  BY <1>2, <1>3 DEF Spawn

LEMMA WriteStateKeeps == ASSUME IInv, Lapses, NEW c \in Command, WriteState(c) PROVE IInv'
<1>1. /\ cmd[c].at = "write" /\ cmd[c].at \notin Alone
      /\ UNCHANGED <<proc, spawned, others, disturbed>>
  BY DEF WriteState, Alone
<1>2. \A p \in Pid : Live(p)' <=> Live(p)
  BY <1>1 DEF Live, IsGateway
<1>3. CASE state = Missing /\ state' = [pid |-> cmd[c].pid, id |-> cmd[c].id] /\ Go(c, "wait")
  <2>1. "wait" \in Looking
    BY DEF Looking, StartPhase, Alone
  <2>2. /\ cmd' \in [Command -> Cmd] /\ Others(c)
        /\ cmd'[c].at = "wait" /\ cmd'[c].pid = cmd[c].pid /\ cmd'[c].id = cmd[c].id
    BY <1>1, <1>3, <2>1, GoesTo DEF IInv
  <2>3. state' \in Named
    BY <1>1, <1>3, Fields DEF IInv
  <2>4. TypeOK'
    BY <1>1, <2>2, <2>3 DEF IInv, TypeOK, Lapses
  <2>5. OneProcess' /\ KillsOwn'
    BY <1>1, <1>3, <2>2, CommandStep DEF IInv
  <2>6. ASSUME ~disturbed' PROVE Calm'
    <3>1. Calm /\ \A d \in Command \ {c} : cmd[d] = Idle /\ cmd[d].at = "idle"
      BY <1>1, <2>6, StartAlone DEF IInv, StartPhase, Idle
    <3>2. ASSUME NEW p \in Pid, Live(p) PROVE Watched(p)'
      <4>1. ~Recorded(p)
        <5>1. proc[p].id \in Token
          BY <3>2 DEF Live, IsGateway, IInv, TypeOK, Gateway, Dead, Stranger
        <5> QED
          BY <1>3, <5>1, GatewayAssumption DEF Recorded, Named
      <4>2. cmd[c].pid = p /\ cmd[c].id = proc[p].id
        BY <1>1, <3>1, <3>2, <4>1 DEF Calm, LiveKnown, Watched
      <4> QED
        BY <1>1, <1>3, <2>2, <4>2 DEF Watched, Recorded
    <3>3. LiveKnown'
      BY <1>2, <3>2 DEF LiveKnown
    <3> QED
      BY <1>1, <1>3, <2>2, <3>1, <3>3, StartCalm DEF StartPhase
  <2> QED
    BY <2>4, <2>5, <2>6 DEF IInv
<1>4. CASE state # Missing /\ End(c) /\ UNCHANGED state
  <2>1. cmd' \in [Command -> Cmd] /\ cmd'[c].at = "idle" /\ Others(c)
    BY <1>4, EndsIdle DEF IInv
  <2>2. TypeOK'
    BY <1>1, <1>4, <2>1 DEF IInv, TypeOK, Lapses
  <2>3. OneProcess' /\ KillsOwn'
    BY <1>1, <1>4, <2>1, CommandStep DEF IInv, Alone
  <2>4. disturbed'
    BY <1>1, <1>4 DEF IInv, TypeOK, Calm, StateSeen
  <2> QED
    BY <2>2, <2>3, <2>4 DEF IInv
<1> QED
  BY <1>3, <1>4 DEF WriteState

(* The deadline of the health checks, or a process that has gone. *)
LEMMA GivesUp ==
    ASSUME IInv, Lapses, NEW c \in Command, cmd[c].at = "wait", Go(c, "cleanup"),
           UNCHANGED <<state, proc, spawned, others, disturbed>>
    PROVE  IInv'
<1>1. cmd[c].at \notin Alone /\ "cleanup" \in Looking
  BY DEF Looking, StartPhase, Alone
<1>2. /\ cmd' \in [Command -> Cmd] /\ Others(c)
      /\ cmd'[c].at = "cleanup" /\ cmd'[c].pid = cmd[c].pid /\ cmd'[c].id = cmd[c].id
  BY <1>1, GoesTo DEF IInv
<1>3. TypeOK'
  BY <1>2 DEF IInv, TypeOK, Lapses
<1>4. OneProcess' /\ KillsOwn'
  BY <1>1, <1>2, CommandStep DEF IInv
<1>5. ASSUME ~disturbed' PROVE Calm'
  <2>1. Calm /\ state = [pid |-> cmd[c].pid, id |-> cmd[c].id]
    BY <1>5 DEF IInv, Calm, StateSeen
  <2>2. ASSUME NEW p \in Pid, Live(p) PROVE Watched(p)' \/ (Recorded(p) /\ proc[p].phase = "serving")
    <3>1. CASE Watched(p)
      <4>1. PICK d \in Command :
              /\ cmd[d].at \in {"write", "wait", "cleanup"} /\ cmd[d].pid = p
              /\ cmd[d].id = proc[p].id /\ (cmd[d].at # "write" => Recorded(p))
        BY <3>1 DEF Watched
      <4>2. d = c
        BY <2>1, <4>1, StartAlone DEF StartPhase, Idle
      <4> QED
        BY <1>2, <4>1, <4>2 DEF Watched, Recorded
    <3> QED
      BY <2>1, <2>2, <3>1 DEF Calm, LiveKnown
  <2>3. LiveKnown'
    BY <2>2 DEF LiveKnown, Live, IsGateway, Recorded
  <2> QED
    BY <1>2, <2>1, <2>3, StartCalm DEF StartPhase
<1> QED
  BY <1>3, <1>4, <1>5 DEF IInv

LEMMA StartTimeoutKeeps == ASSUME IInv, Lapses, NEW c \in Command, StartTimeout(c) PROVE IInv'
BY GivesUp DEF StartTimeout

(* SIGTERM leaves a gateway dying, and another program gone. *)
LEMMA SignalledIs ==
    ASSUME TypeOK, NEW p \in Pid
    PROVE  LET q == IF ~processExists(p) THEN proc[p]
                    ELSE IF IsGateway(p) THEN [proc[p] EXCEPT !.dying = TRUE] ELSE Dead
           IN  /\ (IF processExists(p) THEN Signalled(p) ELSE proc) = [proc EXCEPT ![p] = q]
               /\ q \in Gateway \cup {Dead, Stranger}
               /\ q = Dead \/ (IsGateway(p) /\ q \in Gateway /\ q.id = proc[p].id)
               /\ IsGateway(p) => q.dying = TRUE
<1>1. proc[p] \in Gateway \cup {Dead, Stranger}
  BY DEF TypeOK
<1>2. IsGateway(p) => /\ proc[p] \in Gateway /\ processExists(p)
                      /\ [proc[p] EXCEPT !.dying = TRUE] \in Gateway
                      /\ [proc[p] EXCEPT !.dying = TRUE].id = proc[p].id
                      /\ [proc[p] EXCEPT !.dying = TRUE].dying = TRUE
  <2>1. IsGateway(p) => proc[p] \in Gateway /\ processExists(p)
    BY <1>1 DEF IsGateway, Dead, Stranger, processExists
  <2>2. ASSUME NEW g \in Gateway
        PROVE  /\ [g EXCEPT !.dying = TRUE] \in Gateway
               /\ [g EXCEPT !.dying = TRUE].id = g.id
               /\ [g EXCEPT !.dying = TRUE].dying = TRUE
    BY DEF Gateway
  <2> QED
    BY <2>1, <2>2
<1>3. proc = [proc EXCEPT ![p] = proc[p]]
  BY DEF TypeOK
<1> QED
  BY <1>2, <1>3 DEF Signalled, processExists

(* A start that has seen its gateway answer leaves it recorded and serving.  *)
LEMMA WaitKeeps == ASSUME IInv, Lapses, NEW c \in Command, Wait(c) PROVE IInv'
<1>1. cmd[c].at = "wait" /\ cmd[c].at \notin Alone /\ UNCHANGED <<state, proc, spawned, others>>
  BY DEF Wait, Alone
<1>2. \A p \in Pid : Live(p)' <=> Live(p)
  BY <1>1 DEF Live, IsGateway
<1>3. CASE ~processExists(cmd[c].pid) /\ Go(c, "cleanup") /\ UNCHANGED disturbed
  BY <1>1, <1>3, GivesUp
<1>4. ASSUME NEW answer \in BOOLEAN, Owns(c, answer), IF answer THEN End(c) ELSE UNCHANGED cmd
      PROVE  IInv'
  <2>1. /\ disturbed' \in BOOLEAN /\ (~disturbed' => ~disturbed)
        /\ answer => \E p \in Bound : proc[p].id = cmd[c].id
    BY <1>1, <1>4, OwnsTells DEF IInv
  <2>2. CASE answer
    <3>1. cmd' \in [Command -> Cmd] /\ cmd'[c].at = "idle" /\ Others(c)
      BY <1>4, <2>2, EndsIdle DEF IInv
    <3>2. TypeOK'
      BY <1>1, <2>1, <3>1 DEF IInv, TypeOK, Lapses
    <3>3. OneProcess' /\ KillsOwn'
      BY <1>1, <3>1, CommandStep DEF IInv, Alone
    <3>4. ASSUME ~disturbed' PROVE Calm'
      <4>1. Calm /\ state = [pid |-> cmd[c].pid, id |-> cmd[c].id]
        BY <1>1, <2>1, <3>4 DEF IInv, Calm, StateSeen
      <4>2. \A d \in Command \ {c} : cmd[d] = Idle /\ cmd[d].at = "idle"
        BY <1>1, <4>1, StartAlone DEF StartPhase, Idle
      <4>3. PICK q \in Bound : proc[q].id = cmd[c].id
        BY <2>1, <2>2
      <4>4. cmd[c].id # 0 /\ cmd[c].id \in Token /\ cmd[c].pid \in Pid
        <5>1. cmd[c].id \in Token /\ cmd[c].pid \in Pid
          BY <1>1, Fields DEF IInv
        <5>2. Bears(cmd[c].pid, cmd[c].id)
          BY <1>1 DEF Bears
        <5>3. cmd[c].id \in 1 .. spawned
          BY <5>1, <5>2 DEF IInv, OneProcess
        <5> QED
          BY <5>1, <5>3 DEF IInv, TypeOK, Token
      <4>5. q = cmd[c].pid /\ proc[q].phase = "serving"
        <5>1. Bears(q, cmd[c].id) /\ Bears(cmd[c].pid, cmd[c].id) /\ q \in Pid
          BY <1>1, <4>3, <4>4 DEF Bears, Bound
        <5> QED
          BY <4>3, <4>4, <5>1 DEF IInv, OneProcess, Bound
      <4>6. ASSUME NEW p \in Pid, Live(p) PROVE Recorded(p) /\ proc[p].phase = "serving"
        <5>1. CASE Watched(p)
          BY <1>1, <4>2, <4>5, <5>1 DEF Watched
        <5>2. CASE ~Watched(p)
          BY <4>1, <4>6, <5>2 DEF Calm, LiveKnown
        <5> QED
          BY <5>1, <5>2
      <4>7. LiveKnown'
        BY <1>1, <1>2, <4>6 DEF LiveKnown, Recorded
      <4> QED
        BY <1>1, <3>1, <4>1, <4>7, StartCalm DEF StartPhase
    <3> QED
      BY <3>2, <3>3, <3>4 DEF IInv
  <2>3. CASE ~answer
    <3>1. UNCHANGED <<state, proc, spawned, others, cmd>>
      BY <1>1, <1>4, <2>3
    <3> QED
      BY <2>1, <3>1 DEF IInv, TypeOK, OneProcess, Bears, KillsOwn, Calm, Exclusive, LiveKnown,
                        StateSeen, NoneLeft, Live, IsGateway, Watched, Recorded, Lapses
  <2> QED
    BY <2>2, <2>3
<1> QED
  BY <1>3, <1>4 DEF Wait

LEMMA CleanupKeeps == ASSUME IInv, Lapses, NEW c \in Command, Cleanup(c) PROVE IInv'
<1>1. /\ cmd[c].at = "cleanup" /\ cmd[c].at \notin Alone /\ Go(c, "forget")
      /\ UNCHANGED <<state, spawned, others, disturbed>>
  BY DEF Cleanup, Alone
<1>2. "forget" \in Looking
  BY DEF Looking, StartPhase, Alone
<1>3. /\ cmd' \in [Command -> Cmd] /\ Others(c)
      /\ cmd'[c].at = "forget" /\ cmd'[c].pid = cmd[c].pid /\ cmd'[c].id = cmd[c].id
  BY <1>1, <1>2, GoesTo DEF IInv
<1>4. PICK p \in Pid : p = cmd[c].pid
  BY <1>1, Fields DEF IInv
<1> DEFINE q == IF ~processExists(p) THEN proc[p]
                ELSE IF IsGateway(p) THEN [proc[p] EXCEPT !.dying = TRUE] ELSE Dead
<1>5. /\ proc' = [proc EXCEPT ![p] = q]
      /\ q \in Gateway \cup {Dead, Stranger}
      /\ q = Dead \/ (IsGateway(p) /\ q \in Gateway /\ q.id = proc[p].id)
      /\ IsGateway(p) => q.dying = TRUE
  BY <1>4, SignalledIs DEF IInv, Cleanup
<1> HIDE DEF q
<1>6. TypeOK'
  BY <1>1, <1>3, <1>4, <1>5 DEF IInv, TypeOK, Lapses
<1>7. OneProcess' /\ KillsOwn' /\ \A r \in Pid : Live(r)' => Live(r) \/ (r = p /\ Live(p)')
  BY <1>1, <1>3, <1>4, <1>5, ProcessStep DEF IInv
<1>8. ASSUME ~disturbed' PROVE Calm'
  <2>1. Calm /\ state = [pid |-> cmd[c].pid, id |-> cmd[c].id]
    BY <1>1, <1>8 DEF IInv, Calm, StateSeen
  <2>2. \A d \in Command \ {c} : cmd[d] = Idle /\ cmd[d].at = "idle"
    BY <1>1, <2>1, StartAlone DEF StartPhase, Idle
  <2>3. \A r \in Pid : Live(r) => r = p
    BY <1>1, <1>4, <2>1, <2>2 DEF Calm, LiveKnown, Watched, Recorded
  <2>4. proc'[p] = q
    BY <1>4, <1>5 DEF IInv, TypeOK
  <2>5. ~Live(p)'
    BY <1>5, <2>4 DEF Live, IsGateway, Dead
  <2>6. \A r \in Pid : ~Live(r)'
    BY <1>7, <2>3, <2>5
  <2>7. LiveKnown'
    BY <2>6 DEF LiveKnown
  <2> QED
    BY <1>1, <1>3, <2>1, <2>6, <2>7, StartCalm DEF StartPhase
<1> QED
  BY <1>6, <1>7, <1>8 DEF IInv

LEMMA ForgetKeeps == ASSUME IInv, Lapses, NEW c \in Command, Forget(c) PROVE IInv'
<1>1. /\ cmd[c].at \in {"forget", "gone", "done"} /\ state' = Missing /\ End(c)
      /\ UNCHANGED <<proc, spawned, others, disturbed>>
  BY DEF Forget
<1>2. cmd' \in [Command -> Cmd] /\ cmd'[c] = Idle /\ cmd'[c].at = "idle" /\ Others(c)
  BY <1>1, EndsIdle DEF IInv
<1>3. TypeOK'
  BY <1>1, <1>2 DEF IInv, TypeOK, Lapses
<1>4. OneProcess' /\ KillsOwn'
  BY <1>1, <1>2, CommandStep DEF IInv, Alone
<1>5. ASSUME ~disturbed' PROVE Calm'
  <2>1. Calm /\ \A p \in Pid : ~Live(p) /\ ~Live(p)'
    BY <1>1, <1>5 DEF IInv, Calm, NoneLeft, Live, IsGateway
  <2>2. LiveKnown'
    BY <2>1 DEF LiveKnown
  <2>3. CASE cmd[c].at = "forget"
    BY <1>2, <2>1, <2>2, <2>3, StartCalm DEF StartPhase
  <2>4. CASE cmd[c].at \in {"gone", "done"}
    BY <1>1, <1>2, <2>1, <2>4, StopCalm DEF StopPhase
  <2> QED
    BY <1>1, <2>3, <2>4
<1> QED
  BY <1>3, <1>4, <1>5 DEF IInv

-----------------------------------------------------------------------------
(* stop *)

LEMMA ReadStopKeeps == ASSUME IInv, Lapses, NEW c \in Command, ReadStop(c) PROVE IInv'
<1> DEFINE x == IF state = Missing THEN Idle
                ELSE [at  |-> IF processExists(state.pid) THEN "ask" ELSE "gone",
                      pid |-> state.pid, id |-> state.id]
<1>1. /\ cmd[c].at = "stopRead" /\ cmd' = [cmd EXCEPT ![c] = x]
      /\ UNCHANGED <<state, proc, spawned, others, disturbed>>
  BY DEF ReadStop
<1>2. state # Missing => state \in Named /\ state = [pid |-> state.pid, id |-> state.id]
  BY DEF IInv, TypeOK, Named
<1>3. /\ x = Idle \/ x.at \in {"ask", "gone"}
      /\ x # Idle => state = [pid |-> x.pid, id |-> x.id]
      /\ x.at = "gone" => proc[state.pid] = Dead
  BY <1>2 DEF processExists, Idle
<1>4. x \in Cmd
  BY <1>2 DEF Cmd, Alone, StopPhase, Named, Idle
<1> HIDE DEF x
<1>5. cmd' \in [Command -> Cmd] /\ cmd'[c] = x /\ Others(c) /\ Idle.at = "idle"
  BY <1>1, <1>4, SetTo DEF IInv, Idle
<1>6. TypeOK'
  BY <1>1, <1>5 DEF IInv, TypeOK, Lapses
<1>7. OneProcess' /\ KillsOwn'
  BY <1>1, <1>3, <1>5, CommandStep DEF IInv, Alone
<1>8. ASSUME ~disturbed' PROVE Calm'
  <2>1. Calm /\ \A p \in Pid : Live(p) => Recorded(p)
    BY <1>1, <1>8, StopAlone DEF IInv, StopPhase
  <2>2. x.at = "gone" => \A p \in Pid : ~Live(p)
    BY <1>3, <2>1 DEF Recorded, Live, IsGateway, Dead
  <2>3. \A p \in Pid : Live(p)' <=> Live(p)
    BY <1>1 DEF Live, IsGateway
  <2> QED
    BY <1>1, <1>3, <1>5, <2>1, <2>2, <2>3, StopCalm DEF StopPhase
<1> QED
  BY <1>6, <1>7, <1>8 DEF IInv

(* The instance that answers with the token runs under the process ID of   *)
(* the state file.                                                         *)
LEMMA AskKeeps == ASSUME IInv, Lapses, NEW c \in Command, Ask(c) PROVE IInv'
<1>1. cmd[c].at = "ask" /\ cmd[c].at \notin Alone /\ UNCHANGED <<state, proc, spawned, others>>
  BY DEF Ask, Alone
<1>2. PICK answer \in BOOLEAN : Owns(c, answer) /\ IF answer THEN Go(c, "kill") ELSE End(c)
  BY DEF Ask
<1>3. /\ disturbed' \in BOOLEAN /\ (~disturbed' => ~disturbed)
      /\ answer => \E p \in Bound : proc[p].id = cmd[c].id
  BY <1>1, <1>2, OwnsTells DEF IInv
<1>4. /\ cmd' \in [Command -> Cmd] /\ Others(c)
      /\ ~answer => cmd'[c] = Idle /\ cmd'[c].at = "idle"
      /\ answer => cmd'[c].at = "kill" /\ cmd'[c].pid = cmd[c].pid /\ cmd'[c].id = cmd[c].id
  <2>1. "kill" \in Looking
    BY DEF Looking, StopPhase, Alone
  <2> QED
    BY <1>1, <1>2, <2>1, EndsIdle, GoesTo DEF IInv
<1>5. TypeOK'
  BY <1>1, <1>3, <1>4 DEF IInv, TypeOK, Lapses
<1>6. cmd[c].pid \in Pid /\ cmd[c].id \in Token /\ Bears(cmd[c].pid, cmd[c].id)
  BY <1>1, Fields DEF IInv, Bears
<1>7. cmd[c].id # 0
  BY <1>6 DEF IInv, OneProcess, TypeOK, Token
<1>8. answer => IsGateway(cmd[c].pid) /\ proc[cmd[c].pid].id = cmd[c].id
  <2> SUFFICES ASSUME NEW p \in Bound, proc[p].id = cmd[c].id
               PROVE  IsGateway(cmd[c].pid) /\ proc[cmd[c].pid].id = cmd[c].id
    BY <1>3
  <2>1. p \in Pid /\ IsGateway(p) /\ Bears(p, cmd[c].id)
    BY <1>7 DEF Bound, Bears
  <2>2. p = cmd[c].pid
    BY <1>6, <2>1 DEF IInv, OneProcess
  <2> QED
    BY <2>1, <2>2
<1>9. OneProcess' /\ KillsOwn'
  BY <1>1, <1>4, <1>8, CommandStep DEF IInv, IsGateway, Alone
<1>10. ASSUME ~disturbed' PROVE Calm'
  <2>1. Calm /\ state \in {Missing, [pid |-> cmd[c].pid, id |-> cmd[c].id]}
    BY <1>1, <1>3, <1>10 DEF IInv, Calm, StateSeen
  <2>2. \A p \in Pid : Live(p)' <=> Live(p)
    BY <1>1 DEF Live, IsGateway
  <2> QED
    BY <1>1, <1>4, <2>1, <2>2, StopCalm DEF StopPhase
<1> QED
  BY <1>5, <1>9, <1>10 DEF IInv

LEMMA KillKeeps == ASSUME IInv, Lapses, NEW c \in Command, Kill(c) PROVE IInv'
<1>1. /\ cmd[c].at = "kill" /\ cmd[c].at \notin Alone
      /\ UNCHANGED <<state, spawned, others, disturbed>>
  BY DEF Kill, Alone
<1>2. CASE ~processExists(cmd[c].pid) /\ End(c) /\ UNCHANGED proc
  <2>1. cmd' \in [Command -> Cmd] /\ cmd'[c] = Idle /\ cmd'[c].at = "idle" /\ Others(c)
    BY <1>2, EndsIdle DEF IInv
  <2>2. TypeOK'
    BY <1>1, <1>2, <2>1 DEF IInv, TypeOK, Lapses
  <2>3. OneProcess' /\ KillsOwn'
    BY <1>1, <1>2, <2>1, CommandStep DEF IInv, Alone
  <2>4. ASSUME ~disturbed' PROVE Calm'
    <3>1. Calm /\ \A p \in Pid : Live(p)' <=> Live(p)
      BY <1>1, <1>2, <2>4 DEF IInv, Live, IsGateway
    <3> QED
      BY <1>1, <1>2, <2>1, <3>1, StopCalm DEF StopPhase
  <2> QED
    BY <2>2, <2>3, <2>4 DEF IInv
<1>3. CASE processExists(cmd[c].pid) /\ proc' = Signalled(cmd[c].pid) /\ Go(c, "poll")
  <2>1. "poll" \in Looking
    BY DEF Looking, StopPhase, Alone
  <2>2. /\ cmd' \in [Command -> Cmd] /\ Others(c)
        /\ cmd'[c].at = "poll" /\ cmd'[c].pid = cmd[c].pid /\ cmd'[c].id = cmd[c].id
    BY <1>1, <1>3, <2>1, GoesTo DEF IInv
  <2>3. PICK p \in Pid : p = cmd[c].pid
    BY <1>1, Fields DEF IInv
  <2> DEFINE q == IF ~processExists(p) THEN proc[p]
                  ELSE IF IsGateway(p) THEN [proc[p] EXCEPT !.dying = TRUE] ELSE Dead
  <2>4. /\ proc' = [proc EXCEPT ![p] = q]
        /\ q \in Gateway \cup {Dead, Stranger}
        /\ q = Dead \/ (IsGateway(p) /\ q \in Gateway /\ q.id = proc[p].id)
        /\ IsGateway(p) => q.dying = TRUE
    BY <1>3, <2>3, SignalledIs DEF IInv
  <2> HIDE DEF q
  <2>5. TypeOK'
    BY <1>1, <2>2, <2>3, <2>4 DEF IInv, TypeOK, Lapses
  <2>6. OneProcess' /\ KillsOwn' /\ \A r \in Pid : Live(r)' => Live(r) \/ (r = p /\ Live(p)')
    BY <1>1, <2>2, <2>3, <2>4, ProcessStep DEF IInv
  <2>7. ASSUME ~disturbed' PROVE Calm'
    <3>1. Calm /\ state \in {Missing, [pid |-> cmd[c].pid, id |-> cmd[c].id]}
      BY <1>1, <2>7 DEF IInv, Calm, StateSeen
    <3>2. \A r \in Pid : Live(r) => Recorded(r)
      BY <1>1, <3>1, StopAlone DEF StopPhase
    <3>3. ASSUME NEW r \in Pid, Live(r) PROVE r = p
      <4>1. proc[r].id \in Token
        BY <3>3 DEF Live, IsGateway, IInv, TypeOK, Gateway, Dead, Stranger
      <4> QED
        BY <2>3, <3>1, <3>2, <3>3, <4>1, GatewayAssumption DEF Recorded, Named
    <3>4. proc'[p] = q
      BY <2>3, <2>4 DEF IInv, TypeOK
    <3>5. ~Live(p)'
      BY <2>4, <3>4 DEF Live, IsGateway, Dead
    <3>6. \A r \in Pid : ~Live(r)'
      BY <2>6, <3>3, <3>5
    <3> QED
      BY <1>1, <2>2, <3>1, <3>6, StopCalm DEF StopPhase
  <2> QED
    BY <2>5, <2>6, <2>7 DEF IInv
<1> QED
  BY <1>2, <1>3 DEF Kill

(* A stop that goes on, or ends, without touching anything. *)
LEMMA PollKeeps == ASSUME IInv, Lapses, NEW c \in Command, Poll(c) \/ StopTimeout(c) PROVE IInv'
<1>1. /\ cmd[c].at = "poll" /\ cmd[c].at \notin Alone
      /\ UNCHANGED <<state, proc, spawned, others, disturbed>>
      /\ Go(c, "done") \/ End(c)
  BY DEF Poll, StopTimeout, Alone
<1>2. /\ cmd' \in [Command -> Cmd] /\ Others(c)
      /\ \/ cmd'[c] = Idle /\ cmd'[c].at = "idle"
         \/ cmd'[c].at = "done" /\ cmd'[c].pid = cmd[c].pid /\ cmd'[c].id = cmd[c].id
  <2>1. "done" \in Looking
    BY DEF Looking, StopPhase, Alone
  <2> QED
    BY <1>1, <2>1, EndsIdle, GoesTo DEF IInv
<1>3. TypeOK'
  BY <1>1, <1>2 DEF IInv, TypeOK, Lapses
<1>4. OneProcess' /\ KillsOwn'
  BY <1>1, <1>2, CommandStep DEF IInv, Alone
<1>5. ASSUME ~disturbed' PROVE Calm'
  <2>1. Calm /\ \A p \in Pid : ~Live(p) /\ ~Live(p)'
    BY <1>1, <1>5 DEF IInv, Calm, NoneLeft, Live, IsGateway
  <2> QED
    BY <1>1, <1>2, <2>1, StopCalm DEF StopPhase
<1> QED
  BY <1>3, <1>4, <1>5 DEF IInv

-----------------------------------------------------------------------------
(* The processes, and crashes. *)

LEMMA GatewayStep ==
    ASSUME IInv, Lapses, NEW p \in Pid, NEW q \in Gateway \cup {Dead}, proc' = [proc EXCEPT ![p] = q],
           UNCHANGED <<state, cmd, spawned, others, disturbed>>,
           q # Dead => /\ IsGateway(p) /\ q.id = proc[p].id
                       /\ q.dying = proc[p].dying /\ proc[p].phase # "serving"
    PROVE  IInv'
<1>1. TypeOK'
  BY DEF IInv, TypeOK, Lapses
<1>2. OneProcess' /\ KillsOwn'
  BY ProcessStep DEF IInv
<1>3. proc'[p] = q /\ \A r \in Pid \ {p} : proc'[r] = proc[r]
  BY DEF IInv, TypeOK
<1>4. ASSUME NEW r \in Pid, Live(r)'
      PROVE  /\ Live(r) /\ proc'[r].id = proc[r].id
             /\ proc[r].phase = "serving" => proc'[r].phase = "serving"
  <2>1. CASE r # p
    BY <1>3, <1>4, <2>1 DEF Live, IsGateway
  <2>2. CASE r = p
    BY <1>3, <1>4, <2>2 DEF Live, IsGateway, Dead
  <2> QED
    BY <2>1, <2>2
<1>5. ASSUME ~disturbed' PROVE Calm'
  <2>1. Calm
    BY <1>5 DEF IInv
  <2>2. LiveKnown'
    BY <1>4, <2>1 DEF Calm, LiveKnown, Watched, Recorded
  <2> QED
    BY <1>4, <2>1, <2>2 DEF Calm, Exclusive, StateSeen, NoneLeft
<1> QED
  BY <1>1, <1>2, <1>5 DEF IInv

LEMMA EndsKeeps == ASSUME IInv, Lapses, NEW p \in Pid, Ends(p) PROVE IInv'
BY GatewayStep DEF Ends

LEMMA BecomesKeeps ==
    ASSUME IInv, Lapses, NEW p \in Pid, NEW phase \in {"database", "listen", "serving"},
           IsGateway(p), proc[p].phase # "serving", Becomes(p, phase)
    PROVE  IInv'
<1> DEFINE q == [proc[p] EXCEPT !.phase = phase]
<1>1. proc[p] \in Gateway
  BY DEF IInv, TypeOK, IsGateway, Dead, Stranger
<1>2. q \in Gateway /\ q.id = proc[p].id /\ q.dying = proc[p].dying
  BY <1>1 DEF Gateway, Booting
<1>3. proc' = [proc EXCEPT ![p] = q] /\ UNCHANGED <<state, cmd, spawned, others, disturbed>>
  BY DEF Becomes
<1> HIDE DEF q
<1> QED
  BY <1>2, <1>3, GatewayStep

LEMMA GatewayKeeps ==
    ASSUME IInv, Lapses, NEW p \in Pid, CreateRuntime(p) \/ OpenDatabase(p) \/ Listen(p) \/ Die(p)
    PROVE  IInv'
BY EndsKeeps, BecomesKeeps DEF CreateRuntime, OpenDatabase, Listen, Die, In

LEMMA CrashKeeps == ASSUME IInv, Lapses, NEW c \in Command, Crash(c) PROVE IInv'
<1>1. End(c) /\ disturbed' = TRUE /\ UNCHANGED <<state, proc, spawned, others>>
  BY DEF Crash
<1>2. cmd' \in [Command -> Cmd] /\ cmd'[c].at = "idle" /\ Others(c)
  BY <1>1, EndsIdle DEF IInv
<1>3. TypeOK'
  BY <1>1, <1>2 DEF IInv, TypeOK, Lapses
<1>4. OneProcess' /\ KillsOwn'
  BY <1>1, <1>2, CommandStep DEF IInv, Alone
<1> QED
  BY <1>1, <1>3, <1>4 DEF IInv

LEMMA OtherKeeps == ASSUME IInv, Lapses, NEW p \in Pid, Other(p) PROVE IInv'
<1>1. /\ Free(p) /\ others < MaxOthers /\ others' = others + 1
      /\ UNCHANGED <<state, cmd, spawned, disturbed>>
      /\ \/ proc' = [proc EXCEPT ![p] = Stranger]
         \/ proc' = [proc EXCEPT ![p] = Fresh(0)]
  BY DEF Other
<1>2. 0 \in Token /\ others' \in 0 .. MaxOthers
  BY <1>1, GatewayAssumption DEF Token, IInv, TypeOK
<1>3. /\ proc' \in [Pid -> Gateway \cup {Dead, Stranger}]
      /\ proc'[p] \in {Stranger, Fresh(0)} /\ \A r \in Pid \ {p} : proc'[r] = proc[r]
      /\ \A c \in Command : cmd[c].at = "kill" =>
             cmd[c].pid \in Pid /\ (cmd[c].pid # p \/ c \in lapsed)
  <2>1. CASE proc' = [proc EXCEPT ![p] = Fresh(0)]
    BY <1>1, <1>2, <2>1, NewProcess
  <2>2. CASE proc' = [proc EXCEPT ![p] = Stranger]
    <3>1. Free(p) /\ proc[p] = Dead /\ Dead.is # "gateway"
      BY <1>1 DEF Free, processExists, Dead
    <3>2. ASSUME NEW c \in Command, cmd[c].at = "kill"
          PROVE  cmd[c].pid \in Pid /\ (cmd[c].pid # p \/ c \in lapsed)
      BY <3>1, <3>2, Fields DEF IInv, KillsOwn, Alone
    <3> QED
      BY <2>2, <3>2 DEF IInv, TypeOK
  <2> QED
    BY <1>1, <2>1, <2>2
<1>4. TypeOK'
  BY <1>1, <1>2, <1>3 DEF IInv, TypeOK, Lapses
<1>5. ASSUME NEW r \in Pid, NEW id \in Token, Bears(r, id)' PROVE Bears(r, id)
  BY <1>1, <1>3, <1>5 DEF Bears, IsGateway, Fresh, Stranger
<1>6. OneProcess'
  BY <1>1, <1>5, FewerBear DEF IInv
<1>7. KillsOwn'
  BY <1>1, <1>3 DEF IInv, KillsOwn, Lapses
<1>8. ASSUME NEW r \in Pid, Live(r)' PROVE Live(r) /\ proc'[r] = proc[r]
  BY <1>3, <1>8 DEF Live, IsGateway, Fresh, Stranger
<1>9. ASSUME ~disturbed' PROVE Calm'
  <2>1. Calm
    BY <1>1, <1>9 DEF IInv
  <2>2. LiveKnown'
    BY <1>1, <1>8, <2>1 DEF Calm, LiveKnown, Watched, Recorded
  <2> QED
    BY <1>1, <1>8, <2>1, <2>2 DEF Calm, Exclusive, StateSeen, NoneLeft
<1> QED
  BY <1>4, <1>6, <1>7, <1>9 DEF IInv

-----------------------------------------------------------------------------
LEMMA Induction == ASSUME IInv, [Next]_vars PROVE IInv'
<1>1. CASE UNCHANGED vars
  BY <1>1 DEF vars, IInv, TypeOK, OneProcess, Bears, KillsOwn, Calm, Exclusive, LiveKnown,
              StateSeen, NoneLeft, Live, IsGateway, Watched, Recorded
<1>2. ASSUME Lapses, NEW c \in Command, Start(c) \/ Stop(c) PROVE IInv'
  BY <1>2, BeginKeeps DEF Start, Stop
<1>3. ASSUME Lapses, NEW c \in Command,
             StartStep(c) \/ StopStep(c) \/ Timeout(c) \/ Crash(c) PROVE IInv'
  BY <1>3, ReadStartKeeps, ProbeKeeps, UnlinkKeeps, SpawnKeeps, WriteStateKeeps, WaitKeeps,
     CleanupKeeps, ForgetKeeps, ReadStopKeeps, AskKeeps, KillKeeps, PollKeeps,
     StartTimeoutKeeps, CrashKeeps DEF StartStep, StopStep, Timeout
<1> QED
  BY <1>1, <1>2, <1>3, GatewayKeeps, OtherKeeps DEF Next, Move

(* Every reachable state satisfies the inductive invariant. *)
THEOREM Invariance == Spec => []IInv
<1>1. Init => IInv
  BY InitIInv
<1>2. IInv /\ [Next]_vars => IInv'
  BY Induction
<1> QED
  BY <1>1, <1>2, PTL DEF Spec

(* Commands, processes and the state file are always well formed: a        *)
(* command that looks at a process has its process ID and its token        *)
(* (ManagedGatewayState).                                                  *)
THEOREM TypeCorrect == Spec => []TypeOK
<1>1. IInv => TypeOK
  BY DEF IInv
<1> QED
  BY <1>1, Invariance, PTL

(* Of any commands that overlap and process IDs given out again: once no   *)
(* command works, a spawned gateway that runs is the one the state file    *)
(* names, unless something disturbed it (startManagedGateway,              *)
(* stopManagedGateway).                                                    *)
THEOREM RunningRecorded == Spec => []RunningIsRecorded
<1>1. IInv => RunningIsRecorded
  <2> SUFFICES ASSUME IInv, ~disturbed, \A c \in Command : cmd[c] = Idle,
                      NEW p \in Pid, IsGateway(p), proc[p].id # 0, ~proc[p].dying
               PROVE  state = [pid |-> p, id |-> proc[p].id]
    BY DEF RunningIsRecorded
  <2>1. ~Watched(p)
    BY DEF Watched, Idle
  <2> QED
    BY <2>1 DEF IInv, Calm, LiveKnown, Live, Recorded
<1> QED
  BY <1>1, Invariance, PTL

(* stop signals the gateway whose token answered, or what has its process  *)
(* ID after that gateway ended before the signal (stopManagedGateway): a   *)
(* token stands for one process, and only an end between the answer and    *)
(* the signal parts the two.                                               *)
THEOREM StopHitsOwn == Spec => StopHitsOwnGateway
<1> DEFINE Hit == \A c \in Command :
                    cmd[c].at = "kill" /\ cmd'[c].at = "poll" =>
                        LET p == proc[cmd[c].pid]
                        IN  (p.is = "gateway" /\ p.id = cmd[c].id) \/ c \in lapsed
<1>1. IInv /\ [Next]_vars => [Hit]_vars
  <2> SUFFICES ASSUME IInv, Next, NEW c \in Command, cmd[c].at = "kill", cmd'[c].at = "poll"
               PROVE  LET p == proc[cmd[c].pid]
                      IN  (p.is = "gateway" /\ p.id = cmd[c].id) \/ c \in lapsed
    BY DEF Hit
  <2> QED
    BY DEF IInv, KillsOwn
<1> QED
  BY <1>1, Invariance, PTL DEF Spec, StopHitsOwnGateway
=============================================================================
