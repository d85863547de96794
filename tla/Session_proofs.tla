--------------------------- MODULE Session_proofs ---------------------------
(***************************************************************************)
(* Proofs about what a session keeps and what it steers.  Its row          *)
(* (Session), for any policy and any number of overlapping methods: what   *)
(* makes the properties inductive is Derived, that a copy which waits to be *)
(* written and is not stale is still one policy step away from the stored  *)
(* row, because time ages both alike.  Its transcript (History), for any   *)
(* messages: what a merge does to any two lists, and from it what a write  *)
(* may lose.  Its choice of a model (Routing), for any models, offers and  *)
(* modes: what a price changes in a score, and in the scale of all scores. *)
(***************************************************************************)
EXTENDS Session, History, Routing, SequenceTheorems, FiniteSetTheorems, WellFoundedInduction,
        TLAPS

(* What no copy of the row may lack: AutomaticHasVerdict of any copy.       *)
Sound(state) == state.automatic > 0 => state.print # NoFingerprint

(* A write of the kind the row's level may rise by.                         *)
RisesByPolicy(state, next) ==
    next.level > state.level =>
        /\ next.level = state.level + 1
        /\ next.failures = 0
        /\ next.successes = 0

(* A write of the kind the row's level may fall by, an expiry apart.        *)
FallsByPolicy(state, next) ==
    next.level < state.level =>
        /\ next.level = state.level - 1
        /\ state.cooldown = 0

Derived(a) ==
    pc[a] # "idle" /\ ~stale[a] =>
        /\ RisesByPolicy(row, pending[a])
        /\ IF pc[a] = "expiry"
           THEN pending[a].automatic = 0
           ELSE FallsByPolicy(row, pending[a])

IInv ==
    /\ TypeOK
    /\ Sound(row)
    /\ \A a \in Actor :
         /\ Sound(pending[a])
         /\ pc[a] = "stuck" => pending[a].print \in Fingerprint
         /\ Derived(a)

LEMMA CreatedSound == Created \in Row /\ Sound(Created)
  BY SessionAssumption DEF Created, Row, Sound

LEMMA RowFields ==
    ASSUME NEW state \in Row
    PROVE  /\ state.level \in 0 .. MaxLevel
           /\ state.automatic \in 0 .. MaxLevel
           /\ state.failures \in 0 .. Failures
           /\ state.successes \in 0 .. Successes
           /\ state.cooldown \in 0 .. Cooldown
           /\ state.print \in Fingerprint \cup {NoFingerprint}
           /\ state.ttl \in 0 .. Ttl
  BY DEF Row

(* The values a method resets a field to are in its range. *)
LEMMA Resets ==
    /\ 0 \in 0 .. MaxLevel
    /\ 0 \in 0 .. Failures
    /\ 0 \in 0 .. Successes
    /\ Cooldown \in 0 .. Cooldown
    /\ 0 \in 0 .. Ttl
    /\ Ttl \in 0 .. Ttl
  BY SessionAssumption

(* Time does not change what a copy says, or how two copies compare.        *)
LEMMA AgedPreserves ==
    ASSUME NEW state \in Row
    PROVE  /\ Aged(state) \in Row
           /\ Aged(state).level = state.level
           /\ Aged(state).automatic = state.automatic
           /\ Aged(state).failures = state.failures
           /\ Aged(state).successes = state.successes
           /\ Aged(state).print = state.print
           /\ state.cooldown = 0 => Aged(state).cooldown = 0
           /\ Sound(state) => Sound(Aged(state))
<1> DEFINE cooldown == AtLeastZero(state.cooldown - 1)
           ttl == AtLeastZero(state.ttl - 1)
<1>1. /\ cooldown \in 0 .. Cooldown
      /\ ttl \in 0 .. Ttl
      /\ state.cooldown = 0 => cooldown = 0
    BY RowFields, SessionAssumption DEF AtLeastZero
<1>2. Aged(state) = [state EXCEPT !.cooldown = cooldown, !.ttl = ttl]
    BY DEF Aged, Row
<1> HIDE DEF cooldown, ttl
<1>3. Aged(state) \in Row
    BY <1>1, <1>2 DEF Row
<1>4. QED
    BY <1>1, <1>2, <1>3 DEF Row, Sound

LEMMA CountedPreserves ==
    ASSUME NEW state \in Row, NEW kind \in Kind
    PROVE  /\ Counted(state, kind) \in Row
           /\ Counted(state, kind).level = state.level
           /\ Counted(state, kind).automatic = state.automatic
           /\ Counted(state, kind).cooldown = state.cooldown
           /\ Counted(state, kind).print = state.print
<1> DEFINE failures == IF kind = "success" THEN 0 ELSE AtMost(Failures, state.failures + 1)
           successes == IF kind = "success" THEN AtMost(Successes, state.successes + 1) ELSE 0
<1>1. failures \in 0 .. Failures /\ successes \in 0 .. Successes
    BY RowFields, SessionAssumption DEF AtMost
<1>2. Counted(state, kind) = [state EXCEPT !.failures = failures, !.successes = successes]
    BY DEF Counted, Row
<1> HIDE DEF failures, successes
<1>3. QED
    BY <1>1, <1>2 DEF Row

(* An outcome moves the level by the policy. *)
LEMMA OutcomeByPolicy ==
    ASSUME NEW state \in Row, Sound(state), NEW kind \in Kind
    PROVE  /\ AfterOutcome(state, kind) \in Row
           /\ Sound(AfterOutcome(state, kind))
           /\ RisesByPolicy(state, AfterOutcome(state, kind))
           /\ FallsByPolicy(state, AfterOutcome(state, kind))
<1> DEFINE counted == Counted(state, kind)
           next == AfterOutcome(state, kind)
<1>1. /\ counted \in Row
      /\ counted.level = state.level
      /\ counted.automatic = state.automatic
      /\ counted.cooldown = state.cooldown
      /\ counted.print = state.print
      /\ state.level \in 0 .. MaxLevel
    BY CountedPreserves, RowFields
<1>2. Escalates(counted, kind) => ~Deescalates(counted, kind)
    BY DEF Escalates, Deescalates
<1>3. CASE Escalates(counted, kind)
    <2> DEFINE reached == state.level + 1
    <2>1. next = [counted EXCEPT !.level = reached, !.failures = 0, !.successes = 0,
                                 !.cooldown = Cooldown]
        BY <1>1, <1>2, <1>3 DEF AfterOutcome, Row
    <2>2. reached \in 0 .. MaxLevel /\ reached > state.level
        BY <1>1, <1>3, RowFields, SessionAssumption DEF Escalates
    <2>3. reached = state.level + 1
        OBVIOUS
    <2> HIDE DEF reached, counted, next
    <2>4. next \in Row
        BY <1>1, <2>1, <2>2, Resets DEF Row
    <2>5. /\ next.level = reached
          /\ next.failures = 0
          /\ next.successes = 0
          /\ Sound(next)
        BY <1>1, <2>1 DEF Row, Sound
    <2>6. QED
        BY <1>1, <2>2, <2>3, <2>4, <2>5 DEF next, RisesByPolicy, FallsByPolicy
<1>4. CASE ~Escalates(counted, kind) /\ Deescalates(counted, kind)
    <2> DEFINE reached == state.level - 1
               cooldown == IF state.level > 1 THEN Cooldown ELSE 0
    <2>1. next = [counted EXCEPT !.level = reached, !.successes = 0,
                                 !.cooldown = cooldown]
        BY <1>1, <1>4 DEF AfterOutcome, Row
    <2>2. /\ reached \in 0 .. MaxLevel
          /\ reached < state.level
          /\ cooldown \in 0 .. Cooldown
          /\ state.cooldown = 0
        BY <1>1, <1>4, RowFields, SessionAssumption DEF Deescalates
    <2>3. reached = state.level - 1
        OBVIOUS
    <2> HIDE DEF reached, cooldown, counted, next
    <2>4. next \in Row
        BY <1>1, <2>1, <2>2, Resets DEF Row
    <2>5. next.level = reached /\ Sound(next)
        BY <1>1, <2>1 DEF Row, Sound
    <2>6. QED
        BY <1>1, <2>2, <2>3, <2>4, <2>5 DEF next, RisesByPolicy, FallsByPolicy
<1>5. CASE ~Escalates(counted, kind) /\ ~Deescalates(counted, kind)
    <2>1. next = counted
        BY <1>5 DEF AfterOutcome
    <2>2. QED
        BY <1>1, <2>1 DEF Row, Sound, RisesByPolicy, FallsByPolicy
<1>6. QED
    BY <1>3, <1>4, <1>5

(* An expiry takes the automatic levels back. *)
LEMMA ExpiryByPolicy ==
    ASSUME NEW state \in Row
    PROVE  /\ AfterExpiry(state) \in Row
           /\ AfterExpiry(state).automatic = 0
           /\ AfterExpiry(state).level <= state.level
           /\ Sound(AfterExpiry(state))
<1> DEFINE reached == AtLeastZero(state.level - state.automatic)
<1>1. reached \in 0 .. MaxLevel /\ reached <= state.level
    BY RowFields, SessionAssumption DEF AtLeastZero
<1>2. AfterExpiry(state) = [state EXCEPT !.level = reached, !.automatic = 0,
                                         !.print = NoFingerprint, !.ttl = 0]
    BY DEF AfterExpiry, Row
<1> HIDE DEF reached
<1>3. AfterExpiry(state) \in Row
    BY <1>1, <1>2, Resets DEF Row
<1>4. QED
    BY <1>1, <1>2, <1>3 DEF Row, Sound

(* A stuck verdict raises the level by one at most and is on record.        *)
LEMMA StuckByPolicy ==
    ASSUME NEW state \in Row, NEW print \in Fingerprint
    PROVE  /\ AfterStuck(state, print) \in Row
           /\ AfterStuck(state, print).print = print
           /\ Sound(AfterStuck(state, print))
           /\ RisesByPolicy(state, AfterStuck(state, print))
           /\ FallsByPolicy(state, AfterStuck(state, print))
<1> DEFINE reached == AtMost(MaxLevel, state.level + 1)
           automatic == IF state.level < MaxLevel
                        THEN AtMost(MaxLevel, state.automatic + 1)
                        ELSE state.automatic
           next == AfterStuck(state, print)
<1>1. /\ reached \in 0 .. MaxLevel
      /\ automatic \in 0 .. MaxLevel
      /\ state.level \in 0 .. MaxLevel
      /\ reached \in {state.level, state.level + 1}
    BY RowFields, SessionAssumption DEF AtMost
<1>2. next = [state EXCEPT !.level = reached, !.automatic = automatic,
                           !.failures = 0, !.successes = 0,
                           !.cooldown = Cooldown, !.print = print, !.ttl = Ttl]
    BY DEF AfterStuck, Row
<1> HIDE DEF reached, automatic, next
<1>3. next \in Row
    BY <1>1, <1>2, Resets DEF Row
<1>4. /\ next.level = reached
      /\ next.failures = 0
      /\ next.successes = 0
      /\ next.print = print
      /\ print # NoFingerprint
    BY <1>2, SessionAssumption DEF Row
<1>5. QED
    BY <1>1, <1>3, <1>4 DEF next, Sound, RisesByPolicy, FallsByPolicy

LEMMA InitEstablishes == Init => IInv
  BY CreatedSound, SessionAssumption DEF Init, IInv, TypeOK, Derived

(* The read and the computation of a method. *)
LEMMA PreparePreserves ==
    ASSUME IInv, NEW a \in Actor,
           NEW write \in {"turn", "outcome", "expiry", "stuck"}, NEW state \in Row,
           Prepare(a, write, state),
           found' \in [Actor -> Fingerprint \cup {NoFingerprint}],
           Sound(state), RisesByPolicy(row, state),
           IF write = "expiry" THEN state.automatic = 0 ELSE FallsByPolicy(row, state),
           write = "stuck" => state.print \in Fingerprint
    PROVE  IInv'
<1> USE DEF IInv
<1>1. TypeOK'
    BY DEF Prepare, TypeOK
<1>2. /\ pc'[a] = write
      /\ pending'[a] = state
      /\ row' = row
      /\ \A b \in Actor \ {a} : /\ pc'[b] = pc[b]
                                /\ pending'[b] = pending[b]
                                /\ stale'[b] = stale[b]
    BY DEF Prepare, TypeOK
<1>3. \A b \in Actor : Derived(b)'
    BY <1>2 DEF Derived
<1>4. QED
    BY <1>1, <1>2, <1>3

LEMMA MethodPreserves ==
    ASSUME IInv, NEW a \in Actor,
           \/ RecordTurn(a)
           \/ \E kind \in Kind : RecordOutcome(a, kind)
           \/ \E print \in Fingerprint \cup {NoFingerprint} : ObserveExpired(a, print)
           \/ \E print \in Fingerprint : ObserveStuck(a, print)
    PROVE  IInv'
<1>1. /\ row \in Row
      /\ Sound(row)
      /\ found \in [Actor -> Fingerprint \cup {NoFingerprint}]
    BY DEF IInv, TypeOK
<1>2. CASE RecordTurn(a)
    <2>1. RisesByPolicy(row, row) /\ FallsByPolicy(row, row)
        BY <1>1 DEF RisesByPolicy, FallsByPolicy, Row
    <2>2. QED
        BY <1>1, <1>2, <2>1, PreparePreserves DEF RecordTurn
<1>3. ASSUME NEW kind \in Kind, RecordOutcome(a, kind) PROVE IInv'
    BY <1>1, <1>3, OutcomeByPolicy, PreparePreserves DEF RecordOutcome
<1>4. ASSUME NEW print \in Fingerprint \cup {NoFingerprint}, ObserveExpired(a, print)
      PROVE  IInv'
    <2>1. RisesByPolicy(row, AfterExpiry(row))
        BY <1>1, ExpiryByPolicy DEF RisesByPolicy, Row
    <2>2. found' \in [Actor -> Fingerprint \cup {NoFingerprint}]
        BY <1>1, <1>4 DEF ObserveExpired
    <2>3. QED
        BY <1>1, <1>4, <2>1, <2>2, ExpiryByPolicy, PreparePreserves DEF ObserveExpired
<1>5. ASSUME NEW print \in Fingerprint, ObserveStuck(a, print) PROVE IInv'
    BY <1>1, <1>5, StuckByPolicy, PreparePreserves DEF ObserveStuck
<1>6. QED
    BY <1>2, <1>3, <1>4, <1>5

(* A write makes every other waiting copy stale, and after an expiry goes   *)
(* on from the copy it has just written.                                    *)
LEMMA WritePreserves ==
    ASSUME IInv, NEW a \in Actor, Write(a)
    PROVE  IInv'
<1> USE DEF IInv
<1>1. /\ row' = pending[a]
      /\ pending[a] \in Row
      /\ Sound(pending[a])
      /\ found[a] \in Fingerprint \cup {NoFingerprint}
    BY DEF Write, TypeOK
<1>2. \A b \in Actor \ {a} : /\ pc'[b] = pc[b]
                             /\ pending'[b] = pending[b]
                             /\ stale'[b] = (stale[b] \/ pc[b] # "idle")
    BY DEF Write, OthersStale, TypeOK
<1>3. \/ pc'[a] = "idle" /\ pending'[a] = Created
      \/ /\ pc'[a] = "stuck"
         /\ found[a] \in Fingerprint
         /\ pending'[a] = AfterStuck(pending[a], found[a])
    BY <1>1 DEF Write, TypeOK
<1>4. /\ pending'[a] \in Row
      /\ Sound(pending'[a])
      /\ pc'[a] = "stuck" => pending'[a].print \in Fingerprint
    BY <1>1, <1>3, CreatedSound, StuckByPolicy
<1>5. explicit' \in 0 .. MaxLevel
    BY SessionAssumption DEF Write, TypeOK, AtMost, AtLeastZero
<1>6. flagged' \subseteq Fingerprint
    BY DEF Write, TypeOK
<1>7. TypeOK'
    <2>1. pc' \in [Actor -> {"idle", "turn", "outcome", "expiry", "stuck"}]
        BY DEF Write, TypeOK
    <2>2. pending' \in [Actor -> Row]
        <3>1. pending' = [pending EXCEPT ![a] = pending'[a]]
            BY DEF Write, TypeOK
        <3>2. QED
            BY <1>4, <3>1 DEF TypeOK
    <2>3. /\ found' \in [Actor -> Fingerprint \cup {NoFingerprint}]
          /\ stale' \in [Actor -> BOOLEAN]
        BY DEF Write, OthersStale, TypeOK
    <2>4. QED
        BY <1>1, <1>5, <1>6, <2>1, <2>2, <2>3 DEF TypeOK
<1>8. Derived(a)'
    BY <1>1, <1>3, StuckByPolicy DEF Derived
<1>9. \A b \in Actor \ {a} : Derived(b)'
    BY <1>2 DEF Derived
<1>10. QED
    BY <1>1, <1>2, <1>4, <1>7, <1>8, <1>9

LEMMA WriteFailsPreserves ==
    ASSUME IInv, NEW a \in Actor, WriteFails(a)
    PROVE  IInv'
<1> USE DEF IInv
<1>1. TypeOK'
    BY CreatedSound DEF WriteFails, TypeOK
<1>2. /\ row' = row
      /\ pc'[a] = "idle"
      /\ pending'[a] = Created
      /\ \A b \in Actor \ {a} : /\ pc'[b] = pc[b]
                                /\ pending'[b] = pending[b]
                                /\ stale'[b] = stale[b]
    BY DEF WriteFails, TypeOK
<1>3. \A b \in Actor : Derived(b)'
    BY <1>2 DEF Derived
<1>4. QED
    BY <1>1, <1>2, <1>3, CreatedSound

LEMMA TickPreserves ==
    ASSUME IInv, Tick
    PROVE  IInv'
<1> USE DEF IInv
<1>1. /\ row \in Row
      /\ row' = Aged(row)
      /\ \A a \in Actor : pending[a] \in Row /\ pending'[a] = Aged(pending[a])
      /\ UNCHANGED <<pc, stale>>
    BY DEF Tick, TypeOK
<1>2. TypeOK'
    BY <1>1, AgedPreserves DEF Tick, TypeOK
<1>3. \A a \in Actor : Derived(a)'
    BY <1>1, AgedPreserves DEF Derived, RisesByPolicy, FallsByPolicy
<1>4. QED
    BY <1>1, <1>2, <1>3, AgedPreserves

LEMMA NextPreserves ==
    ASSUME IInv, [Next]_vars
    PROVE  IInv'
<1>1. CASE Next
    BY <1>1, TickPreserves, MethodPreserves, WritePreserves, WriteFailsPreserves
       DEF Next
<1>2. CASE UNCHANGED vars
    BY <1>2 DEF vars, IInv, TypeOK, Derived
<1>3. QED
    BY <1>1, <1>2

(* The inductive invariant: every copy of the row is sound, and a copy that *)
(* is not stale is one policy step away from the row.                       *)
THEOREM Invariance == Spec => []IInv
<1>1. IInv /\ [Next]_vars => IInv'
    BY NextPreserves
<1>2. QED
    BY InitEstablishes, <1>1, PTL DEF Spec

(* Counters, levels and times stay within their bounds.                     *)
THEOREM TypeCorrect == Spec => []TypeOK
<1>1. IInv => TypeOK
    BY DEF IInv
<1>2. QED
    BY Invariance, <1>1, PTL

(* An automatic level is always on a deadline, whichever copies are written *)
(* over one another.                                                        *)
THEOREM AutomaticOnDeadline == Spec => []AutomaticHasVerdict
<1>1. IInv => AutomaticHasVerdict
    BY DEF IInv, Sound, AutomaticHasVerdict
<1>2. QED
    BY Invariance, <1>1, PTL

(* Who changes the stored row, and how, when its level changes.             *)
LEMMA LevelChanges ==
    ASSUME IInv, [Next]_vars, row'.level # row.level
    PROVE  \E a \in Actor :
             /\ WrittenBy(a)
             /\ \/ stale[a]
                \/ /\ RisesByPolicy(row, row')
                   /\ IF pc[a] = "expiry"
                      THEN row'.automatic = 0
                      ELSE FallsByPolicy(row, row')
<1>1. row' # row /\ row \in Row
    BY DEF IInv, TypeOK
<1>2. ~Tick
    BY <1>1, AgedPreserves DEF Tick
<1>3. PICK a \in Actor : Write(a)
    BY <1>1, <1>2 DEF Next, vars, RecordTurn, RecordOutcome, ObserveExpired,
                      ObserveStuck, Prepare, WriteFails
<1>4. WrittenBy(a)
    BY <1>3 DEF Write, WrittenBy
<1>5. Derived(a)
    BY DEF IInv
<1>6. QED
    BY <1>4, <1>5 DEF Derived, WrittenBy

LEMMA LevelsAreNumbers ==
    ASSUME IInv, [Next]_vars
    PROVE  row.level \in Nat /\ row'.level \in Nat
<1>1. row \in Row /\ row' \in Row
    BY NextPreserves DEF IInv, TypeOK
<1>2. QED
    BY <1>1, SessionAssumption DEF Row

(* The level falls only by the policy, by an expiry or by an old copy.      *)
THEOREM LevelFalls == Spec => LevelFallsByPolicy
<1> DEFINE Allowed ==
        \E a \in Actor :
            /\ WrittenBy(a)
            /\ \/ stale[a]
               \/ pc[a] = "expiry" /\ row'.automatic = 0
               \/ row'.level = row.level - 1 /\ row.cooldown = 0
<1>1. ASSUME IInv, [Next]_vars, row'.level < row.level PROVE Allowed
    BY <1>1, LevelsAreNumbers, LevelChanges DEF FallsByPolicy
<1>2. IInv /\ [Next]_vars => [row'.level < row.level => Allowed]_vars
    BY <1>1
<1>3. QED
    BY Invariance, <1>2, PTL DEF Spec, LevelFallsByPolicy

(* The level rises by one and uses its evidence up, or by an old copy.      *)
THEOREM LevelRises == Spec => EscalationConsumesEvidence
<1> DEFINE Allowed ==
        \E a \in Actor :
            /\ WrittenBy(a)
            /\ \/ stale[a]
               \/ /\ row'.level = row.level + 1
                  /\ row'.failures = 0
                  /\ row'.successes = 0
<1>1. ASSUME IInv, [Next]_vars, row'.level > row.level PROVE Allowed
    BY <1>1, LevelsAreNumbers, LevelChanges DEF RisesByPolicy
<1>2. IInv /\ [Next]_vars => [row'.level > row.level => Allowed]_vars
    BY <1>1
<1>3. QED
    BY Invariance, <1>2, PTL DEF Spec, EscalationConsumesEvidence
-----------------------------------------------------------------------------
(* The transcript (History).  What a merge returns follows from the         *)
(* definition of Merge, for any two lists.                                  *)

(* newer begins with older.                                                 *)
Begins(older, newer) ==
    Len(older) <= Len(newer) /\ \A i \in 1 .. Len(older) : older[i] = newer[i]

LEMMA PrefixBegins ==
    ASSUME NEW older \in Seq(Message), NEW newer \in Seq(Message)
    PROVE  IsPrefix(older, newer) <=> Begins(older, newer)
<1> DEFINE n == Len(older)
<1>1. n \in Nat /\ Len(newer) \in Nat
    BY LenProperties
<1>2. SubSeq(older, 1, n) = older
    BY SubSeqFull
<1>3. ASSUME n <= Len(newer)
      PROVE  /\ SubSeq(newer, 1, n) \in Seq(Message)
             /\ Len(SubSeq(newer, 1, n)) = n
             /\ \A i \in 1 .. n : SubSeq(newer, 1, n)[i] = newer[i]
    <2>1. \A i \in 1 .. n : newer[i] \in Message
        BY <1>1, <1>3, ElementOfSeq
    <2>2. /\ SubSeq(newer, 1, n) \in Seq(Message)
          /\ Len(SubSeq(newer, 1, n)) = IF 1 <= n THEN n - 1 + 1 ELSE 0
          /\ \A i \in 1 .. n - 1 + 1 : SubSeq(newer, 1, n)[i] = newer[1 + i - 1]
        BY <1>1, <2>1, SubSeqProperties
    <2>3. QED
        BY <1>1, <2>2
<1>4. ASSUME n <= Len(newer), Begins(older, newer)
      PROVE  SubSeq(newer, 1, n) = older
    BY <1>3, <1>4, SeqEqual DEF Begins
<1>5. QED
    BY <1>2, <1>3, <1>4 DEF IsPrefix, Begins

(* Lists that begin with one another are equal.                             *)
LEMMA BeginBoth ==
    ASSUME NEW older \in Seq(Message), NEW newer \in Seq(Message),
           Begins(older, newer), Begins(newer, older)
    PROVE  older = newer
<1>1. Len(older) = Len(newer)
    BY LenProperties DEF Begins
<1>2. QED
    BY <1>1, SeqEqual DEF Begins

LEMMA MergeCases ==
    ASSUME NEW older \in Seq(Message), NEW newer \in Seq(Message)
    PROVE  /\ Begins(older, newer) => Merge(older, newer) = newer
           /\ Begins(newer, older) => Merge(older, newer) = older
           /\ ~Begins(older, newer) /\ ~Begins(newer, older) =>
                Merge(older, newer) = Reconcile(older, newer)
<1>1. /\ older = <<>> => Begins(older, newer)
      /\ newer = <<>> => Begins(newer, older)
      /\ Begins(older, newer) /\ newer = <<>> => older = <<>>
      /\ Begins(newer, older) /\ older = <<>> => newer = <<>>
    BY EmptySeq, LenProperties DEF Begins
<1>2. Begins(older, newer) /\ Begins(newer, older) => older = newer
    BY BeginBoth
<1>3. QED
    BY <1>1, <1>2, PrefixBegins DEF Merge

(* The end of older is the beginning of newer, n messages long.             *)
Overlapping(older, newer, n) ==
    /\ n \in 1 .. Len(older) /\ n <= Len(newer)
    /\ \A i \in 1 .. n : older[Len(older) - n + i] = newer[i]

LEMMA OverlapsAre ==
    ASSUME NEW older \in Seq(Message), NEW newer \in Seq(Message)
    PROVE  \A n : n \in Overlaps(older, newer) <=> Overlapping(older, newer, n)
<1> DEFINE l == Len(older)
<1>1. l \in Nat /\ Len(newer) \in Nat
    BY LenProperties
<1>2. ASSUME NEW n \in 1 .. l, n <= Len(newer)
      PROVE  Suffix(older, n) = SubSeq(newer, 1, n) <=>
                \A i \in 1 .. n : older[l - n + i] = newer[i]
    <2> DEFINE s == SubSeq(older, l - n + 1, l)
               t == SubSeq(newer, 1, n)
    <2>1. /\ s \in Seq(Message) /\ Len(s) = n
          /\ \A i \in 1 .. n : s[i] = older[l - n + i]
        <3>1. \A i \in l - n + 1 .. l : older[i] \in Message
            BY <1>1, ElementOfSeq
        <3>2. /\ s \in Seq(Message)
              /\ Len(s) = IF l - n + 1 <= l THEN l - (l - n + 1) + 1 ELSE 0
              /\ \A i \in 1 .. l - (l - n + 1) + 1 : s[i] = older[l - n + 1 + i - 1]
            BY <1>1, <3>1, SubSeqProperties
        <3>3. QED
            BY <1>1, <3>2
    <2>2. /\ t \in Seq(Message) /\ Len(t) = n
          /\ \A i \in 1 .. n : t[i] = newer[i]
        <3>1. \A i \in 1 .. n : newer[i] \in Message
            BY <1>1, <1>2, ElementOfSeq
        <3>2. /\ t \in Seq(Message)
              /\ Len(t) = IF 1 <= n THEN n - 1 + 1 ELSE 0
              /\ \A i \in 1 .. n - 1 + 1 : t[i] = newer[1 + i - 1]
            BY <1>1, <3>1, SubSeqProperties
        <3>3. QED
            BY <1>1, <3>2
    <2>3. s = t <=> \A i \in 1 .. n : s[i] = t[i]
        BY <2>1, <2>2, SeqEqual
    <2>4. Suffix(older, n) = s
        BY DEF Suffix
    <2>5. QED
        BY <2>1, <2>2, <2>3, <2>4
<1>3. QED
    BY <1>2 DEF Overlaps, Overlapping

(* A set of positive numbers with a bound has a greatest one.               *)
LEMMA LongestOverlap ==
    ASSUME NEW bound \in Nat, NEW S, S \subseteq 1 .. bound, S # {}
    PROVE  Max(S) \in S /\ \A n \in S : n <= Max(S)
<1> DEFINE T == {bound - n : n \in S}
           R == {pair \in Nat \X Nat : pair[1] < pair[2]}
<1>1. T \subseteq Nat /\ T # {}
    <2>1. \A n \in S : bound - n \in Nat
        OBVIOUS
    <2>2. QED
        BY <2>1
<1>2. IsWellFoundedOn(R, Nat)
    BY NatLessThanWellFounded, Zenon DEF OpToRel
<1>3. \A m, n \in Nat : ~(<<m, n>> \in R) => n <= m
    OBVIOUS
<1> HIDE DEF R, T
<1>4. PICK least \in T : \A t \in T : ~(<<t, least>> \in R)
    BY <1>1, <1>2, WFMin
<1>5. \A t \in T : least <= t
    BY <1>1, <1>3, <1>4
<1>6. PICK greatest \in S : least = bound - greatest
    BY <1>4 DEF T
<1>7. \A n \in S : greatest >= n
    BY <1>5, <1>6 DEF T
<1>8. QED
    BY <1>7 DEF Max

(* What becomes of two lists neither of which begins with the other.        *)
LEMMA ReconcileCases ==
    ASSUME NEW older \in Seq(Message), NEW newer \in Seq(Message)
    PROVE  \/ \E n : /\ Overlapping(older, newer, n)
                     /\ \A k : Overlapping(older, newer, k) => k <= n
                     /\ Reconcile(older, newer) =
                          older \o SubSeq(newer, n + 1, Len(newer))
           \/ /\ \A n : ~Overlapping(older, newer, n)
              /\ \/ Reconcile(older, newer) = newer /\ Snapshot(newer)
                 \/ Reconcile(older, newer) = older \o newer
<1> DEFINE S == Overlaps(older, newer)
<1>1. \A n : n \in S <=> Overlapping(older, newer, n)
    BY OverlapsAre
<1>2. CASE S = {}
    BY <1>1, <1>2 DEF Reconcile
<1>3. CASE S # {}
    <2>1. S \subseteq 1 .. Len(older) /\ Len(older) \in Nat
        BY LenProperties DEF Overlaps
    <2>2. Max(S) \in S /\ \A n \in S : n <= Max(S)
        BY <1>3, <2>1, LongestOverlap
    <2>3. Reconcile(older, newer)
            = older \o SubSeq(newer, Max(S) + 1, Len(newer))
        BY <1>3 DEF Reconcile, Overlap
    <2>4. QED
        BY <1>1, <2>2, <2>3
<1>4. QED
    BY <1>2, <1>3

(* What comes of merging newer into older is newer, a snapshot that shares  *)
(* no end with older, or goes on from it.                                   *)
Rewrites(older, newer, merged) ==
    Snapshot(newer) /\ Overlaps(older, newer) = {} /\ Begins(newer, merged)

(* A merge keeps the older list as its beginning, or takes a snapshot that  *)
(* shares no end with it.                                                   *)
LEMMA MergeKeeps ==
    ASSUME NEW older \in Seq(Message), NEW newer \in Seq(Message)
    PROVE  /\ Merge(older, newer) \in Seq(Message)
           /\ \/ Begins(older, Merge(older, newer))
              \/ Rewrites(older, newer, Merge(older, newer))
<1> DEFINE once == Merge(older, newer)
<1>1. ASSUME NEW rest \in Seq(Message)
      PROVE  older \o rest \in Seq(Message) /\ Begins(older, older \o rest)
    BY ConcatProperties, LenProperties DEF Begins
<1>2. Begins(older, older) /\ Begins(newer, newer)
    BY LenProperties DEF Begins
<1>3. ASSUME NEW n \in 1 .. Len(older)
      PROVE  SubSeq(newer, n + 1, Len(newer)) \in Seq(Message)
    <2>1. Len(newer) \in Nat /\ Len(older) \in Nat
        BY LenProperties
    <2>2. \A i \in n + 1 .. Len(newer) : newer[i] \in Message
        BY <2>1, ElementOfSeq
    <2>3. QED
        BY <2>1, <2>2, SubSeqProperties
<1>4. CASE Begins(older, newer) \/ Begins(newer, older)
    BY <1>2, <1>4, MergeCases
<1>5. CASE ~Begins(older, newer) /\ ~Begins(newer, older)
    <2>1. once = Reconcile(older, newer)
        BY <1>5, MergeCases
    <2>2. ASSUME NEW n, Overlapping(older, newer, n),
                 once = older \o SubSeq(newer, n + 1, Len(newer))
          PROVE  once \in Seq(Message) /\ Begins(older, once)
        BY <1>1, <1>3, <2>2 DEF Overlapping
    <2>3. ASSUME \A n : ~Overlapping(older, newer, n),
                 (once = newer /\ Snapshot(newer)) \/ once = older \o newer
          PROVE  /\ once \in Seq(Message)
                 /\ Begins(older, once) \/ Rewrites(older, newer, once)
        <3>1. Overlaps(older, newer) = {}
            BY <2>3, OverlapsAre
        <3>2. QED
            BY <1>1, <1>2, <2>3, <3>1 DEF Rewrites
    <2>4. QED
        BY <2>1, <2>2, <2>3, ReconcileCases
<1>6. QED
    BY <1>4, <1>5

(* The end of list is other. *)
Ends(list, other) ==
    /\ Len(other) <= Len(list)
    /\ \A i \in 1 .. Len(other) : list[Len(list) - Len(other) + i] = other[i]

LEMMA EndMerges ==
    ASSUME NEW list \in Seq(Message), NEW other \in Seq(Message), Ends(list, other)
    PROVE  Merge(list, other) = list
<1> DEFINE n == Len(other)
<1>1. Len(list) \in Nat /\ n \in Nat
    BY LenProperties
<1>2. CASE Begins(other, list)
    BY <1>2, MergeCases
<1>3. CASE Begins(list, other)
    <2>1. Len(list) = n
        BY <1>1, <1>3 DEF Begins, Ends
    <2>2. \A i \in 1 .. n : list[i] = other[i]
        BY <1>3, <2>1 DEF Begins
    <2>3. list = other
        BY <2>1, <2>2, SeqEqual
    <2>4. QED
        BY <1>3, <2>3, MergeCases
<1>4. CASE ~Begins(list, other) /\ ~Begins(other, list)
    <2>1. n # 0
        BY <1>1, <1>4 DEF Begins
    <2>2. Overlapping(list, other, n)
        BY <1>1, <2>1 DEF Ends, Overlapping
    <2>3. Reconcile(list, other) = list \o SubSeq(other, n + 1, n)
        <3>1. PICK k : /\ Overlapping(list, other, k)
                       /\ n <= k
                       /\ Reconcile(list, other)
                            = list \o SubSeq(other, k + 1, Len(other))
            BY <2>2, ReconcileCases
        <3>2. k = n
            BY <1>1, <3>1 DEF Overlapping
        <3>3. QED
            BY <3>1, <3>2
    <2>4. SubSeq(other, n + 1, n) = <<>>
        BY <1>1, SubSeqEmpty
    <2>5. QED
        BY <1>4, <2>3, <2>4, MergeCases, ConcatEmptySeq
<1>5. QED
    BY <1>2, <1>3, <1>4

(* Merging is idempotent. *)
LEMMA MergeTwice ==
    ASSUME NEW older \in Seq(Message), NEW newer \in Seq(Message)
    PROVE  Merge(Merge(older, newer), newer)
             = Merge(older, newer)
<1> DEFINE once == Merge(older, newer)
           l == Len(older)
           m == Len(newer)
<1>1. l \in Nat /\ m \in Nat /\ once \in Seq(Message)
    BY LenProperties, MergeKeeps
<1>2. once = newer => Ends(once, newer)
    BY <1>1 DEF Ends
<1>3. once = older \o newer => Ends(once, newer)
    <2>1. /\ Len(older \o newer) = l + m
          /\ \A i \in 1 .. l + m : (older \o newer)[i] = IF i <= l THEN older[i] ELSE newer[i - l]
        BY ConcatProperties
    <2>2. QED
        BY <1>1, <2>1 DEF Ends
<1>4. ASSUME NEW n, Overlapping(older, newer, n), once = older \o SubSeq(newer, n + 1, m)
      PROVE  Ends(once, newer)
    <2> DEFINE rest == SubSeq(newer, n + 1, m)
    <2>1. n \in 1 .. l /\ n <= m /\ \A i \in 1 .. n : older[l - n + i] = newer[i]
        BY <1>4 DEF Overlapping
    <2>2. /\ rest \in Seq(Message) /\ Len(rest) = m - n
          /\ \A i \in 1 .. m - n : rest[i] = newer[n + i]
        <3>1. \A i \in n + 1 .. m : newer[i] \in Message
            BY <1>1, <2>1, ElementOfSeq
        <3>2. /\ rest \in Seq(Message)
              /\ Len(rest) = IF n + 1 <= m THEN m - (n + 1) + 1 ELSE 0
              /\ \A i \in 1 .. m - (n + 1) + 1 : rest[i] = newer[n + 1 + i - 1]
            BY <1>1, <2>1, <3>1, SubSeqProperties
        <3>3. QED
            BY <1>1, <2>1, <3>2
    <2> HIDE DEF rest
    <2>3. /\ Len(once) = l + (m - n)
          /\ \A i \in 1 .. l + (m - n) : once[i] = IF i <= l THEN older[i] ELSE rest[i - l]
        BY <1>4, <2>2, ConcatProperties DEF rest
    <2> HIDE DEF once, l, m
    <2>4. m <= Len(once)
        BY <1>1, <2>1, <2>3
    <2>5. ASSUME NEW i \in 1 .. m
          PROVE  once[Len(once) - m + i] = newer[i]
        <3>1. Len(once) - m + i = l - n + i
            <4>1. Len(once) = l + (m - n) /\ l \in Nat /\ m \in Nat /\ n \in Int
                BY <1>1, <2>1, <2>3
            <4>2. QED
                BY <4>1
        <3>2. l - n + i \in 1 .. l + (m - n)
            BY <1>1, <2>1
        <3>3. CASE i <= n
            <4>1. l - n + i <= l /\ i \in 1 .. n
                BY <1>1, <2>1, <3>3
            <4>2. QED
                BY <2>1, <2>3, <3>1, <3>2, <4>1
        <3>4. CASE i > n
            <4>1. ~(l - n + i <= l) /\ l - n + i - l = i - n /\ i - n \in 1 .. m - n
                  /\ n + (i - n) = i
                BY <1>1, <2>1, <3>4
            <4>2. once[l - n + i] = rest[i - n]
                BY <1>1, <2>1, <2>3, <3>2, <4>1
            <4>3. QED
                BY <2>2, <3>1, <4>1, <4>2
        <3>5. QED
            BY <1>1, <2>1, <3>3, <3>4
    <2>6. QED
        BY <2>4, <2>5 DEF Ends, m
<1>5. CASE Begins(newer, older)
    <2>1. once = older
        BY <1>5, MergeCases
    <2>2. QED
        BY <2>1
<1>6. CASE ~Begins(newer, older)
    <2>1. Ends(once, newer)
        <3>1. CASE Begins(older, newer)
            BY <1>2, <3>1, MergeCases
        <3>2. CASE ~Begins(older, newer)
            <4>1. once = Reconcile(older, newer)
                BY <1>6, <3>2, MergeCases
            <4> HIDE DEF once
            <4>2. QED
                BY <1>2, <1>3, <1>4, <4>1, ReconcileCases
        <3>3. QED
            BY <3>1, <3>2
    <2>2. QED
        BY <1>1, <2>1, EndMerges
<1>7. QED
    BY <1>5, <1>6

(* What waits to be written, and is not outdated, keeps the transcript or   *)
(* comes of a snapshot that shares no end with it.                          *)
Keeping(a) ==
    Writing(a) /\ ~outdated[a] =>
        \/ Begins(transcript, written[a])
        \/ Rewrites(transcript, Given(a), written[a])

TranscriptInv == TranscriptTypeOK /\ \A a \in Writer : Keeping(a)

(* A request that is left alone keeps what it has while the transcript stays. *)
LEMMA SameKept ==
    ASSUME NEW b \in Writer, Keeping(b), transcript' = transcript, stage'[b] = stage[b],
           incoming'[b] = incoming[b], messages'[b] = messages[b], written'[b] = written[b],
           outdated'[b] = outdated[b]
    PROVE  Keeping(b)'
<1>1. Given(b)' = Given(b) /\ (Writing(b)' <=> Writing(b))
    BY DEF Given, Writing
<1>2. QED
    BY <1>1 DEF Keeping, Rewrites, Begins, Overlaps, Suffix, Snapshot

LEMMA AnswerKept ==
    ASSUME NEW older \in Seq(Message), NEW list \in Seq(Message), NEW answer \in Message
    PROVE  /\ WithAnswer(list, answer) \in Seq(Message)
           /\ Begins(older, list) => Begins(older, WithAnswer(list, answer))
<1>1. /\ Append(list, answer) \in Seq(Message)
      /\ Len(Append(list, answer)) = Len(list) + 1
      /\ \A i \in 1 .. Len(list) : Append(list, answer)[i] = list[i]
    BY AppendProperties
<1>2. Len(older) \in Nat /\ Len(list) \in Nat
    BY LenProperties
<1>3. Begins(older, list) => Begins(older, Append(list, answer))
    BY <1>1, <1>2 DEF Begins
<1>4. QED
    BY <1>1, <1>3 DEF WithAnswer

LEMMA PrepareKeepsTranscript ==
    ASSUME TranscriptInv, NEW a \in Writer, NEW list \in Incoming,
           PrepareRequest(a, list)
    PROVE  TranscriptInv'
<1> DEFINE once == Merge(transcript, list)
<1>1. transcript \in Seq(Message) /\ list \in Seq(Message)
    BY HistoryAssumption DEF TranscriptInv, TranscriptTypeOK
<1>2. /\ once \in Seq(Message)
      /\ Begins(transcript, once) \/ Rewrites(transcript, list, once)
    BY <1>1, MergeKeeps
<1> HIDE DEF once
<1>3. /\ transcript' = transcript
      /\ stage' = [stage EXCEPT ![a] = "preparing"]
      /\ incoming' = [incoming EXCEPT ![a] = list]
      /\ messages' = [messages EXCEPT ![a] = once]
      /\ written' = [written EXCEPT ![a] = once]
      /\ outdated' = [outdated EXCEPT ![a] = FALSE]
    BY DEF PrepareRequest, once
<1>4. TranscriptTypeOK'
    BY <1>2, <1>3 DEF TranscriptInv, TranscriptTypeOK
<1>5. Keeping(a)'
    <2>1. stage'[a] = "preparing" /\ incoming'[a] = list /\ written'[a] = once
        BY <1>3 DEF TranscriptInv, TranscriptTypeOK
    <2>2. QED
        BY <1>2, <1>3, <2>1 DEF Keeping, Given, Rewrites, Begins, Overlaps, Suffix
<1>6. ASSUME NEW b \in Writer \ {a} PROVE Keeping(b)'
    BY <1>3, SameKept DEF TranscriptInv, TranscriptTypeOK
<1>7. QED
    BY <1>4, <1>5, <1>6 DEF TranscriptInv

LEMMA RecordKeepsTranscript ==
    ASSUME TranscriptInv, NEW a \in Writer, NEW answer \in Answer,
           RecordAssistant(a, answer)
    PROVE  TranscriptInv'
<1> DEFINE once == WithAnswer(Merge(transcript, messages[a]), answer)
<1>1. transcript \in Seq(Message) /\ messages[a] \in Seq(Message) /\ answer \in Message
    BY HistoryAssumption DEF TranscriptInv, TranscriptTypeOK
<1>2. /\ once \in Seq(Message)
      /\ Begins(transcript, once) \/ Rewrites(transcript, messages[a], once)
    BY <1>1, MergeKeeps, AnswerKept DEF Rewrites
<1> HIDE DEF once
<1>3. /\ transcript' = transcript /\ incoming' = incoming /\ messages' = messages
      /\ stage' = [stage EXCEPT ![a] = "recording"]
      /\ written' = [written EXCEPT ![a] = once]
      /\ outdated' = [outdated EXCEPT ![a] = FALSE]
    BY DEF RecordAssistant, once
<1>4. TranscriptTypeOK'
    BY <1>2, <1>3 DEF TranscriptInv, TranscriptTypeOK
<1>5. Keeping(a)'
    <2>1. stage'[a] = "recording" /\ messages'[a] = messages[a] /\ written'[a] = once
        BY <1>3 DEF TranscriptInv, TranscriptTypeOK
    <2>2. QED
        BY <1>2, <1>3, <2>1 DEF Keeping, Given, Rewrites, Begins, Overlaps, Suffix
<1>6. ASSUME NEW b \in Writer \ {a} PROVE Keeping(b)'
    BY <1>3, SameKept DEF TranscriptInv, TranscriptTypeOK
<1>7. QED
    BY <1>4, <1>5, <1>6 DEF TranscriptInv

(* Who closes is not writing any more. *)
LEMMA Closed ==
    ASSUME TranscriptTypeOK, NEW a \in Writer, NEW where \in {"idle", "running"},
           Close(a, where)
    PROVE  /\ stage' \in [Writer -> {"idle", "preparing", "running", "recording"}]
           /\ incoming' \in [Writer -> Incoming \cup {<<>>}]
           /\ messages' \in [Writer -> Seq(Message)]
           /\ written' \in [Writer -> Seq(Message)]
           /\ ~Writing(a)'
           /\ \A b \in Writer \ {a} : /\ stage'[b] = stage[b]
                                     /\ incoming'[b] = incoming[b]
                                     /\ messages'[b] = messages[b]
                                     /\ written'[b] = written[b]
<1>1. <<>> \in Seq(Message)
    BY EmptySeq
<1>2. QED
    BY <1>1 DEF TranscriptTypeOK, Close, Writing

LEMMA WriteKeepsTranscript ==
    ASSUME TranscriptInv, NEW a \in Writer, PutTranscript(a)
    PROVE  TranscriptInv'
<1>1. PICK where \in {"idle", "running"} : Close(a, where)
    BY DEF PutTranscript
<1>2. TranscriptTypeOK
    BY DEF TranscriptInv
<1>3. transcript' \in Seq(Message) /\ outdated' \in [Writer -> BOOLEAN]
    BY <1>2 DEF PutTranscript, TranscriptTypeOK, Writing
<1>4. TranscriptTypeOK'
    BY <1>1, <1>2, <1>3, Closed DEF TranscriptTypeOK
<1>5. ASSUME NEW b \in Writer PROVE Keeping(b)'
    <2>1. CASE b = a
        BY <1>1, <1>2, <2>1, Closed DEF Keeping
    <2>2. CASE b # a
        <3>1. Writing(b)' => outdated'[b]
            BY <1>1, <1>2, <2>2, Closed DEF PutTranscript, Writing
        <3>2. QED
            BY <3>1 DEF Keeping
    <2>3. QED
        BY <2>1, <2>2
<1>6. QED
    BY <1>4, <1>5 DEF TranscriptInv

LEMMA DropKeepsTranscript ==
    ASSUME TranscriptInv, NEW a \in Writer, Drop(a)
    PROVE  TranscriptInv'
<1>1. TranscriptTypeOK /\ Close(a, "idle") /\ transcript' = transcript
      /\ outdated' = [outdated EXCEPT ![a] = FALSE]
    BY DEF TranscriptInv, Drop
<1>2. TranscriptTypeOK'
    BY <1>1, Closed DEF TranscriptTypeOK
<1>3. Keeping(a)'
    BY <1>1, Closed DEF Keeping
<1>4. ASSUME NEW b \in Writer \ {a} PROVE Keeping(b)'
    <2>1. /\ stage'[b] = stage[b] /\ incoming'[b] = incoming[b]
          /\ messages'[b] = messages[b] /\ written'[b] = written[b]
        BY <1>1, Closed
    <2>2. outdated'[b] = outdated[b] /\ transcript' = transcript
        BY <1>1 DEF TranscriptTypeOK
    <2>3. Keeping(b)
        BY DEF TranscriptInv
    <2>4. QED
        BY <2>1, <2>2, <2>3, SameKept
<1>5. QED
    BY <1>2, <1>3, <1>4 DEF TranscriptInv

LEMMA TranscriptInduction ==
    ASSUME TranscriptInv, [TranscriptNext]_transcriptVars
    PROVE  TranscriptInv'
<1>1. CASE TranscriptNext
    BY <1>1, PrepareKeepsTranscript, RecordKeepsTranscript, WriteKeepsTranscript,
       DropKeepsTranscript DEF TranscriptNext
<1>2. CASE UNCHANGED transcriptVars
    BY <1>2, SameKept DEF TranscriptInv, TranscriptTypeOK, transcriptVars
<1>3. QED
    BY <1>1, <1>2

LEMMA TranscriptStarts == ASSUME TranscriptInit PROVE TranscriptInv
<1>1. <<>> \in Seq(Message)
    BY EmptySeq
<1>2. QED
    BY <1>1 DEF TranscriptInit, TranscriptInv, TranscriptTypeOK, Keeping, Writing

(* The transcript and the requests of a session are always well formed,     *)
(* and a copy that is not outdated keeps what it was merged with.              *)
THEOREM TranscriptInvariance ==
    TranscriptSpec => []TranscriptInv
<1>1. TranscriptInit => TranscriptInv
    BY TranscriptStarts
<1>2. TranscriptInv /\ [TranscriptNext]_transcriptVars => TranscriptInv'
    BY TranscriptInduction
<1>3. QED
    BY <1>1, <1>2, PTL DEF TranscriptSpec

(* A request sent twice adds nothing, whatever its messages and whatever    *)
(* the transcript (mergeCanonicalMessages).                                 *)
THEOREM Retransmission ==
    TranscriptSpec => []RetransmissionAddsNothing
<1>1. TranscriptInv => RetransmissionAddsNothing
    BY HistoryAssumption, MergeTwice DEF TranscriptInv, TranscriptTypeOK,
                      RetransmissionAddsNothing
<1>2. QED
    BY <1>1, TranscriptInvariance, PTL

(* Only an outdated write, or a snapshot that shares no end with the        *)
(* transcript and then begins it, loses a turn: a delta never does, however *)
(* many requests of the session overlap (prepareRequest, recordAssistant).  *)
THEOREM TurnsStay ==
    TranscriptSpec => TurnsKept
<1> DEFINE Kept == \E a \in Writer :
                      /\ Writing(a)
                      /\ transcript' = written[a]
                      /\ \/ outdated[a]
                         \/ IsPrefix(transcript, transcript')
                         \/ /\ Snapshot(Given(a))
                            /\ Overlaps(transcript, Given(a)) = {}
                            /\ IsPrefix(Given(a), transcript')
<1>1. ASSUME TranscriptInv, TranscriptNext, transcript' # transcript
      PROVE  Kept
    <2>1. PICK a \in Writer : PutTranscript(a)
        BY <1>1 DEF TranscriptNext, PrepareRequest, RecordAssistant, Drop
    <2>2. Writing(a) /\ transcript' = written[a] /\ Keeping(a)
        BY <1>1, <2>1 DEF PutTranscript, TranscriptInv
    <2>3. /\ transcript \in Seq(Message) /\ written[a] \in Seq(Message)
          /\ Given(a) \in Seq(Message)
        BY <1>1, HistoryAssumption, EmptySeq DEF TranscriptInv, TranscriptTypeOK, Given
    <2>4. /\ Begins(transcript, written[a]) => IsPrefix(transcript, transcript')
          /\ Begins(Given(a), written[a]) => IsPrefix(Given(a), transcript')
        BY <2>2, <2>3, PrefixBegins
    <2>5. QED
        BY <2>2, <2>4 DEF Keeping, Rewrites
<1>2. TranscriptInv /\ [TranscriptNext]_transcriptVars
        => [transcript' # transcript => Kept]_transcriptVars
    BY <1>1
<1>3. QED
    BY TranscriptInvariance, <1>2, PTL DEF TranscriptSpec, TurnsKept

-----------------------------------------------------------------------------
(* The model a session routes to (Routing).  First, that a finite set has a *)
(* greatest element in any order that is total on it.                       *)

LEMMA FiniteGreatest ==
    ASSUME NEW S, IsFiniteSet(S), S # {}, NEW R,
           \A x, y \in S : x # y => <<x, y>> \in R \/ <<y, x>> \in R,
           \A x, y, z \in S : <<x, y>> \in R /\ <<y, z>> \in R /\ x # z => <<x, z>> \in R
    PROVE  \E g \in S : \A y \in S \ {g} : <<g, y>> \in R
<1> DEFINE Headless(T) == T # {} /\ \A g \in T : \E y \in T \ {g} : ~(<<g, y>> \in R)
           N == {n \in Nat : \E T \in SUBSET S : Headless(T) /\ Cardinality(T) = n}
           Less == {pair \in Nat \X Nat : pair[1] < pair[2]}
<1> SUFFICES ASSUME Headless(S) PROVE FALSE
    OBVIOUS
<1>1. N \subseteq Nat /\ N # {}
    BY FS_CardinalityType
<1>2. IsWellFoundedOn(Less, Nat)
    BY NatLessThanWellFounded, Zenon DEF OpToRel
<1>3. \A j, k \in Nat : j < k => <<j, k>> \in Less
    OBVIOUS
<1>4. PICK n \in N : \A k \in N : ~(<<k, n>> \in Less)
    <2> HIDE DEF N, Less
    <2> QED
        BY <1>1, <1>2, WFMin
<1>5. \A k \in N : ~(k < n)
    <2> HIDE DEF Less
    <2> QED
        BY <1>1, <1>3, <1>4
<1>6. PICK T \in SUBSET S : Headless(T) /\ Cardinality(T) = n
    OBVIOUS
<1>7. PICK x \in T : TRUE
    BY <1>6
<1> DEFINE U == T \ {x}
<1>8. IsFiniteSet(U) /\ Cardinality(U) \in Nat /\ Cardinality(U) < n
    BY <1>6, <1>7, FS_Subset, FS_RemoveElement, FS_CardinalityType
<1>9. ~Headless(U)
    BY <1>5, <1>8
<1>10. U # {}
    BY <1>6, <1>7
<1>11. PICK g \in U : \A y \in U \ {g} : <<g, y>> \in R
    BY <1>9, <1>10
<1>12. CASE <<g, x>> \in R
    <2>1. \A y \in T \ {g} : <<g, y>> \in R
        BY <1>11, <1>12
    <2>2. QED
        BY <1>6, <2>1
<1>13. CASE ~(<<g, x>> \in R)
    <2>1. <<x, g>> \in R
        BY <1>7, <1>13
    <2>2. \A y \in T \ {x} : <<x, y>> \in R
        BY <1>7, <1>11, <2>1
    <2>3. QED
        BY <1>6, <1>7, <2>2
<1>14. QED
    BY <1>12, <1>13

LEMMA ImageFinite ==
    ASSUME NEW S, IsFiniteSet(S), NEW f
    PROVE  IsFiniteSet({f[x] : x \in S})
<1> DEFINE T == {f[x] : x \in S}
           g == [x \in S |-> f[x]]
<1>1. g \in Surjection(S, T)
    BY DEF Surjection
<1>2. QED
    BY <1>1, FS_Surjection

LEMMA MaxOf ==
    ASSUME NEW S \in SUBSET Int, IsFiniteSet(S), S # {}
    PROVE  Max(S) \in S /\ \A n \in S : n <= Max(S)
<1> DEFINE R == {pair \in Int \X Int : pair[1] >= pair[2]}
<1>1. \A x, y \in S : <<x, y>> \in R <=> x >= y
    OBVIOUS
<1> HIDE DEF R
<1>2. /\ \A x, y \in S : x # y => <<x, y>> \in R \/ <<y, x>> \in R
      /\ \A x, y, z \in S : <<x, y>> \in R /\ <<y, z>> \in R /\ x # z => <<x, z>> \in R
    BY <1>1
<1>3. PICK g \in S : \A y \in S \ {g} : <<g, y>> \in R
    BY <1>2, FiniteGreatest
<1>4. ASSUME NEW y \in S PROVE g >= y
    <2>1. CASE y = g
        BY <2>1
    <2>2. CASE y # g
        BY <1>1, <1>3, <2>2
    <2>3. QED
        BY <2>1, <2>2
<1>5. QED
    BY <1>4 DEF Max

(* What the scores are compared by.                                         *)

LEMMA Quotient ==
    ASSUME NEW a \in Nat, NEW b \in Nat \ {0}
    PROVE  a \div b \in Nat /\ b * (a \div b) <= a /\ a < b * (a \div b) + b
    OBVIOUS

LEMMA QuotientGrows ==
    ASSUME NEW a \in Nat, NEW c \in Nat, a <= c, NEW b \in Nat \ {0}
    PROVE  a \div b <= c \div b
<1> DEFINE x == a \div b
           y == c \div b
<1>1. x \in Nat /\ y \in Nat /\ b * x <= a /\ c < b * y + b
    BY Quotient
<1> HIDE DEF x, y
<1>2. b * x < b * y + b
    <2>1. b * x \in Int /\ b * y \in Int
        BY <1>1
    <2>2. QED
        BY <1>1, <2>1
<1>3. CASE x >= y + 1
    <2>1. b * x >= b * (y + 1) /\ b * (y + 1) = b * y + b
        BY <1>1, <1>3
    <2>2. QED
        BY <1>1, <1>2, <2>1
<1>4. QED
    BY <1>1, <1>3 DEF x, y

LEMMA Product == ASSUME NEW a \in Nat, NEW b \in Nat PROVE a * b \in Nat
    OBVIOUS

(* When a cost rises, and with it perhaps the scale, the distance to it     *)
(* rises by more than the scale.                                            *)
LEMMA Ratio ==
    ASSUME NEW scale \in Nat \ {0}, NEW larger \in Nat, NEW cost \in Nat, NEW dearer \in Nat,
           NEW other \in Nat, cost <= dearer, cost <= scale, other <= scale,
           \/ larger = scale /\ dearer <= scale
           \/ larger = dearer /\ scale <= larger
    PROVE  (cost - other) * larger <= (dearer - other) * scale
<1>1. CASE larger = scale
    BY <1>1
<1>2. CASE larger = dearer /\ scale <= larger
    <2>1. dearer * (scale - cost) >= 0 /\ other * (dearer - scale) >= 0
        BY <1>2
    <2>2. (dearer - other) * scale - (cost - other) * dearer
            = dearer * (scale - cost) + other * (dearer - scale)
        OBVIOUS
    <2>3. QED
        BY <1>2, <2>1, <2>2
<1>3. QED
    BY <1>1, <1>2

LEMMA Comparison ==
    ASSUME NEW scale \in Nat \ {0}, NEW larger \in Nat \ {0}, NEW weight \in Nat,
           NEW base \in Int, NEW before \in Int, NEW after \in Int,
           before * larger <= after * scale
    PROVE  /\ base * scale + weight * before >= 0 => base * larger + weight * after >= 0
           /\ base * scale + weight * before > 0 => base * larger + weight * after > 0
<1> DEFINE p == base * scale + weight * before
           q == base * larger + weight * after
<1>1. p \in Int /\ q \in Int
    OBVIOUS
<1>2. weight * (before * larger) <= weight * (after * scale)
    OBVIOUS
<1>3. q * scale - p * larger = weight * (after * scale) - weight * (before * larger)
    OBVIOUS
<1> HIDE DEF p, q
<1>4. p * larger <= q * scale
    BY <1>1, <1>2, <1>3
<1>5. p >= 0 => q >= 0
    BY <1>1, <1>4
<1>6. p > 0 => q > 0
    BY <1>1, <1>4
<1>7. QED
    BY <1>5, <1>6 DEF p, q

(* What a model is judged by.                                               *)

LEMMA TaskDifficulty ==
    ASSUME NEW r \in Request PROVE Task(r).difficulty \in 1 .. 5
<1>1. r.intent = "" \/ r.intent \in DOMAIN Rules
    BY RoutingAssumption
<1>2. \A intent \in DOMAIN Rules : Rules[intent] \in 1 .. 5
    BY DEF Rules
<1>3. Told(r).difficulty \in 1 .. 5
    <2>1. CASE r.intent # ""
        <3>1. Told(r) = [class |-> r.intent, difficulty |-> Rules[r.intent]]
            BY <2>1, Zenon DEF Told
        <3>2. r.intent \in DOMAIN Rules
            BY <1>1, <2>1, Zenon
        <3>3. Told(r).difficulty = Rules[r.intent]
            BY <3>1
        <3>4. QED
            BY <1>2, <3>2, <3>3, Zenon
    <2>2. CASE r.intent = "" /\ r.tools
        <3>1. Told(r) = [class |-> "simple_tool_operation", difficulty |-> 1]
            BY <2>2, Zenon DEF Told
        <3>2. QED
            BY <3>1
    <2>3. CASE r.intent = "" /\ ~r.tools
        <3>1. Told(r) = [class |-> "explanation", difficulty |-> 2]
            BY <2>3, Zenon DEF Told
        <3>2. QED
            BY <3>1
    <2>4. QED
        BY <2>1, <2>2, <2>3, Zenon
<1>4. Scoped(r, Told(r)).difficulty \in 1 .. 5
    BY <1>3 DEF Scoped
<1> DEFINE d == Scoped(r, Told(r)).difficulty
           harder == (IF r.failing THEN 1 ELSE 0) + (IF r.stuck THEN 1 ELSE 0)
<1>5. harder \in 0 .. 2
    OBVIOUS
<1>6. Task(r).difficulty = IF d + harder > 5 THEN 5 ELSE d + harder
    BY DEF Task
<1>7. QED
    BY <1>4, <1>5, <1>6

LEMMA MaxOfTwo ==
    ASSUME NEW a \in Int, NEW b \in Int
    PROVE  Max({a, b}) = (IF a >= b THEN a ELSE b) /\ Min({a, b}) = (IF a <= b THEN a ELSE b)
    BY DEF Max, Min

LEMMA SuccessPercent ==
    ASSUME NEW o \in ModelOffer, NEW difficulty \in 1 .. 5
    PROVE  Success(o, difficulty) \in 1 .. 99
<1> DEFINE prior == QualityPrior[o.tier][difficulty]
           size == o.sample.size
           rate == o.sample.rate
           weighted == rate * size + prior * PriorSize
<1>1. o.tier \in 1 .. 5 /\ size \in Nat /\ rate \in 0 .. 100 /\ PriorSize \in Nat
    <2>1. PriorSize \in Nat
        BY RoutingAssumption
    <2>2. o.tier \in 1 .. 5 /\ o.sample \in [rate : 0 .. 100, size : Nat]
        BY DEF ModelOffer
    <2>3. QED
        BY <2>1, <2>2
<1>2. prior = Max({8, Min({97, 52 + 10 * o.tier - 7 * (difficulty - 1)})})
    BY <1>1, Zenon DEF QualityPrior
<1>3. prior \in 8 .. 97
    <2> DEFINE p == 52 + 10 * o.tier - 7 * (difficulty - 1)
    <2>1. p \in Int
        BY <1>1
    <2> HIDE DEF p
    <2>2. Min({97, p}) = IF 97 <= p THEN 97 ELSE p
        BY <2>1, MaxOfTwo
    <2> DEFINE q == Min({97, p})
    <2>3. q \in Int /\ q <= 97
        BY <2>1, <2>2
    <2> HIDE DEF q
    <2>4. Max({8, q}) \in 8 .. 97
        <3>1. Max({8, q}) = IF 8 >= q THEN 8 ELSE q
            BY <2>3, MaxOfTwo
        <3>2. QED
            BY <2>3, <3>1
    <2>5. QED
        BY <1>2, <2>4 DEF p, q
<1> HIDE DEF prior, size, rate
<1>4. CASE size = 0
    <2>1. Success(o, difficulty) = prior
        BY <1>4 DEF Success, prior, size
    <2>2. QED
        BY <1>3, <2>1
<1>5. CASE size # 0
    <2>1. rate * size \in Nat /\ prior * PriorSize \in Nat
          /\ rate * size <= 100 * size /\ prior * PriorSize <= 100 * PriorSize
        BY <1>1, <1>3
    <2>2. weighted \in Nat /\ size + PriorSize \in Nat \ {0}
          /\ weighted <= 100 * (size + PriorSize)
        BY <1>1, <1>5, <2>1
    <2> DEFINE w == weighted
               n == size + PriorSize
    <2>3. w \in Nat /\ n \in Nat \ {0} /\ w <= 100 * n
        BY <2>2
    <2> HIDE DEF w, n
    <2>4. w \div n \in 0 .. 100
        <3>1. w \div n \in Nat /\ n * (w \div n) <= w
            BY <2>3, Quotient
        <3> DEFINE x == w \div n
        <3>2. x \in Nat /\ n * x <= 100 * n
            BY <2>3, <3>1
        <3> HIDE DEF x
        <3>3. x <= 100
            BY <2>3, <3>2
        <3>4. QED
            BY <3>2, <3>3 DEF x
    <2>5. Percent[w \div n] \in 1 .. 99
        BY <2>4 DEF Percent
    <2>6. Success(o, difficulty) = Percent[w \div n]
        BY <1>5 DEF Success, w, n, weighted, prior, size, rate
    <2>7. QED
        BY <2>5, <2>6
<1>6. QED
    BY <1>4, <1>5

LEMMA Charged ==
    ASSUME NEW o \in ModelOffer, NEW warm, NEW success \in 1 .. 99
    PROVE  ExpectedCost(o, warm, success) \in Nat
<1> DEFINE first == IF warm THEN o.cached ELSE o.input
           retries == (o.attempts - 1) * (o.cached + o.output)
           divisor == IF success < 5 THEN 5 ELSE success
<1>1. first \in Nat /\ o.output \in Nat /\ o.attempts - 1 \in Nat /\ o.cached + o.output \in Nat
    BY DEF ModelOffer
<1>2. retries \in Nat
    BY <1>1, Product
<1>3. divisor \in Nat \ {0}
    OBVIOUS
<1> HIDE DEF first, retries, divisor
<1>4. (first + o.output + retries) * 1000 \in Nat
    BY <1>1, <1>2
<1>5. QED
    BY <1>3, <1>4, Quotient DEF ExpectedCost, first, retries, divisor

(* The entries of a decision: what scoreCandidates leaves to select from.   *)
Entry(total, tier, estimate, threshold, m) ==
    [model |-> m, tier |-> tier[m], estimate |-> estimate[m], threshold |-> threshold,
     total |-> total[m]]

(* Those of the models in E, in terms of their totals.                      *)
Entries(E, total, tier, estimate, threshold) ==
    {Entry(total, tier, estimate, threshold, m) : m \in E}

(* The order of selectCandidate. *)
Ahead(total, tier, estimate, x, y) ==
    \/ total[x] > total[y]
    \/ total[x] = total[y] /\ tier[x] > tier[y]
    \/ total[x] = total[y] /\ tier[x] = tier[y] /\ estimate[x] < estimate[y]
    \/ /\ total[x] = total[y] /\ tier[x] = tier[y] /\ estimate[x] = estimate[y]
       /\ Rank[x] < Rank[y]

LEMMA BeatsIsAhead ==
    ASSUME NEW E \in SUBSET Model, NEW total \in [Model -> Int], NEW tier \in [Model -> Int],
           NEW estimate \in [Model -> Int], NEW threshold, NEW x \in E, NEW y \in E
    PROVE  Beats(Entry(total, tier, estimate, threshold, x),
                 Entry(total, tier, estimate, threshold, y))
             <=> Ahead(total, tier, estimate, x, y)
<1>1. Rank[x] \in Nat /\ Rank[y] \in Nat
    BY RoutingAssumption
<1>2. total[x] \in Int /\ total[y] \in Int /\ tier[x] \in Int /\ tier[y] \in Int
      /\ estimate[x] \in Int /\ estimate[y] \in Int
    OBVIOUS
<1>3. QED
    BY <1>1, <1>2 DEF Beats, Entry, Ahead

(* There is one best entry. *)
LEMMA BestEntry ==
    ASSUME NEW E \in SUBSET Model, E # {}, NEW total \in [Model -> Int], NEW tier \in [Model -> Int],
           NEW estimate \in [Model -> Int], NEW threshold
    PROVE  \E b \in E :
              /\ Best(Entries(E, total, tier, estimate, threshold))
                   = Entry(total, tier, estimate, threshold, b)
              /\ \A x \in E \ {b} : Ahead(total, tier, estimate, b, x)
<1> DEFINE entry(x) == Entry(total, tier, estimate, threshold, x)
           entries == Entries(E, total, tier, estimate, threshold)
           R == {pair \in E \X E : Ahead(total, tier, estimate, pair[1], pair[2])}
<1>1. IsFiniteSet(E)
    BY RoutingAssumption, FS_Subset
<1>2. \A x \in E : /\ total[x] \in Int /\ tier[x] \in Int /\ estimate[x] \in Int
                   /\ Rank[x] \in Nat
    BY RoutingAssumption
<1>3. \A x, y \in E : x # y => Rank[x] # Rank[y]
    BY RoutingAssumption
<1>4. \A x, y \in E : <<x, y>> \in R <=> Ahead(total, tier, estimate, x, y)
    OBVIOUS
<1> HIDE DEF R
<1>5. \A x, y \in E : x # y => <<x, y>> \in R \/ <<y, x>> \in R
    BY <1>2, <1>3, <1>4 DEF Ahead
<1>6. \A x, y, z \in E : <<x, y>> \in R /\ <<y, z>> \in R => <<x, z>> \in R
    <2> SUFFICES ASSUME NEW x \in E, NEW y \in E, NEW z \in E,
                        Ahead(total, tier, estimate, x, y), Ahead(total, tier, estimate, y, z)
                 PROVE  Ahead(total, tier, estimate, x, z)
        BY <1>4
    <2>1. QED
        BY <1>2 DEF Ahead
<1>7. PICK b \in E : \A x \in E \ {b} : <<b, x>> \in R
    BY <1>1, <1>5, <1>6, FiniteGreatest
<1>8. \A x \in E \ {b} : Ahead(total, tier, estimate, b, x)
    BY <1>4, <1>7
<1>9. \A x, y \in E : Ahead(total, tier, estimate, x, y) => ~Ahead(total, tier, estimate, y, x)
    BY <1>2 DEF Ahead
<1>10. \A x, y \in E : Beats(entry(x), entry(y)) <=> Ahead(total, tier, estimate, x, y)
    BY BeatsIsAhead
<1>11. \A x \in E : entry(x).model = x
    BY DEF Entry
<1> DEFINE best == Best(entries)
<1>12. entry(b) \in entries /\ \A l \in entries \ {entry(b)} : Beats(entry(b), l)
    BY <1>8, <1>10, <1>11 DEF Entries
<1>13. best \in entries /\ \A l \in entries \ {best} : Beats(best, l)
    <2> HIDE DEF entries, entry
    <2> QED
        BY <1>12 DEF Best
<1>14. PICK c \in E : best = entry(c)
    BY <1>13 DEF Entries
<1>15. c = b
    <2>1. CASE c # b
        <3>1. entry(c) # entry(b)
            BY <1>11, <2>1
        <3>2. entry(b) \in entries \ {best}
            BY <1>12, <1>14, <3>1
        <3>3. Beats(entry(c), entry(b))
            BY <1>13, <1>14, <3>2
        <3>4. QED
            BY <1>8, <1>9, <1>10, <2>1, <3>3
    <2>2. QED
        BY <2>1
<1>16. QED
    BY <1>8, <1>14, <1>15

(* Nothing but the session's model is kept, and by what its totals say. *)
LEMMA ChoiceIs ==
    ASSUME NEW E \in SUBSET Model, NEW total \in [Model -> Int], NEW tier \in [Model -> Int],
           NEW estimate \in [Model -> Int], NEW threshold \in Int, NEW task, NEW b \in E,
           Best(Entries(E, total, tier, estimate, threshold))
             = Entry(total, tier, estimate, threshold, b)
    PROVE  LET loyal == /\ FixedModel = NoModel
                        /\ request.provider = "any"
                        /\ Family(session.class) = Family(task.class)
               kept == /\ session.model \in E
                       /\ loyal
                       /\ total[b] - total[session.model] < threshold
           IN  Choice(Entries(E, total, tier, estimate, threshold), task)
                 = IF kept THEN session.model ELSE b
<1> DEFINE entry(x) == Entry(total, tier, estimate, threshold, x)
           entries == Entries(E, total, tier, estimate, threshold)
           loyal == /\ FixedModel = NoModel
                    /\ request.provider = "any"
                    /\ Family(session.class) = Family(task.class)
           kept == session.model \in E /\ loyal /\ total[b] - total[session.model] < threshold
<1>1. \A x \in E : /\ entry(x).model = x /\ entry(x).total = total[x]
                   /\ entry(x).threshold = threshold
    BY DEF Entry
<1>2. \A x \in E : Keeps(entry(x), entry(b), task)
                     <=> x = session.model /\ loyal /\ total[b] - total[x] < threshold
    <2> HIDE DEF entry
    <2> QED
        BY <1>1 DEF Keeps
<1>3. {k \in entries : Keeps(k, entry(b), task)} # {} <=> kept
    BY <1>2 DEF Entries
<1> HIDE DEF kept
<1>4. Choice(entries, task) = IF kept THEN session.model ELSE entry(b).model
    BY <1>3 DEF Choice
<1>5. QED
    BY <1>1, <1>4 DEF kept

(* What only lowers one model's score against every other, on whatever      *)
(* scale, never makes it the choice.                                        *)
LEMMA NeverTheChoice ==
    ASSUME NEW E \in SUBSET Model, NEW m \in E, NEW tier \in [Model -> Int],
           NEW total \in [Model -> Int], NEW estimate \in [Model -> Int], NEW threshold \in Int,
           NEW lower \in [Model -> Int], NEW higher \in [Model -> Int], NEW scaled \in Int,
           \A x \in E \ {m} :
              /\ higher[x] = estimate[x]
              /\ total[x] >= total[m] => lower[x] >= lower[m]
              /\ total[x] > total[m] => lower[x] > lower[m]
              /\ total[x] - total[m] >= threshold => lower[x] - lower[m] >= scaled
              /\ total[m] - total[x] < threshold => lower[m] - lower[x] < scaled,
           estimate[m] <= higher[m],
           NEW task,
           Choice(Entries(E, total, tier, estimate, threshold), task) # m
    PROVE  Choice(Entries(E, lower, tier, higher, scaled), task) # m
<1>1. PICK b \in E : /\ Best(Entries(E, total, tier, estimate, threshold))
                          = Entry(total, tier, estimate, threshold, b)
                     /\ \A x \in E \ {b} : Ahead(total, tier, estimate, b, x)
    BY BestEntry
<1>2. PICK c \in E : /\ Best(Entries(E, lower, tier, higher, scaled))
                          = Entry(lower, tier, higher, scaled, c)
                     /\ \A x \in E \ {c} : Ahead(lower, tier, higher, c, x)
    BY BestEntry
<1> DEFINE loyal == /\ FixedModel = NoModel
                    /\ request.provider = "any"
                    /\ Family(session.class) = Family(task.class)
           s == session.model
           kept == s \in E /\ loyal /\ total[b] - total[s] < threshold
           still == s \in E /\ loyal /\ lower[c] - lower[s] < scaled
<1>3. Choice(Entries(E, total, tier, estimate, threshold), task) = IF kept THEN s ELSE b
    BY <1>1, ChoiceIs
<1>4. Choice(Entries(E, lower, tier, higher, scaled), task) = IF still THEN s ELSE c
    BY <1>2, ChoiceIs
<1>5. \A x \in E : /\ total[x] \in Int /\ lower[x] \in Int /\ tier[x] \in Int
                   /\ estimate[x] \in Int /\ higher[x] \in Int /\ Rank[x] \in Nat
    BY RoutingAssumption
<1> HIDE DEF loyal, s
<1>6. b # m => c # m
    <2> SUFFICES ASSUME b # m, c = m PROVE FALSE
        OBVIOUS
    <2>1. Ahead(lower, tier, higher, m, b)
        BY <1>2
    <2>2. Ahead(total, tier, estimate, b, m)
        BY <1>1
    <2>3. QED
        BY <1>5, <2>1, <2>2 DEF Ahead
<1>7. CASE s = m
    <2>1. ~kept /\ b # m
        BY <1>3, <1>7
    <2>2. CASE loyal
        <3>1. lower[b] - lower[m] >= scaled
            BY <1>5, <1>7, <2>1, <2>2
        <3>2. c # b => lower[c] >= lower[b]
            BY <1>2, <1>5 DEF Ahead
        <3>3. lower[c] - lower[m] >= scaled
            BY <1>5, <3>1, <3>2
        <3>4. ~still
            BY <1>5, <1>7, <3>3
        <3>5. QED
            BY <1>4, <1>6, <2>1, <3>4
    <2>3. CASE ~loyal
        BY <1>4, <1>6, <2>1, <2>3
    <2>4. QED
        BY <2>2, <2>3
<1>8. CASE s # m
    <2> SUFFICES ASSUME c = m, ~still PROVE FALSE
        BY <1>4, <1>8
    <2>1. kept
        BY <1>3, <1>6
    <2>2. total[m] - total[s] < threshold
        BY <1>6, <2>1
    <2>3. lower[m] - lower[s] < scaled
        BY <1>8, <2>1, <2>2
    <2>4. QED
        BY <2>1, <2>3
<1>9. QED
    BY <1>7, <1>8

(* What the entries hold, by model.                                         *)

Rates(offers, task) == [m \in Model |-> Success(offers[m], task.difficulty)]

Costs(offers, task) ==
    [m \in Model |-> ExpectedCost(offers[m], session.model = m,
                                  Success(offers[m], task.difficulty))]

Estimates(offers) == [m \in Model |-> EstimatedCost(offers[m])]

Tiers(offers) == [m \in Model |-> IF request.mode = "quality" THEN offers[m].tier ELSE 0]

(* The scale of a criterion: no maximum is below one.                       *)
Greatest(E, values) == Max({1} \cup {values[m] : m \in E})

Latencies(offers) == [m \in Model |-> offers[m].latency]

(* The scores, from the costs and latencies of all models and the two scales. *)
Totals(successes, costs, latencies, cost, latency) ==
    [m \in Model |->
        Policy[request.mode].quality * successes[m] * (cost * latency)
        - Policy[request.mode].cost * 100 * costs[m] * latency
        - Policy[request.mode].latency * 100 * latencies[m] * cost
        - (IF Penalized(m) THEN 100 * Penalty * (cost * latency) ELSE 0)]

LEMMA GreatestBounds ==
    ASSUME NEW E \in SUBSET Model, NEW values \in [Model -> Nat]
    PROVE  /\ Greatest(E, values) \in Nat \ {0}
           /\ \A m \in E : values[m] <= Greatest(E, values)
           /\ Greatest(E, values) = 1 \/ \E m \in E : Greatest(E, values) = values[m]
<1> DEFINE S == {values[m] : m \in E}
<1>1. IsFiniteSet(E)
    BY RoutingAssumption, FS_Subset
<1>2. IsFiniteSet(S)
    BY <1>1, ImageFinite
<1>3. IsFiniteSet({1} \cup S)
    BY <1>2, FS_Singleton, FS_Union
<1>4. {1} \cup S \in SUBSET Int /\ S \subseteq Nat
    OBVIOUS
<1> DEFINE T == {1} \cup S
<1>5. Max(T) \in T /\ \A n \in T : n <= Max(T)
    <2> HIDE DEF S
    <2>1. T # {}
        OBVIOUS
    <2> HIDE DEF T
    <2>2. QED
        BY <1>3, <1>4, <2>1, MaxOf DEF T
<1>6. 1 \in T /\ \A m \in E : values[m] \in T
    OBVIOUS
<1>7. Max(T) \in Nat /\ Max(T) >= 1
    BY <1>4, <1>5, <1>6
<1>8. Greatest(E, values) = Max(T)
    BY DEF Greatest
<1>9. Max(T) = 1 \/ Max(T) \in S
    BY <1>5
<1>10. QED
    <2> HIDE DEF T
    <2> QED
        BY <1>5, <1>6, <1>7, <1>8, <1>9

LEMMA ScoredEntries ==
    ASSUME NEW offers, NEW task
    PROVE  LET E == Eligible(offers, task)
               costs == Costs(offers, task)
               latencies == Latencies(offers)
               cost == Greatest(E, costs)
               latency == Greatest(E, latencies)
           IN  Scored(Candidates(offers, task))
                 = Entries(E, Totals(Rates(offers, task), costs, latencies, cost, latency),
                           Tiers(offers), Estimates(offers), 100 * Threshold * cost * latency)
<1> DEFINE E == Eligible(offers, task)
           costs == Costs(offers, task)
           latencies == Latencies(offers)
           cost == Greatest(E, costs)
           latency == Greatest(E, latencies)
           candidate(m) ==
              [model    |-> m,
               success  |-> Success(offers[m], task.difficulty),
               cost     |-> ExpectedCost(offers[m], session.model = m,
                                         Success(offers[m], task.difficulty)),
               latency  |-> offers[m].latency,
               tier     |-> IF request.mode = "quality" THEN offers[m].tier ELSE 0,
               estimate |-> EstimatedCost(offers[m])]
           total == Totals(Rates(offers, task), costs, latencies, cost, latency)
           threshold == 100 * Threshold * cost * latency
<1>1. Candidates(offers, task) = {candidate(m) : m \in E}
    BY DEF Candidates
<1>2. \A m \in E : /\ m \in Model
                   /\ candidate(m).model = m
                   /\ candidate(m).success = Rates(offers, task)[m]
                   /\ candidate(m).cost = costs[m]
                   /\ candidate(m).latency = latencies[m]
                   /\ candidate(m).tier = Tiers(offers)[m]
                   /\ candidate(m).estimate = Estimates(offers)[m]
    BY DEF Eligible, Rates, Costs, Latencies, Tiers, Estimates
<1> HIDE DEF candidate, E, costs, latencies
<1> DEFINE C == {candidate(m) : m \in E}
<1>3. /\ {k.cost : k \in C} = {costs[m] : m \in E}
      /\ {k.latency : k \in C} = {latencies[m] : m \in E}
    BY <1>2
<1>4. Max({1} \cup {k.cost : k \in C}) = cost /\ Max({1} \cup {k.latency : k \in C}) = latency
    BY <1>3 DEF Greatest
<1> HIDE DEF cost, latency
<1>5. \A m \in E : Score(candidate(m), cost, latency) = total[m]
    BY <1>2 DEF Score, Totals
<1> HIDE DEF total, C
<1>6. Scored(C) = {[model |-> k.model, tier |-> k.tier, estimate |-> k.estimate,
                    threshold |-> threshold, total |-> Score(k, cost, latency)] : k \in C}
    BY <1>4 DEF Scored
<1>7. \A m \in E : [model |-> candidate(m).model, tier |-> candidate(m).tier,
                    estimate |-> candidate(m).estimate, threshold |-> threshold,
                    total |-> Score(candidate(m), cost, latency)]
                     = Entry(total, Tiers(offers), Estimates(offers), threshold, m)
    BY <1>2, <1>5 DEF Entry
<1> HIDE DEF threshold
<1>8. Scored(C) = Entries(E, total, Tiers(offers), Estimates(offers), threshold)
    <2> DEFINE entry(k) == [model |-> k.model, tier |-> k.tier, estimate |-> k.estimate,
                            threshold |-> threshold, total |-> Score(k, cost, latency)]
    <2>1. Scored(C) = {entry(k) : k \in C}
        BY <1>6
    <2>2. \A m \in E : entry(candidate(m))
                          = Entry(total, Tiers(offers), Estimates(offers), threshold, m)
        BY <1>7
    <2> HIDE DEF entry
    <2>3. QED
        BY <2>1, <2>2 DEF Entries, C
<1>9. QED
    BY <1>1, <1>8 DEF C, E, costs, latencies, cost, latency, total, threshold

LEMMA Shift ==
    ASSUME NEW scale \in Nat \ {0}, NEW larger \in Nat \ {0}, NEW weight \in Nat,
           NEW base \in Int, NEW before \in Int, NEW after \in Int, NEW margin \in Int,
           before * larger <= after * scale,
           NEW first, first = base * scale + weight * before,
           NEW second, second = base * larger + weight * after
    PROVE  /\ first >= 0 => second >= 0
           /\ first > 0 => second > 0
           /\ first >= margin * scale => second >= margin * larger
           /\ -first < margin * scale => -second < margin * larger
<1>1. first \in Int /\ second \in Int
    OBVIOUS
<1>2. (first >= 0 => second >= 0) /\ (first > 0 => second > 0)
    BY Comparison
<1>3. first >= margin * scale => second >= margin * larger
    <2>1. /\ (base - margin) * scale + weight * before = first - margin * scale
          /\ (base - margin) * larger + weight * after = second - margin * larger
        OBVIOUS
    <2>2. base - margin \in Int
        OBVIOUS
    <2>3. first - margin * scale >= 0 => second - margin * larger >= 0
        BY <2>1, <2>2, Comparison
    <2> DEFINE p == margin * scale
               q == margin * larger
    <2>4. p \in Int /\ q \in Int
        OBVIOUS
    <2> HIDE DEF p, q
    <2>5. first - p >= 0 => second - q >= 0
        BY <2>3 DEF p, q
    <2>6. first >= p => second >= q
        BY <1>1, <2>4, <2>5
    <2>7. QED
        BY <2>6 DEF p, q
<1>4. -first < margin * scale => -second < margin * larger
    <2>1. /\ (base + margin) * scale + weight * before = first + margin * scale
          /\ (base + margin) * larger + weight * after = second + margin * larger
        OBVIOUS
    <2>2. base + margin \in Int
        OBVIOUS
    <2>3. first + margin * scale > 0 => second + margin * larger > 0
        BY <2>1, <2>2, Comparison
    <2> DEFINE p == margin * scale
               q == margin * larger
    <2>4. p \in Int /\ q \in Int
        OBVIOUS
    <2> HIDE DEF p, q
    <2>5. first + p > 0 => second + q > 0
        BY <2>3 DEF p, q
    <2>6. -first < p => -second < q
        BY <1>1, <2>4, <2>5
    <2>7. QED
        BY <2>6 DEF p, q
<1>5. QED
    BY <1>2, <1>3, <1>4

LEMMA DearerOffer ==
    ASSUME NEW o \in [Model -> ModelOffer], NEW m \in Model
    PROVE  /\ Dearer(o, m) \in [Model -> ModelOffer]
           /\ \A x \in Model \ {m} : Dearer(o, m)[x] = o[x]
           /\ Dearer(o, m)[m].tier = o[m].tier
           /\ Dearer(o, m)[m].sample = o[m].sample
           /\ Dearer(o, m)[m].latency = o[m].latency
           /\ Dearer(o, m)[m].attempts = o[m].attempts
           /\ Dearer(o, m)[m].input = 2 * o[m].input
           /\ Dearer(o, m)[m].cached = 2 * o[m].cached
           /\ Dearer(o, m)[m].output = 2 * o[m].output
<1> DEFINE p == o[m]
           a == [p EXCEPT !.input = 2 * @]
           b == [a EXCEPT !.cached = 2 * @]
           c == [b EXCEPT !.output = 2 * @]
<1>1. p \in ModelOffer
    OBVIOUS
<1>2. a \in ModelOffer /\ a.input = 2 * p.input /\ a.cached = p.cached /\ a.output = p.output
      /\ a.tier = p.tier /\ a.sample = p.sample /\ a.latency = p.latency
      /\ a.attempts = p.attempts
    BY <1>1 DEF ModelOffer
<1>3. b \in ModelOffer /\ b.input = a.input /\ b.cached = 2 * a.cached /\ b.output = a.output
      /\ b.tier = a.tier /\ b.sample = a.sample /\ b.latency = a.latency
      /\ b.attempts = a.attempts
    <2> HIDE DEF a
    <2> QED
        BY <1>2 DEF ModelOffer
<1>4. c \in ModelOffer /\ c.input = b.input /\ c.cached = b.cached /\ c.output = 2 * b.output
      /\ c.tier = b.tier /\ c.sample = b.sample /\ c.latency = b.latency
      /\ c.attempts = b.attempts
    <2> HIDE DEF b
    <2> QED
        BY <1>3 DEF ModelOffer
<1>5. Dearer(o, m) = [o EXCEPT ![m] = c]
    BY DEF Dearer
<1> HIDE DEF a, b, c
<1>6. QED
    BY <1>2, <1>3, <1>4, <1>5

LEMMA EntriesTyped ==
    ASSUME NEW o \in [Model -> ModelOffer], NEW task, task.difficulty \in 1 .. 5
    PROVE  /\ Rates(o, task) \in [Model -> 1 .. 99]
           /\ Costs(o, task) \in [Model -> Nat]
           /\ Latencies(o) \in [Model -> Nat]
           /\ Estimates(o) \in [Model -> Int]
           /\ Tiers(o) \in [Model -> Int]
<1>1. ASSUME NEW m \in Model
      PROVE  /\ Success(o[m], task.difficulty) \in 1 .. 99
             /\ o[m].tier \in Int /\ o[m].latency \in Nat /\ EstimatedCost(o[m]) \in Int
    <2>1. Success(o[m], task.difficulty) \in 1 .. 99
        BY SuccessPercent
    <2>2. QED
        BY <2>1 DEF ModelOffer, EstimatedCost
<1>2. ASSUME NEW m \in Model
      PROVE  ExpectedCost(o[m], session.model = m, Success(o[m], task.difficulty)) \in Nat
    BY <1>1, Charged
<1>3. Rates(o, task) \in [Model -> 1 .. 99]
    BY <1>1 DEF Rates
<1>4. Costs(o, task) \in [Model -> Nat]
    BY <1>2 DEF Costs
<1>5. /\ Latencies(o) \in [Model -> Nat]
      /\ Estimates(o) \in [Model -> Int] /\ Tiers(o) \in [Model -> Int]
    BY <1>1 DEF Latencies, Estimates, Tiers
<1>6. QED
    BY <1>3, <1>4, <1>5

LEMMA TotalsTyped ==
    ASSUME request \in Request, NEW successes \in [Model -> 1 .. 99], NEW costs \in [Model -> Nat],
           NEW latencies \in [Model -> Nat], NEW cost \in Nat, NEW latency \in Nat
    PROVE  Totals(successes, costs, latencies, cost, latency) \in [Model -> Int]
<1>1. Policy[request.mode] \in ModePolicy /\ Penalty \in Nat
    BY RoutingAssumption
<1>2. /\ Policy[request.mode].quality \in Nat /\ Policy[request.mode].cost \in Nat
      /\ Policy[request.mode].latency \in Nat
    BY <1>1 DEF ModePolicy
<1> DEFINE q == Policy[request.mode].quality
           c == Policy[request.mode].cost
           l == Policy[request.mode].latency
<1>3. q \in Nat /\ c \in Nat /\ l \in Nat
    BY <1>2
<1> HIDE DEF q, c, l
<1>4. ASSUME NEW m \in Model
      PROVE  q * successes[m] * (cost * latency) - c * 100 * costs[m] * latency
             - l * 100 * latencies[m] * cost
             - (IF Penalized(m) THEN 100 * Penalty * (cost * latency) ELSE 0) \in Int
    BY <1>1, <1>3
<1>5. QED
    BY <1>4 DEF Totals, q, c, l

(* What of a total does not depend on the costs, and what weighs them.      *)
Fixed(successes, latencies, latency, m) ==
    Policy[request.mode].quality * successes[m] * latency
    - Policy[request.mode].latency * 100 * latencies[m]
    - (IF Penalized(m) THEN 100 * Penalty ELSE 0) * latency

(* What one unit of cost takes from a score. *)
Weight(latency) == Policy[request.mode].cost * 100 * latency

Combined(fixed, scale, weight, cost) == fixed * scale - weight * cost

(* A total is a part on the scale of the costs and a part for the cost.     *)
Splits(successes, costs, latencies, cost, latency, m) ==
    /\ Fixed(successes, latencies, latency, m) \in Int
    /\ Weight(latency) \in Nat
    /\ Totals(successes, costs, latencies, cost, latency)[m]
         = Combined(Fixed(successes, latencies, latency, m), cost, Weight(latency), costs[m])

LEMMA TotalSplits ==
    ASSUME request \in Request, NEW successes \in [Model -> 1 .. 99], NEW costs \in [Model -> Nat],
           NEW latencies \in [Model -> Nat], NEW cost \in Nat, NEW latency \in Nat,
           NEW m \in Model
    PROVE  Splits(successes, costs, latencies, cost, latency, m)
<1>1. Policy[request.mode] \in ModePolicy /\ Penalty \in Nat
    BY RoutingAssumption
<1>2. /\ Policy[request.mode].quality \in Nat /\ Policy[request.mode].cost \in Nat
      /\ Policy[request.mode].latency \in Nat
    BY <1>1 DEF ModePolicy
<1> DEFINE q == Policy[request.mode].quality
           c == Policy[request.mode].cost
           l == Policy[request.mode].latency
           p == IF Penalized(m) THEN 100 * Penalty ELSE 0
           s == successes[m]
           t == latencies[m]
           k == costs[m]
<1>3. /\ q \in Nat /\ c \in Nat /\ l \in Nat /\ p \in Nat
      /\ s \in Nat /\ t \in Nat /\ k \in Nat
    BY <1>1, <1>2
<1>4. (IF Penalized(m) THEN 100 * Penalty * (cost * latency) ELSE 0) = p * (cost * latency)
    BY <1>1
<1>5. Totals(successes, costs, latencies, cost, latency)[m]
        = q * s * (cost * latency) - c * 100 * k * latency - l * 100 * t * cost
          - p * (cost * latency)
    BY <1>4 DEF Totals
<1>6. /\ Fixed(successes, latencies, latency, m) = q * s * latency - l * 100 * t - p * latency
      /\ Weight(latency) = c * 100 * latency
    BY DEF Fixed, Weight
<1> HIDE DEF q, c, l, p, s, t, k
<1>7. q * s * (cost * latency) - c * 100 * k * latency - l * 100 * t * cost - p * (cost * latency)
        = (q * s * latency - l * 100 * t - p * latency) * cost - (c * 100 * latency) * k
    BY <1>3
<1>8. q * s * latency - l * 100 * t - p * latency \in Int /\ c * 100 * latency \in Nat
    <2>1. c * 100 \in Nat
        BY <1>3
    <2>2. QED
        BY <1>3, <2>1, Product
<1>9. QED
    BY <1>5, <1>6, <1>7, <1>8 DEF Splits, Combined, k

(* Raising all prices of a model raises what it is expected to cost.        *)
LEMMA DearerCosts ==
    ASSUME NEW o \in [Model -> ModelOffer], NEW m \in Model, NEW warm, NEW success \in 1 .. 99
    PROVE  ExpectedCost(o[m], warm, success) <= ExpectedCost(Dearer(o, m)[m], warm, success)
<1> DEFINE p == o[m]
           d == Dearer(o, m)[m]
           sum(v) == ((IF warm THEN v.cached ELSE v.input) + v.output
                        + (v.attempts - 1) * (v.cached + v.output)) * 1000
           divisor == IF success < 5 THEN 5 ELSE success
<1>1. p \in ModelOffer /\ d.attempts = p.attempts /\ d.input = 2 * p.input
      /\ d.cached = 2 * p.cached /\ d.output = 2 * p.output
    BY DearerOffer
<1> HIDE DEF p, d
<1>2. /\ p.cached \in Nat /\ p.input \in Nat /\ p.output \in Nat
      /\ p.attempts - 1 \in Nat /\ p.cached + p.output \in Nat
    BY <1>1 DEF ModelOffer
<1>3. (p.attempts - 1) * (p.cached + p.output) \in Nat
    BY <1>2, Product
<1>4. (d.attempts - 1) * (d.cached + d.output) = 2 * ((p.attempts - 1) * (p.cached + p.output))
    BY <1>1, <1>2
<1>5. sum(p) \in Nat /\ sum(d) = 2 * sum(p)
    <2> DEFINE first == IF warm THEN p.cached ELSE p.input
               retries == (p.attempts - 1) * (p.cached + p.output)
    <2>1. first \in Nat /\ retries \in Nat
          /\ (IF warm THEN d.cached ELSE d.input) = 2 * first
          /\ (d.attempts - 1) * (d.cached + d.output) = 2 * retries
        BY <1>1, <1>2, <1>3, <1>4
    <2>2. sum(p) = (first + p.output + retries) * 1000
        OBVIOUS
    <2> HIDE DEF retries
    <2>3. sum(d) = (2 * first + 2 * p.output + 2 * retries) * 1000
        BY <1>1, <2>1
    <2> HIDE DEF first, sum
    <2>4. QED
        BY <1>2, <2>1, <2>2, <2>3
<1>6. divisor \in Nat \ {0}
    OBVIOUS
<1> HIDE DEF sum, divisor
<1>7. sum(p) \div divisor <= sum(d) \div divisor
    BY <1>5, <1>6, QuotientGrows
<1>8. QED
    BY <1>7 DEF ExpectedCost, sum, divisor, p, d

LEMMA SomeCandidate ==
    ASSUME NEW o, NEW task
    PROVE  Candidates(o, task) = {} <=> Eligible(o, task) = {}
<1> DEFINE candidate(m) ==
              [model    |-> m,
               success  |-> Success(o[m], task.difficulty),
               cost     |-> ExpectedCost(o[m], session.model = m,
                                         Success(o[m], task.difficulty)),
               latency  |-> o[m].latency,
               tier     |-> IF request.mode = "quality" THEN o[m].tier ELSE 0,
               estimate |-> EstimatedCost(o[m])]
<1>1. Candidates(o, task) = {candidate(m) : m \in Eligible(o, task)}
    BY DEF Candidates
<1> HIDE DEF candidate
<1>2. QED
    BY <1>1

(* A selected model is eligible. *)
LEMMA SelectedEligible ==
    ASSUME request \in Request, NEW o \in [Model -> ModelOffer]
    PROVE  Selected(o) \in Eligible(o, Task(request)) \cup {NoModel}
<1> DEFINE task == Task(request)
           E == Eligible(o, task)
           cost == Greatest(E, Costs(o, task))
           latency == Greatest(E, Latencies(o))
           total == Totals(Rates(o, task), Costs(o, task), Latencies(o), cost, latency)
           threshold == 100 * Threshold * cost * latency
<1>1. CASE Candidates(o, task) = {}
    BY <1>1 DEF Selected
<1>2. CASE Candidates(o, task) # {}
    <2>1. E \in SUBSET Model /\ E # {}
        BY <1>2 DEF Candidates, Eligible
    <2>2. task.difficulty \in 1 .. 5
        BY TaskDifficulty
    <2> HIDE DEF task
    <2>3. /\ Rates(o, task) \in [Model -> 1 .. 99] /\ Costs(o, task) \in [Model -> Nat]
          /\ Latencies(o) \in [Model -> Nat] /\ Estimates(o) \in [Model -> Int]
          /\ Tiers(o) \in [Model -> Int]
        BY <2>2, EntriesTyped
    <2> HIDE DEF E
    <2>4. cost \in Nat /\ latency \in Nat
        BY <2>1, <2>3, GreatestBounds
    <2>5. Threshold \in Nat
        BY RoutingAssumption
    <2> HIDE DEF cost, latency
    <2>6. total \in [Model -> Int] /\ threshold \in Int
        <3>1. threshold \in Int
            BY <2>4, <2>5
        <3> DEFINE s == Rates(o, task)
                   c == Costs(o, task)
                   l == Latencies(o)
        <3>2. s \in [Model -> 1 .. 99] /\ c \in [Model -> Nat] /\ l \in [Model -> Nat]
            BY <2>3
        <3> HIDE DEF s, c, l
        <3>3. Totals(s, c, l, cost, latency) \in [Model -> Int]
            BY <2>4, <3>2, TotalsTyped
        <3>4. QED
            BY <3>1, <3>3 DEF s, c, l
    <2>7. Scored(Candidates(o, task)) = Entries(E, total, Tiers(o), Estimates(o), threshold)
        BY ScoredEntries DEF E, cost, latency
    <2> HIDE DEF total, threshold
    <2>8. PICK b \in E : Best(Entries(E, total, Tiers(o), Estimates(o), threshold))
                           = Entry(total, Tiers(o), Estimates(o), threshold, b)
        BY <2>1, <2>3, <2>6, BestEntry
    <2>9. Choice(Entries(E, total, Tiers(o), Estimates(o), threshold), task) \in {session.model, b}
          /\ (Choice(Entries(E, total, Tiers(o), Estimates(o), threshold), task) # b
                => session.model \in E)
        BY <2>1, <2>3, <2>6, <2>8, ChoiceIs
    <2>10. Selected(o) = Choice(Entries(E, total, Tiers(o), Estimates(o), threshold), task)
        BY <1>2, <2>7 DEF Selected, task
    <2>11. QED
        BY <2>8, <2>9, <2>10 DEF E, task
<1>3. QED
    BY <1>1, <1>2

LEMMA DearerNeverSelected ==
    ASSUME request \in Request, NEW o \in [Model -> ModelOffer], NEW m \in Model,
           Selected(o) # m
    PROVE  Selected(Dearer(o, m)) # m
<1> DEFINE task == Task(request)
           d == Dearer(o, m)
           E == Eligible(o, task)
<1>1. /\ d \in [Model -> ModelOffer]
      /\ \A x \in Model \ {m} : d[x] = o[x]
      /\ d[m].tier = o[m].tier /\ d[m].sample = o[m].sample /\ d[m].latency = o[m].latency
      /\ EstimatedCost(o[m]) <= EstimatedCost(d[m])
    <2>1. o[m].input \in Nat /\ o[m].output \in Nat
        BY DEF ModelOffer
    <2>2. QED
        BY <2>1, DearerOffer DEF EstimatedCost
<1>2. task.difficulty \in 1 .. 5
    BY TaskDifficulty
<1> HIDE DEF task, d
<1>3. CASE m \notin Eligible(d, task)
    <2>1. m # NoModel
        BY RoutingAssumption
    <2>2. QED
        BY <1>1, <1>3, <2>1, SelectedEligible DEF task, d
<1>4. CASE m \in Eligible(d, task)
    <2>1. ASSUME NEW x \in Model
          PROVE  x \in Eligible(d, task) <=> x \in E
        <3>1. CASE x = m
            <4>1. request.provider \in {"any", ProviderOf[m]} /\ m \notin unfit
                  /\ (IF FixedModel = NoModel THEN d[m].tier >= QualityFloor(task)
                                               ELSE m = FixedModel)
                  /\ EstimatedCost(d[m]) <= request.budget
                BY <1>4 DEF Eligible
            <4>2. EstimatedCost(o[m]) <= request.budget
                <5>1. request.budget \in Nat
                    BY RoutingAssumption
                <5>2. EstimatedCost(o[m]) \in Int /\ EstimatedCost(d[m]) \in Int
                    BY <1>1 DEF EstimatedCost, ModelOffer
                <5>3. QED
                    BY <1>1, <4>1, <5>1, <5>2
            <4>3. QED
                BY <1>1, <1>4, <3>1, <4>1, <4>2 DEF Eligible
        <3>2. CASE x # m
            BY <1>1, <3>2 DEF Eligible
        <3>3. QED
            BY <3>1, <3>2
    <2>2. Eligible(d, task) = E
        BY <2>1 DEF Eligible
    <2>3. E \in SUBSET Model /\ m \in E
        BY <1>4, <2>2 DEF Eligible
    <2> HIDE DEF E
    <2>4. /\ Rates(d, task) = Rates(o, task)
          /\ Latencies(d) = Latencies(o)
          /\ Tiers(d) = Tiers(o)
        BY <1>1 DEF Rates, Success, Latencies, Tiers
    <2> DEFINE s == Rates(o, task)
               l == Latencies(o)
               t == Tiers(o)
               e == Estimates(o)
               f == Estimates(d)
               c == Costs(o, task)
               g == Costs(d, task)
    <2>5. /\ s \in [Model -> 1 .. 99] /\ l \in [Model -> Nat] /\ t \in [Model -> Int]
          /\ e \in [Model -> Int] /\ f \in [Model -> Int]
          /\ c \in [Model -> Nat] /\ g \in [Model -> Nat]
        BY <1>1, <1>2, EntriesTyped
    <2>6. /\ \A x \in Model \ {m} : g[x] = c[x] /\ f[x] = e[x]
          /\ e[m] <= f[m]
        BY <1>1 DEF Costs, Estimates
    <2>7. c[m] <= g[m]
        <3>1. Success(d[m], task.difficulty) = Success(o[m], task.difficulty)
            BY <1>1 DEF Success
        <3>2. Success(o[m], task.difficulty) \in 1 .. 99
            BY <1>2, SuccessPercent
        <3>3. QED
            BY <3>1, <3>2, DearerCosts DEF Costs, d
    <2> DEFINE C == Greatest(E, c)
               G == Greatest(E, g)
               L == Greatest(E, l)
    <2>8. /\ C \in Nat \ {0} /\ (\A x \in E : c[x] <= C) /\ (C = 1 \/ \E x \in E : C = c[x])
          /\ G \in Nat \ {0} /\ (\A x \in E : g[x] <= G) /\ (G = 1 \/ \E x \in E : G = g[x])
          /\ L \in Nat \ {0}
        BY <2>3, <2>5, GreatestBounds
    <2> DEFINE total == Totals(s, c, l, C, L)
               lower == Totals(s, g, l, G, L)
               threshold == 100 * Threshold * C * L
               scaled == 100 * Threshold * G * L
    <2>9. /\ Scored(Candidates(o, task)) = Entries(E, total, t, e, threshold)
          /\ Scored(Candidates(d, task)) = Entries(E, lower, t, f, scaled)
        BY <2>2, <2>4, ScoredEntries DEF E
    <2> HIDE DEF s, l, t, e, f, c, g, C, G, L
    <2>10. Threshold \in Nat
        BY RoutingAssumption
    <2>11. total \in [Model -> Int] /\ lower \in [Model -> Int]
        BY <2>5, <2>8, TotalsTyped
    <2>12. threshold \in Int /\ scaled \in Int
        BY <2>8, <2>10
    <2>13. ASSUME NEW x \in E \ {m}
           PROVE  /\ total[x] >= total[m] => lower[x] >= lower[m]
                  /\ total[x] > total[m] => lower[x] > lower[m]
                  /\ total[x] - total[m] >= threshold => lower[x] - lower[m] >= scaled
                  /\ total[m] - total[x] < threshold => lower[m] - lower[x] < scaled
        <3> DEFINE base == Fixed(s, l, L, x) - Fixed(s, l, L, m)
                   weight == Weight(L)
        <3>1. /\ base \in Int /\ weight \in Nat
              /\ total[x] - total[m] = base * C + weight * (c[m] - c[x])
              /\ lower[x] - lower[m] = base * G + weight * (g[m] - g[x])
            <4>1. /\ x \in Model /\ C \in Nat /\ G \in Nat /\ L \in Nat
                  /\ c[m] \in Nat /\ c[x] \in Nat /\ g[m] \in Nat /\ g[x] \in Nat
                BY <2>3, <2>5, <2>8
            <4> HIDE DEF total, lower
            <4>2. /\ request \in Request /\ s \in [Model -> 1 .. 99] /\ l \in [Model -> Nat]
                  /\ c \in [Model -> Nat] /\ g \in [Model -> Nat]
                BY <2>5
            <4> DEFINE u == Fixed(s, l, L, x)
                       v == Fixed(s, l, L, m)
            <4>3. /\ Splits(s, c, l, C, L, x) /\ Splits(s, c, l, C, L, m)
                  /\ Splits(s, g, l, G, L, x) /\ Splits(s, g, l, G, L, m)
                BY <4>1, <4>2, TotalSplits
            <4>4. /\ u \in Int /\ v \in Int /\ weight \in Nat
                  /\ total[x] = Combined(u, C, weight, c[x])
                  /\ total[m] = Combined(v, C, weight, c[m])
                  /\ lower[x] = Combined(u, G, weight, g[x])
                  /\ lower[m] = Combined(v, G, weight, g[m])
                BY <4>3 DEF Splits, total, lower
            <4> HIDE DEF u, v, weight
            <4>5. /\ total[x] - total[m] = (u - v) * C + weight * (c[m] - c[x])
                  /\ lower[x] - lower[m] = (u - v) * G + weight * (g[m] - g[x])
                BY <4>1, <4>4 DEF Combined
            <4>6. QED
                BY <4>4, <4>5 DEF u, v
        <3> HIDE DEF base, weight
        <3>2. /\ c[m] \in Nat /\ c[x] \in Nat /\ g[m] \in Nat /\ g[x] = c[x]
              /\ total[x] \in Int /\ total[m] \in Int /\ lower[x] \in Int /\ lower[m] \in Int
            BY <2>3, <2>5, <2>6, <2>11
        <3> HIDE DEF total, lower
        <3>3. \/ G = C /\ g[m] <= C
              \/ G = g[m] /\ C <= G
            <4>1. C <= G
                <5>1. CASE C = 1
                    BY <2>8, <5>1
                <5>2. ASSUME NEW y \in E, C = c[y] PROVE C <= G
                    <6>1. c[y] <= g[y] /\ c[y] \in Nat /\ g[y] \in Nat
                        BY <2>3, <2>5, <2>6, <2>7
                    <6>2. g[y] <= G
                        BY <2>8
                    <6>3. QED
                        BY <2>8, <5>2, <6>1, <6>2
                <5>3. QED
                    BY <2>8, <5>1, <5>2
            <4>2. G = C \/ G = g[m]
                <5>1. CASE G = 1
                    BY <2>8, <4>1, <5>1
                <5>2. ASSUME NEW y \in E, G = g[y], y # m PROVE G = C
                    <6>1. g[y] = c[y] /\ c[y] <= C
                        BY <2>3, <2>6, <2>8, <5>2
                    <6>2. QED
                        BY <2>8, <4>1, <5>2, <6>1
                <5>3. QED
                    BY <2>8, <5>1, <5>2
            <4>3. g[m] <= G
                BY <2>3, <2>8
            <4>4. QED
                BY <4>1, <4>2, <4>3
        <3>4. (c[m] - c[x]) * G <= (g[m] - g[x]) * C
            <4>1. c[m] <= C /\ c[x] <= C
                BY <2>3, <2>8
            <4>2. QED
                BY <2>7, <2>8, <3>2, <3>3, <4>1, Ratio
        <3> DEFINE first == total[x] - total[m]
                   second == lower[x] - lower[m]
                   margin == 100 * Threshold * L
        <3>5. margin \in Int /\ margin * C = threshold /\ margin * G = scaled
            BY <2>8, <2>10
        <3>6. c[m] - c[x] \in Int /\ g[m] - g[x] \in Int
            BY <3>2
        <3> HIDE DEF margin, threshold, scaled
        <3>7. /\ first >= 0 => second >= 0
              /\ first > 0 => second > 0
              /\ first >= margin * C => second >= margin * G
              /\ -first < margin * C => -second < margin * G
            <4> HIDE DEF first, second
            <4>1. first = base * C + weight * (c[m] - c[x])
                  /\ second = base * G + weight * (g[m] - g[x])
                BY <3>1 DEF first, second
            <4> DEFINE u == c[m] - c[x]
                       v == g[m] - g[x]
            <4>2. u \in Int /\ v \in Int /\ u * G <= v * C
                  /\ first = base * C + weight * u /\ second = base * G + weight * v
                BY <3>4, <3>6, <4>1
            <4> HIDE DEF u, v
            <4>3. /\ C \in Nat \ {0} /\ G \in Nat \ {0} /\ margin \in Int
                  /\ base \in Int /\ weight \in Nat
                BY <2>8, <3>1, <3>5
            <4>4. QED
                BY <4>2, <4>3, Shift
        <3>8. QED
            BY <2>12, <3>2, <3>5, <3>7
    <2>14. Candidates(o, task) # {} /\ Candidates(d, task) # {}
        BY <2>2, <2>3, SomeCandidate DEF E
    <2>15. Selected(o) = Choice(Entries(E, total, t, e, threshold), task)
           /\ Selected(d) = Choice(Entries(E, lower, t, f, scaled), task)
        BY <2>9, <2>14 DEF Selected, task
    <2> HIDE DEF total, lower, threshold, scaled
    <2>16. Choice(Entries(E, lower, t, f, scaled), task) # m
        BY <2>3, <2>5, <2>6, <2>11, <2>12, <2>13, <2>15, NeverTheChoice
    <2>17. QED
        BY <2>15, <2>16 DEF d
<1>5. QED
    BY <1>3, <1>4

(* What is offered and asked for is always one of the offers and requests.  *)
RoutingTyped == offer \in Offers /\ request \in Request

(* A model that was not selected is not selected because it has become      *)
(* dearer, whatever the models offer, the modes weigh and the client asks   *)
(* for (scoreCandidates, selectCandidate, applySessionHysteresis).          *)
THEOREM RaisedPrice == RoutingSpec => []RaisedPriceNeverWins
<1>1. RoutingInit => RoutingTyped
    BY DEF RoutingInit, RoutingTyped
<1>2. RoutingTyped /\ [RoutingNext]_routingVars => RoutingTyped'
    BY DEF RoutingTyped, RoutingNext, Turn, FallbackTurn, Ask, Disturb, Escalate, routingVars
<1>3. RoutingTyped => RaisedPriceNeverWins
    <2>1. offer \in Offers => offer \in [Model -> ModelOffer]
        BY RoutingAssumption
    <2>2. QED
        BY <2>1, DearerNeverSelected DEF RoutingTyped, RaisedPriceNeverWins
<1>4. QED
    BY <1>1, <1>2, <1>3, PTL DEF RoutingSpec
=============================================================================
