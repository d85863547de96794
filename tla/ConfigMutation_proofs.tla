------------------------ MODULE ConfigMutation_proofs ------------------------
(***************************************************************************)
(* Theorems about ConfigMutation for any commands, jobs and contents: the  *)
(* lock files serve their purpose, the recorded changes form a chain that  *)
(* can be undone, references have their credentials, and the commands      *)
(* implement the undo stack.                                               *)
(***************************************************************************)
EXTENDS ConfigMutation, SequenceTheorems, TLAPS

(* LocksAccounted is inductive with the types of what it speaks of. *)
LockInv ==
    /\ pc \in [Command -> Phase]
    /\ lock \in BOOLEAN
    /\ keyLock \in BOOLEAN
    /\ LocksAccounted

LEMMA LockInit == Init => LockInv
BY DEF Init, LockInv, LocksAccounted, Guards, Phase, Holding, HoldingKeys

(* A step under a lock, or under none, leaves the locks accounted for. *)
LEMMA Inside ==
    ASSUME LockInv, NEW p \in Command, NEW q \in Phase,
           Go(p, q), UNCHANGED locks,
           pc[p] \in Holding <=> q \in Holding,
           pc[p] \in HoldingKeys <=> q \in HoldingKeys
    PROVE  LockInv'
<1>1. pc' \in [Command -> Phase] /\ lock' \in BOOLEAN /\ keyLock' \in BOOLEAN
  BY DEF LockInv, Go, locks
<1>2. \A c \in Command : /\ pc'[c] \in Holding <=> pc[c] \in Holding
                         /\ pc'[c] \in HoldingKeys <=> pc[c] \in HoldingKeys
  BY DEF LockInv, Go
<1> QED
  BY <1>1, <1>2 DEF LockInv, LocksAccounted, Guards, locks

(* The command that creates the lock file is alone under it. *)
LEMMA Taken ==
    ASSUME LockInv, NEW p \in Command, ~lock, Go(p, "read"), lock' = TRUE,
           UNCHANGED <<keyLock, left>>, pc[p] \notin HoldingKeys
    PROVE  LockInv'
<1>1. pc' \in [Command -> Phase] /\ lock' \in BOOLEAN /\ keyLock' \in BOOLEAN
  BY DEF LockInv, Go, Phase
<1>2. pc' = [pc EXCEPT ![p] = "read"] /\ "read" \in Holding /\ "read" \notin HoldingKeys
  BY DEF Go, Holding, HoldingKeys, Phase
<1>3. "config" \notin left /\ \A c \in Command : pc[c] \notin Holding
  BY DEF LockInv, LocksAccounted, Guards
<1>4. Guards(lock, Holding, "config")'
  BY <1>1, <1>2, <1>3 DEF Guards, LockInv
<1>5. Guards(keyLock, HoldingKeys, "keys")'
  BY <1>2 DEF Guards, LockInv, LocksAccounted
<1> QED
  BY <1>1, <1>4, <1>5 DEF LockInv, LocksAccounted

(* The command that removes the lock file was the one under it. *)
LEMMA Released ==
    ASSUME LockInv, NEW p \in Command, pc[p] \in Holding, Go(p, "idle"), lock' = FALSE,
           UNCHANGED <<keyLock, left>>
    PROVE  LockInv'
<1>1. pc' \in [Command -> Phase] /\ lock' \in BOOLEAN /\ keyLock' \in BOOLEAN
  BY DEF LockInv, Go, Phase
<1>2. /\ pc' = [pc EXCEPT ![p] = "idle"]
      /\ "idle" \notin Holding /\ "idle" \notin HoldingKeys /\ pc[p] \notin HoldingKeys
  BY DEF Go, Holding, HoldingKeys, Phase
<1>3. "config" \notin left /\ \A c \in Command : pc[c] \in Holding => c = p
  BY DEF LockInv, LocksAccounted, Guards
<1>4. Guards(lock, Holding, "config")'
  BY <1>1, <1>2, <1>3 DEF Guards, LockInv
<1>5. Guards(keyLock, HoldingKeys, "keys")'
  BY <1>2 DEF Guards, LockInv, LocksAccounted
<1> QED
  BY <1>1, <1>4, <1>5 DEF LockInv, LocksAccounted

(* The same two facts about the lock of the credential store. *)
LEMMA KeysTaken ==
    ASSUME LockInv, NEW p \in Command, ~keyLock, Go(p, "keyRead"), keyLock' = TRUE,
           UNCHANGED <<lock, left>>, pc[p] \notin Holding
    PROVE  LockInv'
<1>1. pc' \in [Command -> Phase] /\ lock' \in BOOLEAN /\ keyLock' \in BOOLEAN
  BY DEF LockInv, Go, Phase
<1>2. pc' = [pc EXCEPT ![p] = "keyRead"] /\ "keyRead" \in HoldingKeys /\ "keyRead" \notin Holding
  BY DEF Go, Holding, HoldingKeys, Phase
<1>3. "keys" \notin left /\ \A c \in Command : pc[c] \notin HoldingKeys
  BY DEF LockInv, LocksAccounted, Guards
<1>4. Guards(keyLock, HoldingKeys, "keys")'
  BY <1>1, <1>2, <1>3 DEF Guards, LockInv
<1>5. Guards(lock, Holding, "config")'
  BY <1>2 DEF Guards, LockInv, LocksAccounted
<1> QED
  BY <1>1, <1>4, <1>5 DEF LockInv, LocksAccounted

LEMMA KeysReleased ==
    ASSUME LockInv, NEW p \in Command, NEW q \in {"idle", "lock"},
           pc[p] \in HoldingKeys, Go(p, q), keyLock' = FALSE, UNCHANGED <<lock, left>>
    PROVE  LockInv'
<1>1. pc' \in [Command -> Phase] /\ lock' \in BOOLEAN /\ keyLock' \in BOOLEAN
  BY DEF LockInv, Go, Phase
<1>2. /\ pc' = [pc EXCEPT ![p] = q]
      /\ q \notin Holding /\ q \notin HoldingKeys /\ pc[p] \notin Holding
  BY DEF Go, Holding, HoldingKeys, Phase
<1>3. "keys" \notin left /\ \A c \in Command : pc[c] \in HoldingKeys => c = p
  BY DEF LockInv, LocksAccounted, Guards
<1>4. Guards(keyLock, HoldingKeys, "keys")'
  BY <1>1, <1>2, <1>3 DEF Guards, LockInv
<1>5. Guards(lock, Holding, "config")'
  BY <1>2 DEF Guards, LockInv, LocksAccounted
<1> QED
  BY <1>1, <1>4, <1>5 DEF LockInv, LocksAccounted

(* A crash leaves the lock files of the command it ends. *)
LEMMA Crashed == ASSUME LockInv, NEW p \in Command, Crash(p) PROVE LockInv'
<1>1. pc' \in [Command -> Phase] /\ lock' \in BOOLEAN /\ keyLock' \in BOOLEAN
  BY DEF LockInv, Crash, End, Go, Phase
<1>2. /\ pc' = [pc EXCEPT ![p] = "idle"]
      /\ "idle" \notin Holding /\ "idle" \notin HoldingKeys
      /\ lock' = lock /\ keyLock' = keyLock
      /\ "config" \in left' <=> "config" \in left \/ pc[p] \in Holding
      /\ "keys" \in left' <=> "keys" \in left \/ pc[p] \in HoldingKeys
  BY DEF Crash, End, Go, Holding, HoldingKeys, Phase
<1>3. Guards(lock, Holding, "config")'
  <2> USE <1>2 DEF LockInv
  <2>1. CASE pc[p] \in Holding
    BY <2>1 DEF LocksAccounted, Guards
  <2>2. CASE pc[p] \notin Holding
    BY <2>2 DEF LocksAccounted, Guards
  <2> QED
    BY <2>1, <2>2
<1>4. Guards(keyLock, HoldingKeys, "keys")'
  <2> USE <1>2 DEF LockInv
  <2>1. CASE pc[p] \in HoldingKeys
    BY <2>1 DEF LocksAccounted, Guards
  <2>2. CASE pc[p] \notin HoldingKeys
    BY <2>2 DEF LocksAccounted, Guards
  <2> QED
    BY <2>1, <2>2
<1> QED
  BY <1>1, <1>3, <1>4 DEF LockInv, LocksAccounted

LEMMA CommandSteps == ASSUME LockInv, NEW p \in Command, Step(p) PROVE LockInv'
<1> USE DEF Holding, HoldingKeys, Phase
<1>1. CASE Begin(p)
  BY <1>1, Taken DEF Begin
<1>2. CASE BeginLogin(p)
  BY <1>2, Inside DEF BeginLogin
<1>3. CASE TakeKeyLock(p)
  <2>1. CASE keyLock
    BY <1>3, <2>1, Inside DEF TakeKeyLock, End, locks
  <2>2. CASE ~keyLock
    BY <1>3, <2>2, KeysTaken DEF TakeKeyLock
  <2> QED
    BY <2>1, <2>2
<1>4. CASE ReadKeys(p)
  BY <1>4, Inside DEF ReadKeys
<1>5. CASE WriteKeys(p)
  BY <1>5, Inside DEF WriteKeys
<1>6. CASE ReleaseKeys(p)
  <2>1. \E q \in {"idle", "lock"} : Go(p, q)
    BY <1>6 DEF ReleaseKeys, End
  <2> QED
    BY <1>6, <2>1, KeysReleased DEF ReleaseKeys
<1>7. CASE TakeLock(p)
  <2>1. CASE lock
    BY <1>7, <2>1, Inside DEF TakeLock, End, locks
  <2>2. CASE ~lock
    BY <1>7, <2>2, Taken DEF TakeLock
  <2> QED
    BY <2>1, <2>2
<1>8. ASSUME Fail(p), pc[p] = "read" \/ pc[p] = "apply" \/ pc[p] = "restore" PROVE LockInv'
  BY <1>8, Inside DEF Fail, Finish
<1>9. CASE ReadInit(p)
  BY <1>9, <1>8, Inside DEF ReadInit, At
<1>10. CASE ReadChange(p)
  <2>1. CASE Fail(p)
    BY <1>10, <2>1, <1>8 DEF ReadChange, At
  <2>2. CASE ~Fail(p)
    <3>1. /\ pc[p] = "read" /\ UNCHANGED locks
          /\ \E q \in {"apply", "drop"} : Go(p, q)
      BY <1>10, <2>2 DEF ReadChange, At
    <3> QED
      BY <3>1, Inside
  <2> QED
    BY <2>1, <2>2
<1>11. CASE Drop(p)
  BY <1>11, Inside DEF Drop
<1>12. CASE Apply(p)
  <2>1. pc[p] = "apply" /\ (Fail(p) \/ (Go(p, "backup") /\ UNCHANGED locks))
    BY <1>12 DEF Apply
  <2> QED
    BY <2>1, <1>8, Inside
<1>13. CASE Backup(p)
  BY <1>13, Inside DEF Backup
<1>14. CASE Record(p)
  BY <1>14, Inside DEF Record
<1>15. CASE Install(p)
  BY <1>15, Inside DEF Install, Finish
<1>16. CASE ReadUndo(p)
  <2>1. /\ pc[p] = "read"
        /\ Fail(p) \/ (UNCHANGED locks /\ \E q \in {"shrink", "restore"} : Go(p, q))
    BY <1>16 DEF ReadUndo, At
  <2> QED
    BY <2>1, <1>8, Inside
<1>17. CASE Restore(p)
  <2>1. pc[p] = "restore" /\ (Fail(p) \/ (Go(p, "shrink") /\ UNCHANGED locks))
    BY <1>17 DEF Restore
  <2> QED
    BY <2>1, <1>8, Inside
<1>18. CASE Shrink(p)
  BY <1>18, Inside DEF Shrink, Finish
<1>19. CASE Release(p)
  BY <1>19, Released DEF Release, End
<1>20. CASE Crash(p)
  BY <1>20, Crashed
<1> QED
  BY <1>1, <1>2, <1>3, <1>4, <1>5, <1>6, <1>7, <1>9, <1>10, <1>11, <1>12, <1>13, <1>14,
     <1>15, <1>16, <1>17, <1>18, <1>19, <1>20 DEF Step

LEMMA LockStep == ASSUME LockInv, [Next]_vars PROVE LockInv'
<1>1. CASE \E p \in Command : Step(p)
  BY <1>1, CommandSteps
<1>2. CASE RemoveLocks
  <2>1. /\ pc' = pc /\ left' = {}
        /\ lock' = (lock /\ "config" \notin left)
        /\ keyLock' = (keyLock /\ "keys" \notin left)
    BY <1>2 DEF RemoveLocks
  <2>2. lock' \in BOOLEAN /\ keyLock' \in BOOLEAN
    BY <2>1
  <2>3. Guards(lock, Holding, "config")'
    BY <2>1 DEF LockInv, LocksAccounted, Guards
  <2>4. Guards(keyLock, HoldingKeys, "keys")'
    BY <2>1 DEF LockInv, LocksAccounted, Guards
  <2> QED
    BY <2>1, <2>2, <2>3, <2>4 DEF LockInv, LocksAccounted
<1>3. CASE UNCHANGED <<locks, pc>>
  BY <1>3 DEF LockInv, LocksAccounted, Guards, locks
<1> QED
  BY <1>1, <1>2, <1>3 DEF Next, Edit, LoseBackup, vars

(* However many commands overlap and wherever they crash: a lock file      *)
(* exists exactly while one command works under it or after a crash left   *)
(* it, and no two commands work on one file at once (withConfigLock,       *)
(* withCredentialLock).                                                    *)
THEOREM LocksKept == Spec => []LocksAccounted
<1>1. Init => LockInv
  BY LockInit
<1>2. LockInv /\ [Next]_vars => LockInv'
  BY LockStep
<1>3. LockInv => LocksAccounted
  BY DEF LockInv
<1> QED
  BY <1>1, <1>2, <1>3, PTL DEF Spec
-----------------------------------------------------------------------------
(* What is known of sequences, contents and jobs. *)

LEMMA FrontOf ==
    ASSUME NEW S, NEW s \in Seq(S), s # <<>>
    PROVE  /\ Front(s) \in Seq(S)
           /\ Len(Front(s)) = Len(s) - 1
           /\ DOMAIN Front(s) = 1 .. Len(s) - 1
           /\ \A i \in 1 .. Len(s) - 1 : Front(s)[i] = s[i]
           /\ Last(s) \in S
<1>1. Len(s) \in Nat /\ Len(s) > 0 /\ \A i \in 1 .. Len(s) : s[i] \in S
  BY EmptySeq, LenProperties, ElementOfSeq
<1>2. \A i \in 1 .. Len(s) - 1 : s[i] \in S
  BY <1>1
<1> DEFINE n == Len(s) - 1
<1>3. n \in Nat /\ \A i \in 1 .. n : s[i] \in S
  BY <1>1, <1>2
<1>4. /\ Front(s) \in Seq(S)
      /\ Len(Front(s)) = n
      /\ \A i \in 1 .. n : Front(s)[i] = s[i]
  <2>1. /\ SubSeq(s, 1, n) \in Seq(S)
        /\ Len(SubSeq(s, 1, n)) = IF 1 <= n THEN n - 1 + 1 ELSE 0
        /\ \A i \in 1 .. n - 1 + 1 : SubSeq(s, 1, n)[i] = s[1 + i - 1]
    BY <1>3, SubSeqProperties
  <2>2. n - 1 + 1 = n /\ \A i \in 1 .. n : 1 + i - 1 = i
    BY <1>3
  <2>3. Len(SubSeq(s, 1, n)) = n
    BY <1>3, <2>1, <2>2
  <2>4. \A i \in 1 .. n : SubSeq(s, 1, n)[i] = s[i]
    BY <2>1, <2>2
  <2> QED
    BY <2>1, <2>3, <2>4 DEF Front
<1>5. DOMAIN Front(s) = 1 .. n
  BY <1>4, LenProperties
<1>6. Last(s) \in S
  BY <1>1 DEF Last
<1> QED
  BY <1>4, <1>5, <1>6

LEMMA AppendOf ==
    ASSUME NEW S, NEW s \in Seq(S), NEW e \in S
    PROVE  /\ Append(s, e) \in Seq(S)
           /\ Append(s, e) # <<>>
           /\ DOMAIN Append(s, e) = 1 .. Len(s) + 1
           /\ Last(Append(s, e)) = e
           /\ \A i \in 1 .. Len(s) : Append(s, e)[i] = s[i]
  BY AppendProperties, LenProperties DEF Last

(* Every change of a well-formed configuration makes one, and refers to no *)
(* credential but those it referred to and those it was given.             *)
LEMMA ChangeOf ==
    ASSUME NEW c \in Content, NEW j \in JobKind, j.kind \in Changes, Allowed(c, j)
    PROVE  /\ Changed(c, j) \in Content
           /\ Changed(c, j).refers \subseteq
                c.refers \cup Given(j) \cup (IF j.kind = "login" THEN {j.provider} ELSE {})
           /\ Given(j) \subseteq Provider
<1>0. Given(j) \subseteq Provider
  BY DEF Given, JobKind
<1>1. PICK P \in SUBSET Provider : c \in ContentOf(P)
  BY DEF Content
<1>2. \A Q \in SUBSET Provider : ContentOf(Q) \subseteq Content
  BY DEF Content
<1>3. c.enabled \in [P -> BOOLEAN] /\ c.refers \subseteq P /\ DOMAIN c.enabled = P
  BY <1>1 DEF ContentOf
<1> DEFINE d == Changed(c, j)
<1>4. CASE j.kind = "set-mode"
  <2>1. j.mode \in Mode
    BY <1>4 DEF JobKind
  <2>2. d = [c EXCEPT !.mode = j.mode, !.tidy = TRUE]
    BY <1>1, <1>4 DEF Changed, Patched, ContentOf
  <2>3. d \in ContentOf(P) /\ d.refers = c.refers
    BY <1>1, <2>1, <2>2 DEF ContentOf
  <2> QED
    BY <1>0, <1>2, <1>4, <2>3
<1>5. CASE j.kind = "use-model"
  <2>1. j.model \in Model
    BY <1>5 DEF JobKind
  <2>2. d = [c EXCEPT !.mode = "fixed", !.model = j.model, !.tidy = TRUE]
    BY <1>1, <1>5 DEF Changed, Patched, ContentOf
  <2>3. d \in ContentOf(P) /\ d.refers = c.refers
    BY <1>1, <2>1, <2>2 DEF ContentOf, Mode
  <2> QED
    BY <1>0, <1>2, <1>5, <2>3
<1>6. CASE j.kind = "set-baseline"
  <2>1. j.model \in Model
    BY <1>6 DEF JobKind
  <2>2. d = [c EXCEPT !.baseline = j.model, !.tidy = TRUE]
    BY <1>1, <1>6 DEF Changed, Patched, ContentOf
  <2>3. d \in ContentOf(P) /\ d.refers = c.refers
    BY <1>1, <2>1, <2>2 DEF ContentOf
  <2> QED
    BY <1>0, <1>2, <1>6, <2>3
<1>7. CASE j.kind = "set-calibration"
  <2>1. j.models \in SUBSET Model
    BY <1>7 DEF JobKind
  <2>2. d = [c EXCEPT !.calibrated = j.models, !.tidy = TRUE]
    BY <1>1, <1>7 DEF Changed, Patched, ContentOf
  <2>3. d \in ContentOf(P) /\ d.refers = c.refers
    BY <1>1, <2>1, <2>2 DEF ContentOf
  <2> QED
    BY <1>0, <1>2, <1>7, <2>3
<1>8. CASE j.kind = "set-enabled"
  <2>1. j.enabled \in BOOLEAN /\ j.provider \in P
    BY <1>3, <1>8 DEF JobKind, Allowed
  <2>2. d = [c EXCEPT !.enabled = [c.enabled EXCEPT ![j.provider] = j.enabled], !.tidy = TRUE]
    BY <1>1, <1>8 DEF Changed, Patched, ContentOf
  <2>3. [c.enabled EXCEPT ![j.provider] = j.enabled] \in [P -> BOOLEAN]
    BY <1>3, <2>1
  <2>4. d \in ContentOf(P) /\ d.refers = c.refers
    BY <1>1, <2>2, <2>3 DEF ContentOf
  <2> QED
    BY <1>0, <1>2, <1>8, <2>4
<1>9. CASE j.kind = "login"
  <2>1. j.provider \in P
    BY <1>3, <1>9 DEF Allowed
  <2>2. d = [c EXCEPT !.refers = c.refers \cup {j.provider}, !.tidy = TRUE]
    BY <1>1, <1>9 DEF Changed, Patched, ContentOf
  <2> DEFINE r == c.refers \cup {j.provider}
  <2>3. r \in SUBSET P
    BY <1>3, <2>1
  <2>4. d = [c EXCEPT !.refers = r, !.tidy = TRUE]
    BY <2>2
  <2> HIDE DEF r
  <2>5. d \in ContentOf(P) /\ d.refers = r
    BY <1>1, <2>3, <2>4 DEF ContentOf
  <2> QED
    BY <1>0, <1>2, <1>9, <2>5 DEF r
<1>10. CASE j.kind = "add-provider"
  <2> DEFINE Q == P \cup {j.provider}
             e == [p \in Q |-> IF p = j.provider THEN j.enabled ELSE c.enabled[p]]
             r == c.refers \cup Given(j)
  <2>1. Q \in SUBSET Provider
    BY <1>10 DEF JobKind
  <2>2. d = [c EXCEPT !.enabled = e, !.refers = r, !.tidy = TRUE]
    BY <1>1, <1>3, <1>10 DEF Changed, Patched, ContentOf
  <2>3. e \in [Q -> BOOLEAN]
    <3>1. j.enabled \in BOOLEAN
      BY <1>10 DEF JobKind
    <3> QED
      BY <1>3, <3>1
  <2>4. r \in SUBSET Q
    BY <1>3 DEF Given
  <2> HIDE DEF r
  <2>5. d \in ContentOf(Q) /\ d.refers = r
    BY <1>1, <2>2, <2>3, <2>4 DEF ContentOf
  <2> QED
    BY <1>0, <1>2, <1>10, <2>1, <2>5 DEF r
<1>11. CASE j.kind = "remove-provider"
  <2> DEFINE Q == P \ {j.provider}
             e == [p \in Q |-> c.enabled[p]]
  <2>1. Q \in SUBSET Provider
    OBVIOUS
  <2>2. d = [c EXCEPT !.enabled = e, !.refers = c.refers \ {j.provider}, !.tidy = TRUE]
    BY <1>1, <1>3, <1>11 DEF Changed, Patched, ContentOf, Only
  <2>3. e \in [Q -> BOOLEAN]
    BY <1>3
  <2>4. d \in ContentOf(Q) /\ d.refers \subseteq c.refers
    BY <1>1, <2>2, <2>3 DEF ContentOf
  <2> QED
    BY <1>0, <1>2, <1>11, <2>1, <2>4
<1> QED
  BY <1>4, <1>5, <1>6, <1>7, <1>8, <1>9, <1>10, <1>11 DEF Changes
-----------------------------------------------------------------------------
(* The inductive invariant. *)

(* The last recorded change ended in, or started from, the configuration.  *)
EndedHere == history # <<>> => Last(history).applied = config

StartedHere == history # <<>> /\ Last(history).previous = config

(* What the next step of a command finds in the files, and holds of them.  *)
Place(p) ==
    LET t == task[p] IN
    /\ pc[p] \in {"keyLock", "keyRead", "keyWrite", "keyRelease", "lock"} =>
         t.job.kind = "login"
    /\ pc[p] = "lock" => t.saved = Missing
    /\ pc[p] = "keyWrite" => t.keys = store
    /\ t.job.kind = "login" /\ pc[p] \notin {"keyLock", "keyRead", "keyWrite"} =>
         t.job.provider \in store

Work(p) ==
    LET t == task[p] IN
    /\ pc[p] = "read" => t.saved = Missing
    /\ pc[p] \in {"drop", "apply"} => t.job.kind \in Changes
    /\ pc[p] \in {"drop", "apply", "backup"} => t.read = config /\ config # Missing
    /\ pc[p] = "record" => t.read = config /\ t.saved = config
    /\ pc[p] \in {"backup", "record", "install"} => t.next # t.read /\ t.next # Missing
    /\ pc[p] \in {"drop", "shrink"} => StartedHere
    /\ pc[p] \in {"apply", "backup", "record"} => EndedHere
    /\ pc[p] = "install" => StartedHere /\ Last(history).applied = t.next
    /\ pc[p] = "restore" =>
         history # <<>> /\ EndedHere /\ Last(history).previous = t.next

(* A content somebody may install refers to no credential that is missing, *)
(* but by a reference that people wrote.                                   *)
Backed(c) == c # Missing => c.refers \subseteq store \cup brought

References ==
    /\ Backed(config)
    /\ \A i \in DOMAIN history : Backed(history[i].previous) /\ Backed(history[i].applied)
    /\ \A p \in Command : Backed(task[p].read) /\ Backed(task[p].next)

IInv ==
    /\ TypeOK
    /\ LocksAccounted
    /\ \A p \in Command : Place(p) /\ Work(p)
    /\ HistoryIsChain
    /\ UndoPossible
    /\ References

LEMMA Facts ==
    ASSUME IInv
    PROVE  /\ LockInv
           /\ NoJob.kind = "none" /\ Idle \in Task /\ Backed(Missing)
           /\ \A j \in Job : j \in JobKind /\ j.kind # "none"
<1>1. \A j \in Job : j \in JobKind /\ j.kind # "none"
  BY ConfigAssumption DEF JobKind
<1> QED
  BY <1>1 DEF IInv, TypeOK, LockInv, NoJob, Idle, Task, Backed

LEMMA InitIInv == Init => IInv
<1> SUFFICES ASSUME Init PROVE IInv
  OBVIOUS
<1>1. TypeOK
  <2>1. Idle \in Task
    BY DEF Idle, Task
  <2>2. history \in Seq(Entry)
    BY DEF Init
  <2>3. config \in Content \cup {Missing} /\ edits \in 0 .. MaxEdits
    BY ConfigAssumption DEF Init
  <2>4. pc \in [Command -> Phase] /\ task \in [Command -> Task]
    BY <2>1 DEF Init, Phase
  <2>5. brought \subseteq Provider
    BY <2>3 DEF Init, Written, Content, ContentOf
  <2> QED
    BY <2>2, <2>3, <2>4, <2>5 DEF Init, TypeOK
<1>2. LocksAccounted
  BY LockInit DEF LockInv
<1>3. \A p \in Command : Place(p) /\ Work(p)
  BY DEF Init, Place, Work, Idle, NoJob, EndedHere, StartedHere
<1>4. HistoryIsChain /\ UndoPossible
  BY DEF Init, HistoryIsChain, UndoPossible
<1>5. References
  <2>1. Backed(config)
    BY DEF Init, Backed, Written
  <2>2. \A p \in Command : task[p].read = Missing /\ task[p].next = Missing
    BY DEF Init, Idle
  <2> QED
    BY <2>1, <2>2 DEF References, Backed, Init
<1> QED
  BY <1>1, <1>2, <1>3, <1>4, <1>5 DEF IInv

(* A step that writes no file keeps the invariant if the command finds what *)
(* its next step expects; people may bring a reference with it.            *)
LEMMA Bringing ==
    ASSUME IInv, LocksAccounted', NEW p \in Command, UNCHANGED <<config, history, store, edits>>,
           lock' \in BOOLEAN, keyLock' \in BOOLEAN, left' \subseteq {"config", "keys"},
           NEW q \in Phase, Go(p, q), NEW t \in Task, task' = [task EXCEPT ![p] = t],
           (Place(p) /\ Work(p))', brought \subseteq brought', brought' \subseteq Provider,
           Backed(t.read)', Backed(t.next)'
    PROVE  IInv'
<1>1. TypeOK'
  BY DEF IInv, TypeOK, Go
<1>2. \A r \in Command : r # p => pc'[r] = pc[r] /\ task'[r] = task[r]
  BY DEF IInv, TypeOK, Go
<1>3. task'[p] = t
  BY DEF IInv, TypeOK
<1>4. ASSUME NEW r \in Command PROVE (Place(r) /\ Work(r))'
  <2>1. CASE r = p
    BY <2>1
  <2>2. CASE r # p
    BY <1>2, <2>2 DEF IInv, Place, Work, StartedHere, EndedHere
  <2> QED
    BY <2>1, <2>2
<1>5. HistoryIsChain' /\ UndoPossible'
  BY DEF IInv, HistoryIsChain, UndoPossible
<1>6. References'
  <2>1. Backed(config') /\ Backed(config)'
    BY DEF IInv, References, Backed
  <2>2. \A i \in DOMAIN history' :
          Backed(history[i].previous)' /\ Backed(history[i].applied)'
    BY DEF IInv, References, Backed
  <2>3. ASSUME NEW r \in Command PROVE Backed(task[r].read)' /\ Backed(task[r].next)'
    <3>1. CASE r = p
      BY <1>3, <3>1 DEF Backed
    <3>2. CASE r # p
      BY <1>2, <3>2 DEF IInv, References, Backed
    <3> QED
      BY <3>1, <3>2
  <2> QED
    BY <2>1, <2>2, <2>3 DEF References
<1> QED
  BY <1>1, <1>4, <1>5, <1>6 DEF IInv

LEMMA Quiet ==
    ASSUME IInv, LocksAccounted', NEW p \in Command, UNCHANGED <<files, edits>>,
           lock' \in BOOLEAN, keyLock' \in BOOLEAN, left' \subseteq {"config", "keys"},
           NEW q \in Phase, Go(p, q), NEW t \in Task, task' = [task EXCEPT ![p] = t],
           (Place(p) /\ Work(p))', Backed(t.read), Backed(t.next)
    PROVE  IInv'
<1>1. UNCHANGED <<config, history, store, brought, edits>> /\ brought \subseteq Provider
  BY DEF IInv, TypeOK, files
<1>2. Backed(t.read)' /\ Backed(t.next)'
  BY <1>1 DEF Backed
<1> QED
  BY <1>1, <1>2, Bringing

(* A step under the lock of the configuration. *)
LEMMA Loud ==
    ASSUME IInv, LocksAccounted', NEW p \in Command, pc[p] \in Holding,
           NEW q \in Phase, Go(p, q), NEW t \in Task, task' = [task EXCEPT ![p] = t],
           UNCHANGED <<store, brought, edits, locks>>,
           config' \in Content \cup {Missing}, history' \in Seq(Entry),
           Place(p)', Work(p)', HistoryIsChain', UndoPossible', Backed(t.read), Backed(t.next),
           Backed(config'),
           \A i \in DOMAIN history' : Backed(history'[i].previous) /\ Backed(history'[i].applied)
    PROVE  IInv'
<1>1. TypeOK'
  BY DEF IInv, TypeOK, Go, locks
<1>2. \A r \in Command : r # p => pc'[r] = pc[r] /\ task'[r] = task[r] /\ pc[r] \notin Holding
  BY DEF IInv, TypeOK, Go, LocksAccounted, Guards
<1>3. task'[p] = t
  BY DEF IInv, TypeOK
<1>4. ASSUME NEW r \in Command PROVE (Place(r) /\ Work(r))'
  <2>1. CASE r = p
    BY <2>1
  <2>2. CASE r # p
    <3>1. Place(r)'
      BY <1>2, <2>2 DEF IInv, Place
    <3>2. Work(r)'
      BY <1>2, <2>2 DEF Work, Holding, HoldingKeys, Phase, IInv, TypeOK
    <3> QED
      BY <3>1, <3>2
  <2> QED
    BY <2>1, <2>2
<1>5. References'
  BY <1>2, <1>3 DEF IInv, References, Backed
<1> QED
  BY <1>1, <1>4, <1>5 DEF IInv

(* Steps that write no file. *)

LEMMA Ended ==
    ASSUME IInv, LocksAccounted', NEW p \in Command, UNCHANGED <<files, edits>>,
           lock' \in BOOLEAN, keyLock' \in BOOLEAN, left' \subseteq {"config", "keys"},
           NEW q \in {"idle", "release"}, Go(p, q), task' = [task EXCEPT ![p] = Idle]
    PROVE  IInv'
<1>1. pc'[p] = q /\ task'[p] = Idle
  BY DEF IInv, TypeOK, Go
<1>2. (Place(p) /\ Work(p))'
  BY <1>1, Facts DEF Place, Work, Idle
<1>3. q \in Phase /\ Idle.read = Missing /\ Idle.next = Missing
  BY DEF Phase, Idle
<1> QED
  BY <1>2, <1>3, Facts, Quiet

LEMMA Locked ==
    ASSUME IInv
    PROVE  lock \in BOOLEAN /\ keyLock \in BOOLEAN /\ left \subseteq {"config", "keys"}
BY DEF IInv, TypeOK

LEMMA BeginKeeps ==
    ASSUME IInv, LocksAccounted', NEW p \in Command, Begin(p), UNCHANGED edits PROVE IInv'
<1>1. PICK j \in Job : j.kind # "login" /\ task' = [task EXCEPT ![p] = [Idle EXCEPT !.job = j]]
  BY DEF Begin
<1> DEFINE t == [Idle EXCEPT !.job = j]
<1>2. t \in Task /\ t.job = j /\ t.read = Missing /\ t.next = Missing /\ t.saved = Missing
  BY DEF Idle, Task
<1>3. pc'[p] = "read" /\ task'[p] = t
  BY <1>1 DEF Begin, Go, IInv, TypeOK
<1> HIDE DEF t
<1>4. (Place(p) /\ Work(p))'
  BY <1>1, <1>2, <1>3 DEF Place, Work
<1> QED
  BY <1>1, <1>2, <1>4, Facts, Locked, Quiet DEF Begin, Phase, t

LEMMA BeginLoginKeeps ==
    ASSUME IInv, LocksAccounted', NEW p \in Command, BeginLogin(p), UNCHANGED edits PROVE IInv'
<1>1. PICK j \in Job :
        /\ j.kind = "login"
        /\ task' = [task EXCEPT ![p] = [Idle EXCEPT !.job = j, !.read = config]]
  BY DEF BeginLogin
<1> DEFINE t == [Idle EXCEPT !.job = j, !.read = config]
<1>2. t \in Task /\ t.job = j /\ t.read = config /\ t.next = Missing /\ t.saved = Missing
  BY DEF Idle, Task, IInv, TypeOK
<1>3. pc'[p] = "keyLock" /\ task'[p] = t
  BY <1>1 DEF BeginLogin, Go, IInv, TypeOK
<1> HIDE DEF t
<1>4. (Place(p) /\ Work(p))'
  BY <1>1, <1>2, <1>3 DEF Place, Work
<1>5. Backed(t.read) /\ Backed(t.next)
  BY <1>2, Facts DEF IInv, References
<1>6. UNCHANGED <<files, locks>> /\ Go(p, "keyLock")
  BY DEF BeginLogin
<1> QED
  BY <1>1, <1>2, <1>4, <1>5, <1>6, Locked, Quiet DEF Phase, t, locks

(* A step that only goes on, with the task as it is or with what it read. *)
LEMMA TakeKeyLockKeeps ==
    ASSUME IInv, LocksAccounted', NEW p \in Command, TakeKeyLock(p), UNCHANGED edits PROVE IInv'
<1>1. CASE keyLock
  BY <1>1, Ended, Locked DEF TakeKeyLock, End
<1>2. CASE ~keyLock
  <2>1. task[p] \in Task /\ task' = [task EXCEPT ![p] = task[p]] /\ pc'[p] = "keyRead"
    BY <1>2 DEF IInv, TypeOK, TakeKeyLock, Go
  <2>2. (Place(p) /\ Work(p))'
    BY <1>2, <2>1 DEF IInv, TypeOK, TakeKeyLock, Place, Work, files
  <2>3. Backed(task[p].read) /\ Backed(task[p].next)
    BY DEF IInv, References
  <2> QED
    BY <1>2, <2>1, <2>2, <2>3, Locked, Quiet DEF TakeKeyLock, Phase
<1> QED
  BY <1>1, <1>2

LEMMA ReadKeysKeeps ==
    ASSUME IInv, LocksAccounted', NEW p \in Command, ReadKeys(p), UNCHANGED edits PROVE IInv'
<1> DEFINE t == [task[p] EXCEPT !.keys = store]
<1>1. /\ t \in Task /\ t.job = task[p].job /\ t.read = task[p].read /\ t.next = task[p].next
      /\ t.saved = task[p].saved /\ t.keys = store
  BY DEF Task, IInv, TypeOK
<1>2. task' = [task EXCEPT ![p] = t] /\ pc'[p] = "keyWrite" /\ task'[p] = t
  BY DEF ReadKeys, Go, IInv, TypeOK
<1> HIDE DEF t
<1>3. (Place(p) /\ Work(p))'
  BY <1>1, <1>2 DEF IInv, ReadKeys, Place, Work, files
<1>4. Backed(t.read) /\ Backed(t.next)
  BY <1>1 DEF IInv, References
<1> QED
  BY <1>1, <1>2, <1>3, <1>4, Locked, Quiet DEF ReadKeys, Phase, locks

LEMMA ReleaseKeysKeeps ==
    ASSUME IInv, LocksAccounted', NEW p \in Command, ReleaseKeys(p), UNCHANGED edits PROVE IInv'
<1>0. /\ UNCHANGED <<files, lock, left>> /\ keyLock' = FALSE /\ pc[p] = "keyRelease"
      /\ keyLock' \in BOOLEAN /\ left' \subseteq {"config", "keys"} /\ lock' \in BOOLEAN
  BY Locked DEF ReleaseKeys
<1>1. CASE End(p)
  BY <1>0, <1>1, Ended DEF End
<1> DEFINE t == [Idle EXCEPT !.job = task[p].job]
<1>2. CASE Go(p, "lock") /\ task' = [task EXCEPT ![p] = t]
  <2>1. /\ t \in Task /\ t.job = task[p].job /\ t.read = Missing /\ t.next = Missing
        /\ t.saved = Missing
    BY DEF Idle, Task, IInv, TypeOK
  <2>2. pc'[p] = "lock" /\ task'[p] = t
    BY <1>2 DEF Go, IInv, TypeOK
  <2>3. task[p].job.kind = "login" /\ task[p].job.provider \in store
    BY <1>0 DEF IInv, Place
  <2> HIDE DEF t
  <2>4. (Place(p) /\ Work(p))'
    BY <1>0, <2>1, <2>2, <2>3 DEF Place, Work, files
  <2> QED
    BY <1>0, <1>2, <2>1, <2>4, Facts, Quiet DEF Phase
<1> QED
  BY <1>1, <1>2 DEF ReleaseKeys

LEMMA TakeLockKeeps ==
    ASSUME IInv, LocksAccounted', NEW p \in Command, TakeLock(p), UNCHANGED edits PROVE IInv'
<1>1. CASE lock
  BY <1>1, Ended, Locked DEF TakeLock, End
<1>2. CASE ~lock
  <2>1. task[p] \in Task /\ task' = [task EXCEPT ![p] = task[p]] /\ pc'[p] = "read"
    BY <1>2 DEF IInv, TypeOK, TakeLock, Go
  <2>2. (Place(p) /\ Work(p))'
    BY <1>2, <2>1 DEF IInv, TypeOK, TakeLock, Place, Work, files
  <2>3. Backed(task[p].read) /\ Backed(task[p].next)
    BY DEF IInv, References
  <2> QED
    BY <1>2, <2>1, <2>2, <2>3, Locked, Quiet DEF TakeLock, Phase
<1> QED
  BY <1>1, <1>2

LEMMA FailKeeps ==
    ASSUME IInv, LocksAccounted', NEW p \in Command, Fail(p), UNCHANGED edits PROVE IInv'
BY Ended, Locked DEF Fail, Finish, locks

(* What a command that plans a change works on. *)
LEMMA PlanOf ==
    ASSUME IInv, NEW p \in Command, NEW c \in Content \cup {Missing},
           NEW d \in Content \cup {Missing}, NEW q \in Phase, Go(p, q), Plan(p, c, d)
    PROVE  \E t \in Task : /\ task' = [task EXCEPT ![p] = t] /\ task'[p] = t /\ pc'[p] = q
                          /\ t.job = task[p].job /\ t.saved = task[p].saved
                          /\ t.read = c /\ t.next = d
<1> DEFINE t == [task[p] EXCEPT !.read = c, !.next = d]
<1>1. task[p] \in Task
  BY DEF IInv, TypeOK
<1>2. t \in Task /\ t.job = task[p].job /\ t.saved = task[p].saved /\ t.read = c /\ t.next = d
  BY <1>1 DEF Task
<1>3. task' = [task EXCEPT ![p] = t]
  BY DEF IInv, TypeOK, Plan
<1>4. task'[p] = t /\ pc'[p] = q
  BY <1>3 DEF IInv, TypeOK, Go
<1> HIDE DEF t
<1> QED
  BY <1>2, <1>3, <1>4

LEMMA ReadInitKeeps ==
    ASSUME IInv, LocksAccounted', NEW p \in Command, ReadInit(p), UNCHANGED edits PROVE IInv'
<1>1. CASE Fail(p)
  BY <1>1, FailKeeps
<1>2. CASE ~Fail(p)
  <2>1. /\ pc[p] = "read" /\ task[p].job.kind = "init" /\ config = Missing /\ history = <<>>
        /\ Go(p, "record") /\ Plan(p, Missing, Default) /\ UNCHANGED <<files, locks>>
    BY <1>2 DEF ReadInit, At
  <2>2. "record" \in Phase /\ Missing \notin Content /\ Default \in Content
    BY ConfigAssumption DEF Phase
  <2>3. PICK t \in Task :
          /\ task' = [task EXCEPT ![p] = t] /\ task'[p] = t /\ pc'[p] = "record"
          /\ t.job = task[p].job /\ t.saved = task[p].saved /\ t.read = Missing /\ t.next = Default
    BY <2>1, <2>2, PlanOf
  <2>4. t.saved = Missing
    BY <2>1, <2>3 DEF IInv, Work
  <2>5. (Place(p) /\ Work(p))'
    BY <2>1, <2>2, <2>3, <2>4 DEF Place, Work, files, EndedHere
  <2>6. Backed(t.next)
    BY <2>2, <2>3, ConfigAssumption DEF Backed
  <2> QED
    BY <2>1, <2>2, <2>3, <2>5, <2>6, Facts, Locked, Quiet DEF locks
<1> QED
  BY <1>1, <1>2

LEMMA ReadChangeKeeps ==
    ASSUME IInv, LocksAccounted', NEW p \in Command, ReadChange(p), UNCHANGED edits PROVE IInv'
<1>1. CASE Fail(p)
  BY <1>1, FailKeeps
<1>2. CASE ~Fail(p)
  <2> DEFINE q == IF history = <<>> \/ Last(history).applied = config THEN "apply" ELSE "drop"
  <2>1. /\ pc[p] = "read" /\ task[p].job.kind \in Changes /\ config # Missing
        /\ history # <<>> => config \in {Last(history).applied, Last(history).previous}
        /\ Go(p, q) /\ Plan(p, config, Missing) /\ UNCHANGED <<files, locks>>
    BY <1>2 DEF ReadChange, At
  <2>2. q \in Phase /\ config \in Content \cup {Missing}
    BY DEF Phase, IInv, TypeOK
  <2>3. PICK t \in Task :
          /\ task' = [task EXCEPT ![p] = t] /\ task'[p] = t /\ pc'[p] = q
          /\ t.job = task[p].job /\ t.saved = task[p].saved /\ t.read = config /\ t.next = Missing
    BY <2>1, <2>2, PlanOf
  <2>4. Place(p)'
    BY <2>1, <2>3 DEF IInv, Place, files
  <2>5. Work(p)'
    BY <2>1, <2>3 DEF Work, files, EndedHere, StartedHere
  <2>6. Backed(t.read) /\ Backed(t.next)
    BY <2>3, Facts DEF IInv, References
  <2> QED
    BY <2>1, <2>2, <2>3, <2>4, <2>5, <2>6, Locked, Quiet DEF locks
<1> QED
  BY <1>1, <1>2

LEMMA ApplyKeeps ==
    ASSUME IInv, LocksAccounted', NEW p \in Command, Apply(p), UNCHANGED edits PROVE IInv'
<1>1. CASE Fail(p)
  BY <1>1, FailKeeps
<1>2. CASE ~Fail(p)
  <2> DEFINE c == task[p].read
             j == task[p].job
             d == Changed(c, j)
  <2>1. /\ pc[p] = "apply" /\ Allowed(c, j) /\ d # c
        /\ Go(p, "backup") /\ Plan(p, c, d) /\ UNCHANGED <<config, history, store, locks>>
        /\ brought' = brought \cup (Given(j) \ store)
    BY <1>2 DEF Apply
  <2>2. j.kind \in Changes /\ c = config /\ config # Missing /\ EndedHere
    BY <2>1 DEF IInv, Work
  <2>3. c \in Content /\ j \in JobKind
    <3>1. task[p] \in Task /\ config \in Content \cup {Missing}
      BY DEF IInv, TypeOK
    <3>2. j \in Job
      BY <2>2, <3>1 DEF Task, NoJob, Changes
    <3> QED
      BY <2>2, <3>1, <3>2, Facts
  <2>4. /\ d \in Content
        /\ d.refers \subseteq
             c.refers \cup Given(j) \cup (IF j.kind = "login" THEN {j.provider} ELSE {})
        /\ Given(j) \subseteq Provider
    BY <2>1, <2>2, <2>3, ChangeOf
  <2>5. d.refers \subseteq store' \cup brought'
    <3>1. c.refers \subseteq store \cup brought
      BY <2>2 DEF IInv, References, Backed
    <3>2. j.kind = "login" => j.provider \in store
      BY <2>1 DEF IInv, Place
    <3> QED
      BY <2>1, <2>4, <3>1, <3>2
  <2>6. d # Missing
    BY <2>4, ConfigAssumption
  <2>7. "backup" \in Phase
    BY DEF Phase
  <2> HIDE DEF c, j, d
  <2>8. PICK t \in Task :
          /\ task' = [task EXCEPT ![p] = t] /\ task'[p] = t /\ pc'[p] = "backup"
          /\ t.job = task[p].job /\ t.saved = task[p].saved /\ t.read = c /\ t.next = d
    BY <2>1, <2>3, <2>4, <2>7, PlanOf
  <2>9. Place(p)'
    BY <2>1, <2>8 DEF IInv, Place
  <2>10. Work(p)'
    BY <2>1, <2>2, <2>6, <2>8 DEF Work, EndedHere
  <2>11. c.refers \subseteq store' \cup brought'
    BY <2>1, <2>2 DEF IInv, References, Backed
  <2>12. brought \subseteq brought' /\ brought' \subseteq Provider
    BY <2>1, <2>4 DEF IInv, TypeOK
  <2>13. UNCHANGED <<config, history, store, edits>> /\ Go(p, "backup")
    BY <2>1
  <2>14. lock' \in BOOLEAN /\ keyLock' \in BOOLEAN /\ left' \subseteq {"config", "keys"}
    BY <2>1, Locked DEF locks
  <2>15. (Place(p) /\ Work(p))'
    BY <2>9, <2>10
  <2>16. PICK u \in Task : u = task'[p] /\ task' = [task EXCEPT ![p] = u] /\ u.read = c /\ u.next = d
    BY <2>8
  <2>17. Backed(u.read)' /\ Backed(u.next)'
    BY <2>5, <2>11, <2>16 DEF Backed
  <2> QED
    BY <2>7, <2>12, <2>13, <2>14, <2>15, <2>16, <2>17, Bringing
<1> QED
  BY <1>1, <1>2

LEMMA BackupKeeps ==
    ASSUME IInv, LocksAccounted', NEW p \in Command, Backup(p), UNCHANGED edits PROVE IInv'
<1> DEFINE t == [task[p] EXCEPT !.saved = task[p].read]
<1>1. task[p] \in Task
  BY DEF IInv, TypeOK
<1>2. /\ t \in Task /\ t.job = task[p].job /\ t.saved = task[p].read /\ t.read = task[p].read
      /\ t.next = task[p].next
  BY <1>1 DEF Task
<1>3. task' = [task EXCEPT ![p] = t] /\ task'[p] = t /\ pc'[p] = "record" /\ pc[p] = "backup"
  BY DEF IInv, TypeOK, Backup, Go
<1> HIDE DEF t
<1>4. Go(p, "record") /\ UNCHANGED <<files, locks>> /\ "record" \in Phase
  BY DEF Backup, Phase
<1>5. Place(p)'
  BY <1>2, <1>3, <1>4 DEF IInv, Place, files
<1>6. Work(p)'
  BY <1>2, <1>3, <1>4 DEF IInv, Work, files, EndedHere
<1>7. Backed(t.read) /\ Backed(t.next)
  BY <1>2 DEF IInv, References
<1> QED
  BY <1>2, <1>3, <1>4, <1>5, <1>6, <1>7, Locked, Quiet DEF locks

LEMMA ReadUndoKeeps ==
    ASSUME IInv, LocksAccounted', NEW p \in Command, ReadUndo(p), UNCHANGED edits PROVE IInv'
<1> DEFINE e == Last(history)
<1>1. \/ Fail(p)
      \/ /\ history # <<>> /\ config = e.previous
         /\ Go(p, "shrink") /\ UNCHANGED <<files, locks, task>>
      \/ /\ history # <<>> /\ config = e.applied
         /\ Go(p, "restore") /\ Plan(p, config, e.previous) /\ UNCHANGED <<files, locks>>
  BY Zenon DEF ReadUndo
<1>2. pc[p] = "read" /\ task[p].job.kind = "undo"
  BY DEF ReadUndo, At
<1>3. CASE Fail(p)
  BY <1>3, FailKeeps
<1>4. CASE /\ history # <<>> /\ config = e.previous
           /\ Go(p, "shrink") /\ UNCHANGED <<files, locks, task>>
  <2>1. task[p] \in Task /\ task' = [task EXCEPT ![p] = task[p]] /\ pc'[p] = "shrink"
    BY <1>4 DEF IInv, TypeOK, Go
  <2>2. (Place(p) /\ Work(p))'
    BY <1>2, <1>4, <2>1 DEF IInv, Place, Work, files, StartedHere
  <2>3. Backed(task[p].read) /\ Backed(task[p].next)
    BY DEF IInv, References
  <2> QED
    BY <1>4, <2>1, <2>2, <2>3, Locked, Quiet DEF Phase, locks
<1>5. CASE /\ history # <<>> /\ config = e.applied
           /\ Go(p, "restore") /\ Plan(p, config, e.previous) /\ UNCHANGED <<files, locks>>
  <2>1. "restore" \in Phase /\ config \in Content \cup {Missing} /\ e \in Entry
    BY <1>5, FrontOf DEF IInv, TypeOK, Phase
  <2>2. e.previous \in Content \cup {Missing}
    BY <2>1 DEF Entry
  <2>3. Backed(config) /\ Backed(e.previous)
    <3>1. Len(history) \in DOMAIN history
      BY <1>5, LenProperties, EmptySeq DEF IInv, TypeOK
    <3> QED
      BY <3>1 DEF IInv, References, Last
  <2>4. PICK t \in Task :
          /\ task' = [task EXCEPT ![p] = t] /\ task'[p] = t /\ pc'[p] = "restore"
          /\ t.job = task[p].job /\ t.saved = task[p].saved /\ t.read = config
          /\ t.next = e.previous
    BY <1>5, <2>1, <2>2, PlanOf
  <2>5. (Place(p) /\ Work(p))'
    BY <1>2, <1>5, <2>4 DEF Place, Work, files, EndedHere
  <2> QED
    BY <1>5, <2>1, <2>3, <2>4, <2>5, Locked, Quiet DEF locks
<1> QED
  BY <1>1, <1>3, <1>4, <1>5

LEMMA EndKeeps ==
    ASSUME IInv, LocksAccounted', NEW p \in Command, Release(p) \/ Crash(p), UNCHANGED edits
    PROVE  IInv'
BY Ended, Locked DEF Release, Crash, End

(* Steps that write a file. *)

(* The record that started from the configuration goes, and what remains    *)
(* ends in the configuration.                                              *)
LEMMA Forgotten ==
    ASSUME IInv, StartedHere, history' = Front(history), config' = config, edits' = edits,
           store' = store, brought' = brought
    PROVE  /\ history' \in Seq(Entry)
           /\ EndedHere'
           /\ HistoryIsChain'
           /\ UndoPossible'
           /\ \A i \in DOMAIN history' :
                Backed(history'[i].previous) /\ Backed(history'[i].applied)
<1> DEFINE n == Len(history)
<1>1. /\ history \in Seq(Entry) /\ history # <<>> /\ n \in Nat \ {0}
      /\ DOMAIN history = 1 .. n
  BY LenProperties, EmptySeq DEF IInv, TypeOK, StartedHere
<1>2. /\ history' \in Seq(Entry) /\ Len(history') = n - 1 /\ DOMAIN history' = 1 .. n - 1
      /\ \A i \in 1 .. n - 1 : history'[i] = history[i]
  BY <1>1, FrontOf
<1>3. EndedHere'
  <2>1. CASE n = 1
    <3>1. Len(history') = 0
      BY <1>2, <2>1
    <3> QED
      BY <1>2, <3>1, EmptySeq DEF EndedHere
  <2>2. CASE n # 1
    <3>1. n \in DOMAIN history \ {1} /\ n - 1 \in 1 .. n - 1
      BY <1>1, <2>2
    <3>2. history[n].previous = history[n - 1].applied
      BY <3>1 DEF IInv, HistoryIsChain
    <3>3. Last(history') = history[n - 1]
      BY <1>2, <3>1 DEF Last
    <3> QED
      BY <3>2, <3>3 DEF StartedHere, EndedHere, Last
  <2> QED
    BY <2>1, <2>2
<1>4. \A i \in DOMAIN history' : i \in DOMAIN history /\ history'[i] = history[i]
  BY <1>1, <1>2
<1>5. \A i \in DOMAIN history' \ {1} : i - 1 \in DOMAIN history'
  BY <1>1, <1>2
<1>6. HistoryIsChain'
  BY <1>4, <1>5 DEF IInv, HistoryIsChain
<1>7. UndoPossible'
  BY <1>3, <1>4 DEF IInv, UndoPossible, EndedHere
<1> QED
  BY <1>2, <1>3, <1>4, <1>6, <1>7 DEF IInv, References, Backed

LEMMA SameTask ==
    ASSUME IInv, NEW p \in Command, NEW q \in Phase, Go(p, q), UNCHANGED task
    PROVE  /\ task[p] \in Task /\ task' = [task EXCEPT ![p] = task[p]]
           /\ pc'[p] = q /\ task'[p] = task[p]
           /\ Backed(task[p].read) /\ Backed(task[p].next) /\ Backed(config)
           /\ config \in Content \cup {Missing}
BY DEF IInv, TypeOK, Go, References

LEMMA FinishTask ==
    ASSUME IInv, NEW p \in Command, Finish(p), UNCHANGED <<store, brought>>
    PROVE  /\ Idle \in Task /\ task' = [task EXCEPT ![p] = Idle] /\ Go(p, "release")
           /\ "release" \in Phase
           /\ Backed(Idle.read) /\ Backed(Idle.next)
           /\ Place(p)' /\ Work(p)'
<1>1. pc'[p] = "release" /\ task'[p] = Idle
  BY DEF IInv, TypeOK, Finish, Go
<1>2. Place(p)' /\ Work(p)'
  BY <1>1, Facts DEF Place, Work, Idle
<1> QED
  BY <1>2, Facts DEF Finish, Phase, Idle

LEMMA DropKeeps ==
    ASSUME IInv, LocksAccounted', NEW p \in Command, Drop(p), UNCHANGED edits PROVE IInv'
<1>1. /\ pc[p] = "drop" /\ history' = Front(history) /\ Go(p, "apply")
      /\ UNCHANGED <<config, store, brought, locks, task>>
  BY DEF Drop
<1>2. /\ StartedHere /\ "apply" \in Phase /\ pc[p] \in Holding /\ config # Missing
      /\ task[p].read = config /\ task[p].job.kind \in Changes
  BY <1>1 DEF IInv, Work, Phase, Holding, HoldingKeys
<1>3. /\ task[p] \in Task /\ task' = [task EXCEPT ![p] = task[p]]
      /\ pc'[p] = "apply" /\ task'[p] = task[p]
      /\ Backed(task[p].read) /\ Backed(task[p].next) /\ Backed(config)
      /\ config \in Content \cup {Missing}
  BY <1>1, <1>2, SameTask
<1>4. /\ history' \in Seq(Entry) /\ EndedHere' /\ HistoryIsChain' /\ UndoPossible'
      /\ \A i \in DOMAIN history' :
           Backed(history'[i].previous) /\ Backed(history'[i].applied)
  BY <1>1, <1>2, Forgotten
<1>5. Place(p)'
  BY <1>1, <1>3 DEF IInv, Place
<1>6. Work(p)'
  BY <1>1, <1>2, <1>3, <1>4 DEF Work
<1> QED
  BY <1>1, <1>2, <1>3, <1>4, <1>5, <1>6, Loud

LEMMA ShrinkKeeps ==
    ASSUME IInv, LocksAccounted', NEW p \in Command, Shrink(p), UNCHANGED edits PROVE IInv'
<1>1. /\ pc[p] = "shrink" /\ history' = Front(history) /\ Finish(p)
      /\ UNCHANGED <<config, store, brought, locks>>
  BY DEF Shrink
<1>2. StartedHere /\ pc[p] \in Holding
  BY <1>1 DEF IInv, Work, Phase, Holding, HoldingKeys
<1>3. /\ history' \in Seq(Entry) /\ EndedHere' /\ HistoryIsChain' /\ UndoPossible'
      /\ \A i \in DOMAIN history' :
           Backed(history'[i].previous) /\ Backed(history'[i].applied)
  BY <1>1, <1>2, Forgotten
<1>4. Backed(config) /\ config \in Content \cup {Missing}
  BY DEF IInv, References, TypeOK
<1> QED
  BY <1>1, <1>2, <1>3, <1>4, FinishTask, Loud

LEMMA RecordKeeps ==
    ASSUME IInv, LocksAccounted', NEW p \in Command, Record(p), UNCHANGED edits PROVE IInv'
<1> DEFINE n == Len(history)
           e == [previous |-> task[p].read, applied |-> task[p].next, backup |-> task[p].saved]
<1>1. /\ pc[p] = "record" /\ history' = Append(history, e) /\ Go(p, "install")
      /\ UNCHANGED <<config, store, brought, locks, task>>
  BY DEF Record
<1>2. /\ EndedHere /\ "install" \in Phase /\ pc[p] \in Holding
      /\ task[p].read = config /\ task[p].saved = config
      /\ task[p].next # config /\ task[p].next # Missing
  BY <1>1 DEF IInv, Work, Phase, Holding, HoldingKeys
<1>3. /\ task[p] \in Task /\ task' = [task EXCEPT ![p] = task[p]]
      /\ pc'[p] = "install" /\ task'[p] = task[p]
      /\ Backed(task[p].read) /\ Backed(task[p].next) /\ Backed(config)
      /\ config \in Content \cup {Missing}
  BY <1>1, <1>2, SameTask
<1>4. /\ e \in Entry /\ e.previous = config /\ e.applied = task[p].next /\ e.backup = config
  BY <1>2, <1>3 DEF Entry, Task
<1> HIDE DEF e
<1>5. history \in Seq(Entry) /\ n \in Nat /\ DOMAIN history = 1 .. n
  BY LenProperties DEF IInv, TypeOK
<1>6. /\ history' \in Seq(Entry) /\ history' # <<>> /\ DOMAIN history' = 1 .. n + 1
      /\ Last(history') = e /\ history'[n + 1] = e
      /\ \A i \in DOMAIN history : history'[i] = history[i]
  BY <1>1, <1>4, <1>5, AppendOf, AppendProperties
<1>7. \A i \in DOMAIN history' : i = n + 1 \/ i \in DOMAIN history
  BY <1>5, <1>6
<1>8. HistoryIsChain'
  <2>1. \A i \in DOMAIN history' : history'[i].previous # history'[i].applied
    BY <1>2, <1>4, <1>6, <1>7 DEF IInv, HistoryIsChain
  <2>2. ASSUME NEW i \in DOMAIN history' \ {1}
        PROVE  history'[i].previous = history'[i - 1].applied
    <3>1. CASE i = n + 1
      <4>1. n \in DOMAIN history /\ history # <<>> /\ i - 1 = n
        BY <1>5, <3>1, EmptySeq
      <4>2. history[n].applied = config
        BY <1>2, <4>1 DEF EndedHere, Last
      <4> QED
        BY <1>4, <1>6, <3>1, <4>1, <4>2
    <3>2. CASE i \in DOMAIN history
      <4>1. i - 1 \in DOMAIN history
        BY <1>5, <3>2
      <4> QED
        BY <1>6, <3>2, <4>1 DEF IInv, HistoryIsChain
    <3> QED
      BY <1>7, <3>1, <3>2
  <2> QED
    BY <2>1, <2>2 DEF HistoryIsChain
<1>9. UndoPossible'
  BY <1>1, <1>4, <1>6, <1>7 DEF IInv, UndoPossible
<1>10. \A i \in DOMAIN history' :
         Backed(history'[i].previous) /\ Backed(history'[i].applied)
  BY <1>3, <1>4, <1>6, <1>7 DEF IInv, References
<1>11. Place(p)'
  BY <1>1, <1>3 DEF IInv, Place
<1>12. Work(p)'
  BY <1>1, <1>2, <1>3, <1>4, <1>6 DEF Work, StartedHere
<1> QED
  BY <1>1, <1>2, <1>3, <1>6, <1>8, <1>9, <1>10, <1>11, <1>12, Loud

LEMMA InstallKeeps ==
    ASSUME IInv, LocksAccounted', NEW p \in Command, Install(p), UNCHANGED edits PROVE IInv'
<1>1. pc[p] = "install" /\ config' = task[p].next /\ Finish(p) /\ UNCHANGED <<history, store, brought, locks>>
  BY DEF Install
<1>2. /\ pc[p] \in Holding /\ history # <<>> /\ Last(history).applied = task[p].next
  BY <1>1 DEF IInv, Work, Phase, Holding, HoldingKeys, StartedHere
<1>3. HistoryIsChain' /\ UndoPossible'
  BY <1>1, <1>2 DEF IInv, HistoryIsChain, UndoPossible
<1>4. config' \in Content \cup {Missing} /\ Backed(config') /\ history' \in Seq(Entry)
  BY <1>1 DEF IInv, TypeOK, Task, References
<1>5. \A i \in DOMAIN history' :
         Backed(history'[i].previous) /\ Backed(history'[i].applied)
  BY <1>1 DEF IInv, References
<1> QED
  BY <1>1, <1>2, <1>3, <1>4, <1>5, FinishTask, Loud

LEMMA RestoreKeeps ==
    ASSUME IInv, LocksAccounted', NEW p \in Command, Restore(p), UNCHANGED edits PROVE IInv'
<1>1. CASE Fail(p)
  BY <1>1, FailKeeps
<1>2. CASE ~Fail(p)
  <2>1. /\ pc[p] = "restore" /\ config' = task[p].next /\ Go(p, "shrink")
        /\ UNCHANGED <<history, store, brought, locks, task>>
    BY <1>2 DEF Restore
  <2>2. /\ pc[p] \in Holding /\ "shrink" \in Phase
        /\ history # <<>> /\ Last(history).previous = task[p].next
    BY <2>1 DEF IInv, Work, Phase, Holding, HoldingKeys
  <2>3. /\ task[p] \in Task /\ task' = [task EXCEPT ![p] = task[p]]
        /\ pc'[p] = "shrink" /\ task'[p] = task[p]
        /\ Backed(task[p].read) /\ Backed(task[p].next)
    BY <2>1, <2>2, SameTask
  <2>4. HistoryIsChain' /\ UndoPossible'
    BY <2>1, <2>2 DEF IInv, HistoryIsChain, UndoPossible
  <2>5. config' \in Content \cup {Missing} /\ Backed(config') /\ history' \in Seq(Entry)
    BY <2>1, <2>3 DEF IInv, TypeOK, Task
  <2>6. \A i \in DOMAIN history' :
           Backed(history'[i].previous) /\ Backed(history'[i].applied)
    BY <2>1 DEF IInv, References
  <2>7. Place(p)'
    BY <2>1, <2>3 DEF IInv, Place
  <2>8. Work(p)'
    BY <2>1, <2>2, <2>3 DEF Work, StartedHere
  <2> QED
    BY <2>1, <2>2, <2>3, <2>4, <2>5, <2>6, <2>7, <2>8, Loud
<1> QED
  BY <1>1, <1>2

(* The credentials a login writes are those of the store, and its own.     *)
LEMMA WriteKeysKeeps ==
    ASSUME IInv, LocksAccounted', NEW p \in Command, WriteKeys(p), UNCHANGED edits PROVE IInv'
<1>1. /\ pc[p] = "keyWrite" /\ store' = task[p].keys \cup {task[p].job.provider}
      /\ brought' = brought \ {task[p].job.provider}
      /\ Go(p, "keyRelease") /\ UNCHANGED <<config, history, locks, task>>
  BY DEF WriteKeys
<1>2. task[p].keys = store /\ task[p].job.kind = "login"
  BY <1>1 DEF IInv, Place
<1>3. task[p].job.provider \in Provider
  <2>1. task[p].job \in Job
    BY <1>2 DEF IInv, TypeOK, Task, NoJob
  <2> QED
    BY <1>2, <2>1, Facts DEF JobKind
<1>4. store \subseteq store' /\ store \cup brought \subseteq store' \cup brought'
      /\ brought' \subseteq Provider /\ task[p].job.provider \in store' /\ store' \subseteq Provider
  BY <1>1, <1>2, <1>3 DEF IInv, TypeOK
<1>5. "keyRelease" \in Phase
  BY DEF Phase
<1>6. TypeOK'
  BY <1>1, <1>4, <1>5 DEF IInv, TypeOK, Go, locks
<1>7. /\ pc'[p] = "keyRelease"
      /\ \A r \in Command : r # p => pc'[r] = pc[r] /\ pc[r] \notin HoldingKeys
  BY <1>1 DEF IInv, TypeOK, Go, LocksAccounted, Guards, HoldingKeys
<1>8. ASSUME NEW r \in Command PROVE (Place(r) /\ Work(r))'
  <2>1. CASE r = p
    BY <1>1, <1>2, <1>4, <1>7, <2>1 DEF Place, Work
  <2>2. CASE r # p
    <3>1. Place(r)'
      BY <1>1, <1>4, <1>7, <2>2 DEF IInv, Place, HoldingKeys
    <3>2. Work(r)'
      BY <1>1, <1>7, <2>2 DEF IInv, Work, EndedHere, StartedHere
    <3> QED
      BY <3>1, <3>2
  <2> QED
    BY <2>1, <2>2
<1>9. HistoryIsChain' /\ UndoPossible'
  BY <1>1 DEF IInv, HistoryIsChain, UndoPossible
<1>10. References'
  BY <1>1, <1>4 DEF IInv, References, Backed
<1> QED
  BY <1>6, <1>8, <1>9, <1>10 DEF IInv

(* Nobody works under the lock while somebody else writes a file, so only  *)
(* the files themselves matter.                                            *)
LEMMA OutsideKeeps ==
    ASSUME IInv, LocksAccounted', Outside, UNCHANGED <<store, locks, pc, task>>,
           brought \subseteq brought', brought' \subseteq Provider,
           config' \in Content \cup {Missing}, Backed(config)', history' \in Seq(Entry),
           HistoryIsChain',
           \A i \in DOMAIN history' : Backed(history'[i].previous) /\ Backed(history'[i].applied)
    PROVE  IInv'
<1>1. edits' \in 0 .. MaxEdits /\ edits' # 0
  BY ConfigAssumption DEF IInv, TypeOK, Outside
<1>2. TypeOK'
  BY <1>1 DEF IInv, TypeOK, locks
<1>3. \A p \in Command : (Place(p) /\ Work(p))'
  BY DEF IInv, TypeOK, Outside, Place, Work, Holding, HoldingKeys, Phase
<1>4. UndoPossible'
  BY <1>1 DEF UndoPossible
<1>5. References'
  BY DEF IInv, References, Backed
<1> QED
  BY <1>2, <1>3, <1>4, <1>5 DEF IInv

LEMMA EditKeeps == ASSUME IInv, LocksAccounted', Edit PROVE IInv'
<1>1. Outside /\ config' \in Edited /\ UNCHANGED <<history, store, locks, pc, task>>
  BY DEF Edit
<1>4. brought' = brought \cup (Written(config') \ store)
  BY DEF Edit
<1>5. brought \subseteq brought' /\ brought' \subseteq Provider
  <2>1. Written(config') \subseteq Provider
    BY <1>1, ConfigAssumption DEF Written, Content, ContentOf
  <2> QED
    BY <1>4, <2>1 DEF IInv, TypeOK
<1>2. config' \in Content \cup {Missing} /\ Backed(config)'
  BY <1>1, <1>4, ConfigAssumption DEF Backed, Written
<1>3. HistoryIsChain' /\ history' \in Seq(Entry)
  BY <1>1 DEF IInv, TypeOK, HistoryIsChain
<1> QED
  BY <1>1, <1>2, <1>3, <1>5, OutsideKeeps DEF IInv, References

LEMMA LoseBackupKeeps == ASSUME IInv, LocksAccounted', LoseBackup PROVE IInv'
<1>1. Outside /\ UNCHANGED <<config, store, brought, locks, pc, task>>
  BY DEF LoseBackup
<1>2. PICK i \in DOMAIN history : history' = [history EXCEPT ![i].backup = Missing]
  BY DEF LoseBackup
<1> DEFINE e == [history[i] EXCEPT !.backup = Missing]
<1>3. history \in Seq(Entry) /\ i \in 1 .. Len(history) /\ history[i] \in Entry
  BY LenProperties, ElementOfSeq DEF IInv, TypeOK
<1>4. e \in Entry /\ e.previous = history[i].previous /\ e.applied = history[i].applied
  BY <1>3 DEF Entry
<1>5. history' = [history EXCEPT ![i] = e]
  BY <1>2
<1> HIDE DEF e
<1>6. /\ history' \in Seq(Entry) /\ DOMAIN history' = DOMAIN history
      /\ \A k \in DOMAIN history : /\ history'[k].previous = history[k].previous
                                  /\ history'[k].applied = history[k].applied
  BY <1>3, <1>4, <1>5, ExceptSeq, LenProperties
<1>7. HistoryIsChain'
  <2>1. \A k \in DOMAIN history \ {1} : k - 1 \in DOMAIN history
    BY <1>3, LenProperties
  <2> QED
    BY <1>6, <2>1 DEF IInv, HistoryIsChain
<1>8. \A k \in DOMAIN history' : Backed(history'[k].previous) /\ Backed(history'[k].applied)
  BY <1>6 DEF IInv, References
<1>9. config' \in Content \cup {Missing} /\ Backed(config)'
  BY <1>1 DEF IInv, TypeOK, References, Backed
<1>10. brought \subseteq brought' /\ brought' \subseteq Provider
  BY <1>1 DEF IInv, TypeOK
<1> QED
  BY <1>1, <1>6, <1>7, <1>8, <1>9, <1>10, OutsideKeeps

LEMMA RemoveLocksKeeps == ASSUME IInv, LocksAccounted', RemoveLocks PROVE IInv'
<1>1. UNCHANGED <<files, pc, task, edits>> /\ left' = {}
      /\ lock' \in BOOLEAN /\ keyLock' \in BOOLEAN
  BY DEF RemoveLocks
<1> QED
  BY <1>1 DEF IInv, TypeOK, Place, Work, EndedHere, StartedHere, HistoryIsChain, UndoPossible,
              References, Backed, files

LEMMA CommandKeeps ==
    ASSUME IInv, LocksAccounted', NEW p \in Command, Step(p), UNCHANGED edits PROVE IInv'
BY BeginKeeps, BeginLoginKeeps, TakeKeyLockKeeps, ReadKeysKeeps, WriteKeysKeeps, ReleaseKeysKeeps,
   TakeLockKeeps, ReadInitKeeps, ReadChangeKeeps, DropKeeps, ApplyKeeps, BackupKeeps, RecordKeeps,
   InstallKeeps, ReadUndoKeeps, RestoreKeeps, ShrinkKeeps, EndKeeps DEF Step

LEMMA Induction == ASSUME IInv, [Next]_vars PROVE IInv'
<1>1. LocksAccounted'
  BY Facts, LockStep DEF LockInv
<1>2. CASE (\E p \in Command : Step(p)) /\ UNCHANGED edits
  BY <1>1, <1>2, CommandKeeps
<1>3. CASE RemoveLocks
  BY <1>1, <1>3, RemoveLocksKeeps
<1>4. CASE Edit
  BY <1>1, <1>4, EditKeeps
<1>5. CASE LoseBackup
  BY <1>1, <1>5, LoseBackupKeeps
<1>6. CASE UNCHANGED vars
  BY <1>6 DEF IInv, TypeOK, LocksAccounted, Guards, Place, Work, EndedHere, StartedHere,
              HistoryIsChain, UndoPossible, References, Backed, vars, files, locks
<1> QED
  BY <1>2, <1>3, <1>4, <1>5, <1>6 DEF Next

(* Every reachable state satisfies the inductive invariant. *)
THEOREM Invariance == Spec => []IInv
<1>1. Init => IInv
  BY InitIInv
<1>2. IInv /\ [Next]_vars => IInv'
  BY Induction
<1> QED
  BY <1>1, <1>2, PTL DEF Spec

(* The files, the locks and the commands are always well formed: what a    *)
(* change makes of a configuration is one (applyMutation).                 *)
THEOREM TypeCorrect == Spec => []TypeOK
<1>1. IInv => TypeOK
  BY DEF IInv
<1> QED
  BY <1>1, Invariance, PTL

(* Whatever crashes and whoever edits: each recorded change starts where   *)
(* the one before it ended (mutateRouterConfig, undoRouterConfigMutation). *)
THEOREM ChainKept == Spec => []HistoryIsChain
<1>1. IInv => HistoryIsChain
  BY DEF IInv
<1> QED
  BY <1>1, Invariance, PTL

(* Nothing but somebody else's act can keep a recorded change from being   *)
(* undone, and no crash can (undoRouterConfigMutation).                    *)
THEOREM UndoKept == Spec => []UndoPossible
<1>1. IInv => UndoPossible
  BY DEF IInv
<1> QED
  BY <1>1, Invariance, PTL

(* Every reference the commands write, or put back, has its credential in  *)
(* the store, but those that people wrote and stored nothing for           *)
(* (setEncryptedCredential, applyMutation, undoRouterConfigMutation).      *)
THEOREM CredentialsKept == Spec => []CredentialsBehindReferences
<1>1. IInv => CredentialsBehindReferences
  BY DEF IInv, References, Backed, CredentialsBehindReferences
<1> QED
  BY <1>1, Invariance, PTL
-----------------------------------------------------------------------------
(* The commands implement the undo stack. *)

(* The contents the recorded changes started from. *)
Before == [i \in DOMAIN history |-> history[i].previous]

BeforeKnown ==
    /\ Before \in Seq(Content \cup {Missing})
    /\ Len(Before) = Len(history) /\ Len(history) \in Nat
    /\ DOMAIN history = 1 .. Len(history) /\ history \in Seq(Entry)
    /\ \A i \in 1 .. Len(history) : Before[i] = history[i].previous
    /\ config \in Content \cup {Missing}
    /\ history = <<>> <=> Len(history) = 0
    /\ history # <<>> => /\ Last(history) = history[Len(history)]
                        /\ Last(history).previous # Last(history).applied

(* The stack ends in the configuration, which is on it once. *)
ContentsKnown ==
    /\ StartedHere => Contents = Before
    /\ ~StartedHere => Contents = Append(Before, config)

LEMMA BeforeOf == IInv => BeforeKnown
<1> SUFFICES ASSUME IInv PROVE BeforeKnown
  OBVIOUS
<1>1. /\ history \in Seq(Entry) /\ Len(history) \in Nat /\ DOMAIN history = 1 .. Len(history)
      /\ config \in Content \cup {Missing}
  BY LenProperties DEF IInv, TypeOK
<1>2. \A i \in 1 .. Len(history) : history[i].previous \in Content \cup {Missing}
  <2> TAKE i \in 1 .. Len(history)
  <2>1. history[i] \in Entry
    BY <1>1, ElementOfSeq
  <2> QED
    BY <2>1 DEF Entry
<1>3. Before \in [1 .. Len(history) -> Content \cup {Missing}]
  BY <1>1, <1>2 DEF Before
<1>4. Before \in Seq(Content \cup {Missing}) /\ Len(Before) = Len(history)
  <2>1. Before \in Seq(Content \cup {Missing})
    BY <1>1, <1>3, SeqDef
  <2>2. DOMAIN Before = 1 .. Len(Before) /\ DOMAIN Before = 1 .. Len(history)
        /\ Len(Before) \in Nat
    BY <1>3, <2>1, LenProperties
  <2>3. \A a, b \in Nat : 1 .. a = 1 .. b => a = b
    <3> SUFFICES ASSUME NEW a \in Nat, NEW b \in Nat, 1 .. a = 1 .. b PROVE a = b
      OBVIOUS
    <3>1. (a > 0 => a \in 1 .. b) /\ (b > 0 => b \in 1 .. a)
      OBVIOUS
    <3> QED
      BY <3>1
  <2> QED
    BY <1>1, <2>1, <2>2, <2>3
<1>5. history = <<>> <=> Len(history) = 0
  BY <1>1, EmptySeq
<1>6. history # <<>> => /\ Last(history) = history[Len(history)]
                      /\ Last(history).previous # Last(history).applied
  BY <1>1, <1>5 DEF Last, IInv, HistoryIsChain
<1> QED
  BY <1>1, <1>3, <1>4, <1>5, <1>6 DEF Before, BeforeKnown

LEMMA ContentsOf == ContentsKnown
BY DEF Contents, Before, StartedHere, ContentsKnown

LEMMA StackOperators == \A s : Stack!Front(s) = Front(s) /\ Stack!Last(s) = Last(s)
BY DEF Stack!Front, Stack!Last, Front, Last

LEMMA SameFiles ==
    ASSUME UNCHANGED <<config, history, edits>>
    PROVE  UNCHANGED Stack!vars
BY DEF Contents, Undrifted, Stack!vars

LEMMA StackInit == ASSUME Init PROVE Stack!Init
<1>1. config \in Content \cup {Missing}
  BY ConfigAssumption DEF Init
<1>2. [i \in DOMAIN <<>> |-> history[i].previous] = <<>>
  OBVIOUS
<1>3. Contents = <<config>>
  BY DEF Init, Contents
<1>4. Undrifted
  BY DEF Init, Undrifted
<1> QED
  BY <1>1, <1>3, <1>4 DEF Init, Stack!Init

(* What one step makes of the stack follows from its files before and after. *)
LEMMA Known ==
    ASSUME IInv, IInv'
    PROVE  BeforeKnown /\ ContentsKnown /\ BeforeKnown' /\ ContentsKnown'
<1>1. (IInv => BeforeKnown)'
  BY BeforeOf, PTL
<1>2. ContentsKnown'
  BY ContentsOf, PTL
<1> QED
  BY <1>1, <1>2, BeforeOf, ContentsOf

(* A record that is taken back leaves the stack as it is. *)
LEMMA ForgottenOnStack ==
    ASSUME IInv, IInv', StartedHere, history' = Front(history),
           UNCHANGED <<config, edits, store, brought>>
    PROVE  UNCHANGED Stack!vars
<1> DEFINE n == Len(history)
           C == Content \cup {Missing}
<1> USE DEF BeforeKnown
<1>1. EndedHere'
  BY Forgotten
<1>2. history # <<>> /\ Last(history).previous = config /\ n \in Nat \ {0} /\ history \in Seq(Entry)
  BY Known DEF StartedHere
<1>3. /\ Len(history') = n - 1
      /\ \A i \in 1 .. n - 1 : history'[i] = history[i]
  BY <1>2, FrontOf
<1>4. ~StartedHere'
  BY <1>1, Known DEF StartedHere, EndedHere
<1>5. Contents = Before /\ Contents' = Append(Before', config)
  BY <1>4, Known DEF ContentsKnown
<1>6. /\ Contents \in Seq(C) /\ Len(Contents) = n
      /\ \A i \in 1 .. n : Contents[i] = history[i].previous
  BY <1>5, Known
<1>7. /\ Before' \in Seq(C) /\ Len(Before') = n - 1 /\ config \in C
      /\ \A i \in 1 .. n - 1 : Before'[i] = history[i].previous
  BY <1>3, Known
<1>8. /\ Contents' \in Seq(C) /\ Len(Contents') = n
      /\ \A i \in 1 .. n : Contents'[i] = history[i].previous
  <2>1. /\ Contents' \in Seq(C) /\ Len(Contents') = n - 1 + 1
        /\ \A i \in 1 .. n - 1 : Contents'[i] = Before'[i]
        /\ Contents'[n - 1 + 1] = config
    BY <1>5, <1>7, AppendProperties
  <2>2. history[n].previous = config /\ n - 1 + 1 = n /\ \A i \in 1 .. n : i = n \/ i \in 1 .. n - 1
    BY <1>2, Known
  <2> QED
    BY <1>7, <2>1, <2>2
<1>9. Contents' = Contents
  BY <1>6, <1>8, SeqEqual
<1>10. Undrifted /\ Undrifted'
  BY <1>1, <1>2 DEF Undrifted, EndedHere
<1> QED
  BY <1>9, <1>10 DEF Stack!vars

(* A record announces its change: the content it starts from is remembered  *)
(* and is still the configuration.                                         *)
LEMMA RecordOnStack ==
    ASSUME IInv, IInv', NEW p \in Command, Record(p), UNCHANGED edits
    PROVE  UNCHANGED Stack!vars
<1> DEFINE n == Len(history)
           C == Content \cup {Missing}
           e == [previous |-> task[p].read, applied |-> task[p].next, backup |-> task[p].saved]
<1> USE DEF BeforeKnown
<1>1. history' = Append(history, e) /\ UNCHANGED <<config, edits>>
  BY DEF Record
<1>2. EndedHere /\ e.previous = config
  BY DEF Record, IInv, Work
<1>3. e \in Entry
  BY DEF Entry, IInv, TypeOK, Task, Work, Record
<1> HIDE DEF e
<1>4. /\ history \in Seq(Entry) /\ n \in Nat /\ Len(history') = n + 1
      /\ Last(history') = e /\ history' # <<>>
      /\ \A i \in 1 .. n : history'[i] = history[i]
      /\ history'[n + 1] = e
  <2>1. history \in Seq(Entry)
    BY Known
  <2> QED
    BY <1>1, <1>3, <2>1, AppendOf, AppendProperties, LenProperties
<1>5. ~StartedHere /\ StartedHere'
  BY <1>1, <1>2, <1>4, Known DEF StartedHere, EndedHere
<1>6. Contents = Append(Before, config) /\ Contents' = Before'
  BY <1>5, Known DEF ContentsKnown
<1>7. /\ Contents' \in Seq(C) /\ Len(Contents') = n + 1
      /\ \A i \in 1 .. n : Contents'[i] = history[i].previous
      /\ Contents'[n + 1] = config
  <2>1. /\ Contents' \in Seq(C) /\ Len(Contents') = n + 1
        /\ \A i \in 1 .. n + 1 : Contents'[i] = history'[i].previous
    BY <1>4, <1>6, Known
  <2> QED
    BY <1>2, <1>4, <2>1
<1>8. /\ Contents \in Seq(C) /\ Len(Contents) = n + 1
      /\ \A i \in 1 .. n : Contents[i] = history[i].previous
      /\ Contents[n + 1] = config
  <2>1. Before \in Seq(C) /\ config \in C /\ Len(Before) = n
    BY Known
  <2>2. /\ Contents \in Seq(C) /\ Len(Contents) = n + 1
        /\ \A i \in 1 .. n : Contents[i] = Before[i]
        /\ Contents[n + 1] = config
    BY <1>6, <2>1, AppendProperties
  <2> QED
    BY <2>2, Known
<1>9. \A i \in 1 .. n + 1 : i = n + 1 \/ i \in 1 .. n
  BY <1>4
<1>10. \A i \in 1 .. n + 1 : Contents[i] = Contents'[i]
  BY <1>7, <1>8, <1>9
<1>11. Contents' = Contents
  BY <1>7, <1>8, <1>10, SeqEqual
<1>12. Undrifted /\ Undrifted'
  BY <1>1, <1>2, <1>4 DEF Undrifted, EndedHere
<1> QED
  BY <1>1, <1>11, <1>12 DEF Stack!vars

(* A configuration that leaves what the last record started from is put on  *)
(* the stack; one that comes back to it takes the last content off.        *)
LEMMA Pushed ==
    ASSUME IInv, IInv', StartedHere, ~StartedHere', history' = history
    PROVE  Stack!Grows
<1> USE DEF BeforeKnown
<1> DEFINE n == Len(history)
           C == Content \cup {Missing}
<1>1. Before' = Before
  BY DEF Before
<1>2. Contents = Before /\ Contents' = Append(Before, config')
  BY <1>1, Known DEF ContentsKnown
<1>3. Before \in Seq(C) /\ config' \in C /\ Len(Before) = n /\ n \in Nat \ {0}
  BY Known DEF StartedHere
<1>4. /\ Contents' \in Seq(C) /\ Contents' # <<>> /\ Len(Contents') = n + 1
      /\ Last(Contents') = config' /\ \A i \in 1 .. n : Contents'[i] = Before[i]
  BY <1>2, <1>3, AppendOf, AppendProperties
<1>5. Front(Contents') = Before
  <2>1. /\ Front(Contents') \in Seq(C) /\ Len(Front(Contents')) = n + 1 - 1
        /\ \A i \in 1 .. n + 1 - 1 : Front(Contents')[i] = Contents'[i]
    BY <1>4, FrontOf
  <2>2. n + 1 - 1 = n
    BY <1>3
  <2> QED
    BY <1>3, <1>4, <2>1, <2>2, SeqEqual
<1>6. Last(Contents) # config'
  <2>1. Last(Contents) = history[n].previous
    BY <1>2, <1>3, Known DEF Last
  <2>2. Last(history).previous = history[n].previous
    BY <1>3, Known
  <2> QED
    BY <2>1, <2>2 DEF StartedHere
<1> QED
  BY <1>2, <1>3, <1>4, <1>5, <1>6, StackOperators DEF Stack!Grows

LEMMA Popped ==
    ASSUME IInv, IInv', ~StartedHere, StartedHere', history' = history
    PROVE  Stack!Shrinks
<1> USE DEF BeforeKnown
<1> DEFINE n == Len(history)
           C == Content \cup {Missing}
<1>1. Before' = Before
  BY DEF Before
<1>2. Contents' = Before /\ Contents = Append(Before, config)
  BY <1>1, Known DEF ContentsKnown
<1>3. Before \in Seq(C) /\ config \in C /\ Len(Before) = n /\ n \in Nat \ {0}
  BY Known DEF StartedHere
<1>4. /\ Contents \in Seq(C) /\ Contents # <<>> /\ Len(Contents) = n + 1
      /\ \A i \in 1 .. n : Contents[i] = Before[i]
  BY <1>2, <1>3, AppendOf, AppendProperties
<1>5. Front(Contents) = Before
  <2>1. /\ Front(Contents) \in Seq(C) /\ Len(Front(Contents)) = n + 1 - 1
        /\ \A i \in 1 .. n + 1 - 1 : Front(Contents)[i] = Contents[i]
    BY <1>4, FrontOf
  <2>2. n + 1 - 1 = n
    BY <1>3
  <2> QED
    BY <1>3, <1>4, <2>1, <2>2, SeqEqual
<1> QED
  BY <1>2, <1>3, <1>4, <1>5, StackOperators DEF Stack!Shrinks

LEMMA InstallOnStack ==
    ASSUME IInv, IInv', NEW p \in Command, Install(p), UNCHANGED edits
    PROVE  Stack!Change
<1>1. /\ StartedHere /\ Last(history).applied = config' /\ history' = history
  BY DEF IInv, Work, Install
<1>2. ~StartedHere'
  BY <1>1, Known DEF BeforeKnown, StartedHere
<1>3. Undrifted /\ Undrifted'
  BY <1>1 DEF StartedHere, Undrifted
<1> QED
  BY <1>1, <1>2, <1>3, Pushed DEF Stack!Change

LEMMA RestoreOnStack ==
    ASSUME IInv, IInv', NEW p \in Command, Restore(p), UNCHANGED edits, ~Fail(p)
    PROVE  Stack!Undo
<1>1. /\ history # <<>> /\ EndedHere /\ Last(history).previous = config' /\ history' = history
  BY DEF IInv, Work, Restore
<1>2. ~StartedHere /\ StartedHere'
  BY <1>1, Known DEF BeforeKnown, StartedHere, EndedHere
<1>3. Undrifted /\ Undrifted'
  BY <1>1 DEF EndedHere, Undrifted
<1> QED
  BY <1>1, <1>2, <1>3, Popped DEF Stack!Undo

LEMMA EditOnStack == ASSUME IInv, IInv', Edit PROVE Stack!Edit
<1> USE DEF BeforeKnown
<1>1. history' = history /\ edits' = edits + 1 /\ config' # config
  BY DEF Edit, Outside
<1>2. Undrifted' \in BOOLEAN
  BY DEF Undrifted
<1>3. CASE ~StartedHere /\ ~StartedHere'
  <2>1. Before' = Before
    BY <1>1 DEF Before
  <2>2. Contents' = Append(Before, config') /\ Contents = Append(Before, config)
    BY <1>3, <2>1, Known DEF ContentsKnown
  <2> DEFINE C == Content \cup {Missing}
             n == Len(history)
  <2>3. Before \in Seq(C) /\ Len(Before) = n /\ n \in Nat
    BY Known
  <2>4. ASSUME NEW c \in C PROVE Front(Append(Before, c)) = Before
    <3> DEFINE s == Append(Before, c)
    <3>1. /\ s \in Seq(C) /\ s # <<>> /\ Len(s) = n + 1
          /\ \A i \in 1 .. n : s[i] = Before[i]
      BY <2>3, AppendProperties
    <3> HIDE DEF s
    <3>2. /\ Front(s) \in Seq(C) /\ Len(Front(s)) = n + 1 - 1
          /\ \A i \in 1 .. n + 1 - 1 : Front(s)[i] = s[i]
      BY <3>1, FrontOf
    <3>3. n + 1 - 1 = n
      BY <2>3
    <3> QED
      BY <2>3, <3>1, <3>2, <3>3, SeqEqual DEF s
  <2>5. config \in C /\ config' \in C
    BY Known
  <2> QED
    BY <1>1, <1>2, <2>2, <2>4, <2>5, StackOperators DEF Stack!Edit
<1>4. CASE StartedHere /\ ~StartedHere'
  BY <1>1, <1>2, <1>4, Pushed DEF Stack!Edit
<1>5. CASE ~StartedHere /\ StartedHere'
  BY <1>1, <1>2, <1>5, Popped DEF Stack!Edit
<1>6. ~(StartedHere /\ StartedHere')
  BY <1>1 DEF StartedHere
<1> QED
  BY <1>3, <1>4, <1>5, <1>6
(* A lost backup changes no content: it only counts as an act from outside. *)
LEMMA LoseBackupOnStack == ASSUME IInv, IInv', LoseBackup PROVE Stack!Edit
<1>1. UNCHANGED config /\ edits' = edits + 1
  BY DEF LoseBackup, Outside
<1>2. PICK i \in DOMAIN history : history' = [history EXCEPT ![i].backup = Missing]
  BY DEF LoseBackup
<1>3. history \in Seq(Entry) /\ i \in 1 .. Len(history) /\ history[i] \in Entry
  BY LenProperties, ElementOfSeq DEF IInv, TypeOK
<1> DEFINE e == [history[i] EXCEPT !.backup = Missing]
<1>4. e \in Entry /\ e.previous = history[i].previous /\ e.applied = history[i].applied
  BY <1>3 DEF Entry
<1>5. history' = [history EXCEPT ![i] = e]
  BY <1>2
<1> HIDE DEF e
<1>6. /\ history' \in Seq(Entry) /\ Len(history') = Len(history)
      /\ DOMAIN history' = DOMAIN history
      /\ \A k \in DOMAIN history : /\ history'[k].previous = history[k].previous
                                  /\ history'[k].applied = history[k].applied
  BY <1>3, <1>4, <1>5, ExceptSeq, LenProperties
<1>7. Before' = Before
  BY <1>6 DEF Before
<1>8. Len(history) \in Nat \ {0} /\ history # <<>> /\ history' # <<>>
  BY <1>3, <1>6, LenProperties, EmptySeq
<1>9. /\ Last(history').previous = Last(history).previous
      /\ Last(history').applied = Last(history).applied
  BY <1>3, <1>6, <1>8, LenProperties DEF Last
<1>10. (StartedHere' <=> StartedHere) /\ Undrifted' \in BOOLEAN
  BY <1>1, <1>8, <1>9 DEF StartedHere, Undrifted
<1>11. Contents' = Contents
  BY <1>1, <1>7, <1>10, Known DEF ContentsKnown
<1> QED
  BY <1>1, <1>10, <1>11 DEF Stack!Edit

(* A step that writes neither the configuration nor its history. *)
LEMMA QuietStep ==
    ASSUME NEW p \in Command, Step(p), UNCHANGED edits,
           ~Drop(p), ~Shrink(p), ~Record(p), ~Install(p), ~(Restore(p) /\ ~Fail(p))
    PROVE  UNCHANGED <<config, history>>
<1> USE DEF files
<1>1. Fail(p) => UNCHANGED <<config, history>>
  BY DEF Fail
<1>2. CASE Begin(p) \/ BeginLogin(p) \/ TakeKeyLock(p) \/ ReadKeys(p) \/ WriteKeys(p)
           \/ ReleaseKeys(p) \/ TakeLock(p)
  BY <1>2 DEF Begin, BeginLogin, TakeKeyLock, ReadKeys, WriteKeys, ReleaseKeys, TakeLock
<1>3. CASE ReadInit(p) \/ ReadChange(p) \/ Apply(p) \/ Backup(p)
  BY <1>1, <1>3 DEF ReadInit, ReadChange, Apply, Backup
<1>4. CASE ReadUndo(p)
  BY <1>1, <1>4 DEF ReadUndo
<1>5. CASE Release(p) \/ Crash(p)
  BY <1>5 DEF Release, Crash
<1>6. CASE Restore(p)
  BY <1>1, <1>6
<1> QED
  BY <1>2, <1>3, <1>4, <1>5, <1>6 DEF Step

LEMMA CommandOnStack ==
    ASSUME IInv, IInv', NEW p \in Command, Step(p), UNCHANGED edits
    PROVE  [Stack!Next]_(Stack!vars)
<1>1. CASE Drop(p) \/ Shrink(p)
  <2>1. StartedHere /\ history' = Front(history) /\ UNCHANGED <<config, edits, store, brought>>
    BY <1>1 DEF Drop, Shrink, IInv, Work
  <2> QED
    BY <2>1, ForgottenOnStack
<1>2. CASE Record(p)
  BY <1>2, RecordOnStack
<1>3. CASE Install(p)
  BY <1>3, InstallOnStack DEF Stack!Next
<1>4. CASE Restore(p) /\ ~Fail(p)
  BY <1>4, RestoreOnStack DEF Stack!Next
<1>5. CASE UNCHANGED <<config, history>>
  BY <1>5, SameFiles
<1> QED
  BY <1>1, <1>2, <1>3, <1>4, <1>5, QuietStep

LEMMA StepOnStack == ASSUME IInv, IInv', [Next]_vars PROVE [Stack!Next]_(Stack!vars)
<1>1. CASE (\E p \in Command : Step(p)) /\ UNCHANGED edits
  BY <1>1, CommandOnStack
<1>2. CASE Edit
  BY <1>2, EditOnStack DEF Stack!Next
<1>3. CASE LoseBackup
  BY <1>3, LoseBackupOnStack DEF Stack!Next
<1>4. CASE RemoveLocks \/ UNCHANGED vars
  BY <1>4, SameFiles DEF RemoveLocks, vars, files
<1> QED
  BY <1>1, <1>2, <1>3, <1>4 DEF Next

(* Wherever a command crashes, a change and an undo happen at once or not  *)
(* at all, and nothing but an edit replaces a content (docs/vartma.md on   *)
(* undo; mutateRouterConfig, undoRouterConfigMutation).                    *)
THEOREM Refinement == Spec => RefinesUndoStack
<1>1. Init => Stack!Init
  BY StackInit
<1>2. IInv /\ IInv' /\ [Next]_vars => [Stack!Next]_(Stack!vars)
  BY StepOnStack
<1> QED
  BY <1>1, <1>2, Invariance, PTL DEF Spec, RefinesUndoStack, Stack!Spec
=============================================================================
