--------------------------- MODULE TaskStore_proofs ---------------------------
(***************************************************************************)
(* Proofs about the task store, for any number of clients, tasks, bundles  *)
(* and verdict puts under way.                                             *)
(***************************************************************************)
EXTENDS TaskStore, TLAPS

\* A client that is busy works on a task.
OnTask == \A c \in Clients : pc[c] # "IDLE" => key[c] \in Keys

TypeInv == TypeOK /\ OnTask

-----------------------------------------------------------------------------
(* Types.                                                                  *)

\* Nothing read, and nothing stored, are values of their types.
LEMMA NothingTyped == Unread \in [V -> Answers] /\ Absent \in Objects /\ Absent \in Answers
BY DEF Unread, NotRead, Absent, Answers, Objects, Bundles

\* Leaving a task keeps the client variables typed, and idle clients may hold
\* no task.
LEMMA LeaveType ==
    ASSUME TypeInv, NEW c \in Clients, Leave(c)
    PROVE  /\ pc' \in [Clients -> ClientSteps]
           /\ key' \in [Clients -> Keys \cup {NoKey}]
           /\ seen' \in [Clients -> [V -> Answers]]
           /\ earlier' \in [Clients -> {"UNKNOWN", "OK", "FAIL", "FLAKY"}]
           /\ bundle' \in [Clients -> Bundles]
           /\ status' \in [Clients -> V]
           /\ outputs' \in [Clients -> Bundles \cup {"stale", "purged", "partial", "cut"}]
           /\ OnTask'
<1>1. Nothing \in Bundles /\ "OK" \in V /\ "IDLE" \in ClientSteps
  BY DEF Bundles, V, ClientSteps
<1> QED BY <1>1, NothingTyped DEF Leave, Goto, TypeInv, TypeOK, OnTask

\* The initial state is typed.
LEMMA InitType == Init => TypeInv
<1>1. Nothing \in Bundles /\ "OK" \in V /\ "IDLE" \in ClientSteps /\ "absent" \in FileStates
  BY DEF Bundles, V, ClientSteps, FileStates
<1> QED BY <1>1, NothingTyped DEF Init, TypeInv, TypeOK, OnTask

\* Every step keeps the state typed.
LEMMA StepType == TypeInv /\ [Next]_vars => TypeInv'
<1> SUFFICES ASSUME TypeInv, [Next]_vars PROVE TypeInv'
  OBVIOUS
<1> USE DEF TypeInv, TypeOK, OnTask
<1>1. CASE UNCHANGED vars  BY <1>1 DEF vars, storage, client
<1>2. CASE CleanObject
  BY <1>2, NothingTyped DEF CleanObject, client, FileStates
<1>3. ASSUME NEW w \in writes, VerdictWrite(w) PROVE TypeInv'
  <2>1. w \in Puts /\ [w EXCEPT !.open = TRUE] \in Puts  BY DEF Puts
  <2>2. <<w.key, w.verdict>> \in Keys \X V  BY <2>1 DEF Puts
  <2>3. /\ [state |-> "empty", blob |-> Nothing] \in Objects
        /\ [state |-> "whole", blob |-> w.blob] \in Objects
    BY <2>1 DEF Puts, Objects, Bundles
  <2>4. verdictOf' \in [Keys \X V -> Objects]  BY <1>3, <2>2, <2>3 DEF VerdictWrite
  <2> QED BY <1>3, <2>1, <2>4 DEF VerdictWrite, client
<1>4. ASSUME NEW c \in Clients, CheckVerdict(c) PROVE TypeInv'
  BY <1>4 DEF CheckVerdict, storage, Goto, ClientSteps
<1>5. ASSUME NEW c \in Clients, VerdictChecked(c) PROVE TypeInv'
  BY <1>5, NothingTyped DEF VerdictChecked, storage, Goto, VerdictRead, ClientSteps
<1>6. ASSUME NEW c \in Clients, VerdictRechecked(c) PROVE TypeInv'
  <2>1. "OK" \in V /\ "FAIL" \in V /\ Nothing \in Bundles  BY DEF V, Bundles
  <2>2. seen[c]["OK"].blob \in Bundles /\ seen[c]["FAIL"].blob \in Bundles
    BY <2>1 DEF Answers
  <2>3. BlobRead(c) \in Bundles  BY <2>1, <2>2 DEF BlobRead
  <2> QED BY <1>6, <2>3, NothingTyped DEF VerdictRechecked, storage, Goto, ClientSteps
<1>7. ASSUME NEW c \in Clients, NEW v \in V, VerdictExists(c, v) PROVE TypeInv'
  <2>1. PICK answer \in {"present", "absent"} : seen' = [seen EXCEPT ![c][v].state = answer]
    BY <1>7 DEF VerdictExists
  <2>2. [seen[c][v] EXCEPT !.state = answer] \in Answers
    <3>1. seen[c][v] \in Answers  OBVIOUS
    <3> QED BY <2>1, <3>1 DEF Answers
  <2>3. [seen[c] EXCEPT ![v] = [seen[c][v] EXCEPT !.state = answer]] \in [V -> Answers]
    BY <2>2
  <2>4. seen' \in [Clients -> [V -> Answers]]  BY <2>1, <2>3
  <2> QED BY <1>7, <2>4 DEF VerdictExists, storage
<1>8. ASSUME NEW c \in Clients, NEW v \in V, GetVerdictObject(c, v) PROVE TypeInv'
  <2>1. <<key[c], v>> \in Keys \X V
    BY <1>8 DEF GetVerdictObject, Reading
  <2>2. verdictOf[<<key[c], v>>].state = "whole" => verdictOf[<<key[c], v>>] \in Answers
    BY <2>1 DEF Objects, Answers
  <2> QED BY <1>8, <2>2, NothingTyped DEF GetVerdictObject, storage
<1>9. ASSUME NEW c \in Clients, GetBlob(c) PROVE TypeInv'
  BY <1>9 DEF GetBlob, storage, Goto, AfterRestore, ClientSteps
<1>10. ASSUME NEW c \in Clients, GetCas(c) PROVE TypeInv'
  BY <1>10 DEF GetCas, storage, Goto, AfterRestore, ClientSteps
<1>11. ASSUME NEW c \in Clients, Run(c) PROVE TypeInv'
  <2>1. PICK o \in Outcomes :
          /\ status' = [status EXCEPT ![c] = o[2]]
          /\ bundle' = [bundle EXCEPT ![c] = o[3]]
          /\ outputs' = [outputs EXCEPT ![c] = o[3]]
          /\ produced' = produced \cup {o}
          /\ Goto(c, IF o[3] = Nothing THEN "PUT_VERDICT"
                     ELSE IF o[3] \in WithPublic THEN "PUT_CAS" ELSE "BLOB_EXISTS")
    BY <1>11 DEF Run
  <2>2. o[2] \in V /\ o[3] \in Bundles  BY OutcomesAssumption DEF V, Bundles
  <2> QED BY <1>11, <2>1, <2>2 DEF Run, storage, Goto, ClientSteps
<1>12. ASSUME NEW c \in Clients, PutCas(c) PROVE TypeInv'
  <2>1. cas' \in [WithPublic -> FileStates]
    BY <1>12 DEF PutCas, FillSome, FillAll, FileStates
  <2>2. pc' \in [Clients -> ClientSteps] /\ OnTask'
    BY <1>12 DEF PutCas, Goto, ClientSteps
  <2> QED BY <1>12, <2>1, <2>2 DEF PutCas
<1>13. ASSUME NEW c \in Clients, BlobExists(c) PROVE TypeInv'
  BY <1>13 DEF BlobExists, storage, Goto, ClientSteps
<1>14. ASSUME NEW c \in Clients, PutBlob(c) PROVE TypeInv'
  <2>1. blob' \in [Contents -> FileStates]
    BY <1>14 DEF PutBlob, FillSome, FillAll, FileStates
  <2>2. pc' \in [Clients -> ClientSteps] /\ OnTask'
    BY <1>14 DEF PutBlob, Goto, ClientSteps
  <2> QED BY <1>14, <2>1, <2>2 DEF PutBlob
<1>15. ASSUME NEW c \in Clients, PutVerdict(c) PROVE TypeInv'
  <2>1. [client |-> c, key |-> key[c], verdict |-> status[c], blob |-> bundle[c],
         open |-> FALSE] \in Puts
    BY <1>15 DEF PutVerdict, Puts
  <2> QED BY <1>15, <2>1, LeaveType DEF PutVerdict, storage
<1>16. ASSUME NEW c \in Clients, RequestFails(c) PROVE TypeInv'
  BY <1>16, LeaveType DEF RequestFails, storage
<1>17. ASSUME NEW c \in Clients, Finish(c) PROVE TypeInv'
  BY <1>17, LeaveType DEF Finish, storage
<1>18. ASSUME NEW c \in Clients, Killed(c) PROVE TypeInv'
  BY <1>18, LeaveType DEF Killed, storage
<1> QED
  BY <1>1, <1>2, <1>3, <1>4, <1>5, <1>6, <1>7, <1>8, <1>9, <1>10, <1>11, <1>12,
     <1>13, <1>14, <1>15, <1>16, <1>17, <1>18 DEF Next

\* The state keeps its type, on every storage.
THEOREM TypeCorrect == Spec => []TypeOK
<1>1. Spec => []TypeInv  BY InitType, StepType, PTL DEF Spec
<1>2. TypeInv => TypeOK  BY DEF TypeInv
<1> QED BY <1>1, <1>2, PTL
-----------------------------------------------------------------------------
(* Where verdicts and outputs come from, on every storage.                 *)

Earned(k, v, b) == <<k, v, b>> \in produced

\* Verdicts that are stored or under way were earned by an execution.
StorageOrigins ==
    /\ \A k \in Keys, v \in V :
        verdictOf[<<k, v>>].state = "whole" => Earned(k, v, verdictOf[<<k, v>>].blob)
    /\ \A w \in writes : Earned(w.key, w.verdict, w.blob)

\* What a client read, records or restores was earned; its output locations are
\* not touched before the bundle is there.
ClientOrigins(c) ==
    /\ pc[c] \in {"PUT_CAS", "FILL_CAS", "BLOB_EXISTS", "PUT_BLOB", "FILL_BLOB", "PUT_VERDICT"}
        => Earned(key[c], status[c], bundle[c])
    /\ \A v \in V : seen[c][v].state = "whole" => Earned(key[c], v, seen[c][v].blob)
    /\ pc[c] \notin {"CHECK", "RESTORE"} => seen[c] = Unread
    /\ pc[c] \in {"GET_BLOB", "GET_CAS"}
        => bundle[c] = Nothing \/ \E v \in V : Earned(key[c], v, bundle[c])
    /\ pc[c] \in {"IDLE", "CHECK", "RESTORE", "GET_BLOB"} => outputs[c] = "stale"
    /\ (pc[c] \in {"CACHED", "RUN"} /\ outputs[c] \in Contents)
        => \E v \in V : Earned(key[c], v, outputs[c])

Origins == StorageOrigins /\ \A c \in Clients : ClientOrigins(c)

\* The step leaves client d alone.
Same(d) ==
    /\ pc'[d] = pc[d] /\ key'[d] = key[d] /\ seen'[d] = seen[d]
    /\ earlier'[d] = earlier[d] /\ bundle'[d] = bundle[d]
    /\ status'[d] = status[d] /\ outputs'[d] = outputs[d]

\* What other clients read, record or restore stays earned while client c takes
\* a step that forgets no execution.
LEMMA OthersKeepOrigins ==
    ASSUME Origins, NEW c \in Clients, ClientOrigins(c)',
           \A d \in Clients \ {c} : Same(d), produced \subseteq produced'
    PROVE  (\A d \in Clients : ClientOrigins(d))'
<1>1. ASSUME NEW d \in Clients PROVE ClientOrigins(d)'
  <2>1. CASE d = c  BY <2>1
  <2>2. CASE d # c
    <3>1. Same(d) /\ ClientOrigins(d)  BY <2>2 DEF Origins
    <3> QED BY <3>1 DEF Same, ClientOrigins, Earned
  <2> QED BY <2>1, <2>2
<1> QED BY <1>1

\* The same for a step that leaves stored verdicts and verdict puts alone.
LEMMA StepOfClient ==
    ASSUME Origins, NEW c \in Clients, ClientOrigins(c)',
           \A d \in Clients \ {c} : Same(d),
           produced \subseteq produced', UNCHANGED <<verdictOf, writes>>
    PROVE  Origins'
<1>1. StorageOrigins'  BY DEF Origins, StorageOrigins, Earned
<1>2. (\A d \in Clients : ClientOrigins(d))'  BY OthersKeepOrigins
<1> QED BY <1>1, <1>2 DEF Origins

\* Leaving a task leaves the other clients alone and this one with nothing.
LEMMA LeaveOrigins ==
    ASSUME TypeInv, NEW c \in Clients, Leave(c)
    PROVE  ClientOrigins(c)' /\ \A d \in Clients \ {c} : Same(d)
<1>1. /\ pc'[c] = "IDLE" /\ seen'[c] = Unread /\ outputs'[c] = "stale"
      /\ \A d \in Clients \ {c} : Same(d)
  BY DEF Leave, Goto, Same, TypeInv, TypeOK
<1>2. \A v \in V : Unread[v].state # "whole"  BY DEF Unread, NotRead
<1> QED BY <1>1, <1>2 DEF ClientOrigins

\* A verdict put leaves every verdict object as it was, empty or with its verdict.
LEMMA PutEffect ==
    ASSUME TypeInv, NEW w \in writes, VerdictWrite(w), NEW k \in Keys, NEW v \in V
    PROVE  \/ verdictOf'[<<k, v>>] = verdictOf[<<k, v>>]
           \/ InPlace /\ verdictOf'[<<k, v>>] = [state |-> "empty", blob |-> Nothing]
           \/ /\ <<k, v>> = <<w.key, w.verdict>>
              /\ verdictOf'[<<k, v>>] = [state |-> "whole", blob |-> w.blob]
<1> DEFINE at == <<w.key, w.verdict>>
           kv == <<k, v>>
<1>1. verdictOf \in [Keys \X V -> Objects]  BY DEF TypeInv, TypeOK
<1>2. kv \in Keys \X V  OBVIOUS
<1>3. \E object \in {[state |-> "empty", blob |-> Nothing], verdictOf[at],
                     [state |-> "whole", blob |-> w.blob]} :
        /\ verdictOf' = [verdictOf EXCEPT ![at] = object] \/ verdictOf' = verdictOf
        /\ object = [state |-> "empty", blob |-> Nothing] => InPlace \/ object = verdictOf[at]
  <2>1. [state |-> "whole", blob |-> w.blob] # [state |-> "empty", blob |-> Nothing]
    <3>1. [state |-> "whole", blob |-> w.blob].state = "whole"  OBVIOUS
    <3>2. [state |-> "empty", blob |-> Nothing].state = "empty"  OBVIOUS
    <3> QED BY <3>1, <3>2
  <2> QED BY <2>1 DEF VerdictWrite
<1> HIDE DEF at, kv
<1>4. \/ verdictOf'[kv] = verdictOf[kv]
      \/ InPlace /\ verdictOf'[kv] = [state |-> "empty", blob |-> Nothing]
      \/ kv = at /\ verdictOf'[kv] = [state |-> "whole", blob |-> w.blob]
  BY <1>1, <1>2, <1>3
<1> QED BY <1>4 DEF at, kv

\* Initially nothing is stored.
LEMMA InitOrigins == Init => Origins
<1> SUFFICES ASSUME Init PROVE Origins
  OBVIOUS
<1>1. StorageOrigins  BY DEF Init, StorageOrigins, Absent
<1>2. \A c \in Clients : ClientOrigins(c)  BY DEF Init, ClientOrigins, Unread, NotRead
<1> QED BY <1>1, <1>2 DEF Origins

\* Every step keeps the origins.
LEMMA StepOrigins == TypeInv /\ Origins /\ [Next]_vars => Origins'
<1> SUFFICES ASSUME TypeInv, Origins, [Next]_vars PROVE Origins'
  OBVIOUS
<1> USE DEF TypeInv, TypeOK, OnTask
<1>0. \A c \in Clients : ClientOrigins(c)  BY DEF Origins
<1>1. CASE UNCHANGED vars
  BY <1>1 DEF vars, storage, client, Origins, StorageOrigins, ClientOrigins, Earned
<1>2. CASE CleanObject
  <2>1. UNCHANGED <<writes, client, produced>>  BY <1>2 DEF CleanObject
  <2>2. (\A c \in Clients : ClientOrigins(c))'
    BY <1>0, <2>1 DEF client, ClientOrigins, Earned
  <2>3. \A kv \in Keys \X V : verdictOf'[kv] = verdictOf[kv] \/ verdictOf'[kv] = Absent
    BY <1>2 DEF CleanObject
  <2>4. ASSUME NEW k \in Keys, NEW v \in V, verdictOf'[<<k, v>>].state = "whole"
        PROVE  Earned(k, v, verdictOf'[<<k, v>>].blob)
    <3>1. <<k, v>> \in Keys \X V  OBVIOUS
    <3>2. Absent.state # "whole"  BY DEF Absent
    <3>3. verdictOf'[<<k, v>>] = verdictOf[<<k, v>>]  BY <2>3, <2>4, <3>1, <3>2
    <3> QED BY <2>4, <3>3 DEF Origins, StorageOrigins
  <2> QED BY <2>1, <2>2, <2>4 DEF Origins, StorageOrigins, Earned
<1>3. ASSUME NEW w \in writes, VerdictWrite(w) PROVE Origins'
  <2>1. UNCHANGED <<client, produced>>  BY <1>3 DEF VerdictWrite
  <2>2. (\A c \in Clients : ClientOrigins(c))'
    BY <1>0, <2>1 DEF client, ClientOrigins, Earned
  <2>3. w \in Puts /\ Earned(w.key, w.verdict, w.blob)
    BY DEF Origins, StorageOrigins
  <2>4. \A x \in writes' : Earned(x.key, x.verdict, x.blob)
    <3>1. LET y == [w EXCEPT !.open = TRUE] IN
          y.key = w.key /\ y.verdict = w.verdict /\ y.blob = w.blob
      BY <2>3 DEF Puts
    <3>2. \A x \in writes : Earned(x.key, x.verdict, x.blob)
      BY DEF Origins, StorageOrigins
    <3> QED BY <1>3, <2>3, <3>1, <3>2 DEF VerdictWrite
  <2>5. ASSUME NEW k \in Keys, NEW v \in V, verdictOf'[<<k, v>>].state = "whole"
        PROVE  Earned(k, v, verdictOf'[<<k, v>>].blob)
    <3>1. CASE verdictOf'[<<k, v>>] = verdictOf[<<k, v>>]
      BY <2>5, <3>1 DEF Origins, StorageOrigins
    <3>2. CASE /\ <<k, v>> = <<w.key, w.verdict>>
               /\ verdictOf'[<<k, v>>] = [state |-> "whole", blob |-> w.blob]
      BY <2>3, <3>2
    <3>3. \/ verdictOf'[<<k, v>>] = verdictOf[<<k, v>>]
          \/ verdictOf'[<<k, v>>] = [state |-> "empty", blob |-> Nothing]
          \/ /\ <<k, v>> = <<w.key, w.verdict>>
             /\ verdictOf'[<<k, v>>] = [state |-> "whole", blob |-> w.blob]
      BY <1>3, PutEffect
    <3>4. [state |-> "empty", blob |-> Nothing].state # "whole"  OBVIOUS
    <3> QED BY <2>5, <3>1, <3>2, <3>3, <3>4
  <2> QED BY <2>1, <2>2, <2>4, <2>5 DEF Origins, StorageOrigins, Earned
<1>4. ASSUME NEW c \in Clients, CheckVerdict(c) PROVE Origins'
  <2>1. /\ pc'[c] = "CHECK" /\ seen'[c] = Unread /\ outputs'[c] = "stale"
    BY <1>0, <1>4 DEF CheckVerdict, Goto, ClientOrigins
  <2>2. ClientOrigins(c)'  BY <2>1 DEF ClientOrigins, Unread, NotRead
  <2>3. \A d \in Clients \ {c} : Same(d)  BY <1>4 DEF CheckVerdict, Goto, Same
  <2> QED BY <1>4, <2>2, <2>3, StepOfClient DEF CheckVerdict, storage
<1>5. ASSUME NEW c \in Clients, VerdictChecked(c) PROVE Origins'
  <2>1. /\ seen'[c] = Unread
        /\ \/ pc'[c] = "RUN" /\ outputs'[c] = "purged"
           \/ pc'[c] = "RESTORE" /\ outputs'[c] = "stale"
    BY <1>0, <1>5 DEF VerdictChecked, Goto, ClientOrigins
  <2>2. ClientOrigins(c)'
    BY <2>1, OutcomesAssumption DEF ClientOrigins, Unread, NotRead
  <2>3. \A d \in Clients \ {c} : Same(d)  BY <1>5 DEF VerdictChecked, Goto, Same
  <2> QED BY <1>5, <2>2, <2>3, StepOfClient DEF VerdictChecked, storage
<1>6. ASSUME NEW c \in Clients, VerdictRechecked(c) PROVE Origins'
  <2>1. /\ pc[c] = "RESTORE" /\ pc'[c] = "GET_BLOB" /\ seen'[c] = Unread
        /\ bundle'[c] = BlobRead(c)
        /\ UNCHANGED <<key, outputs, produced>>
    BY <1>6 DEF VerdictRechecked, Goto
  <2>2. BlobRead(c) = Nothing \/ \E v \in V : Earned(key[c], v, BlobRead(c))
    BY <1>0 DEF BlobRead, Has, ClientOrigins, V
  <2>3. ClientOrigins(c)'
    <3>1. \A v \in V : Unread[v].state # "whole"  BY DEF Unread, NotRead
    <3>2. outputs[c] = "stale"  BY <1>0, <2>1 DEF ClientOrigins
    <3> QED BY <2>1, <2>2, <3>1, <3>2 DEF ClientOrigins, Earned
  <2>4. \A d \in Clients \ {c} : Same(d)  BY <1>6 DEF VerdictRechecked, Goto, Same
  <2> QED BY <1>6, <2>3, <2>4, StepOfClient DEF VerdictRechecked, storage
<1>7. ASSUME NEW c \in Clients, NEW v \in V, VerdictExists(c, v) PROVE Origins'
  <2>1. PICK answer \in {"present", "absent"} : seen' = [seen EXCEPT ![c][v].state = answer]
    BY <1>7 DEF VerdictExists
  <2>2. /\ seen'[c][v].state # "whole"
        /\ \A u \in V \ {v} : seen'[c][u] = seen[c][u]
    <3>1. seen[c] \in [V -> Answers] /\ seen[c][v] \in Answers  OBVIOUS
    <3>2. seen'[c] = [seen[c] EXCEPT ![v] = [seen[c][v] EXCEPT !.state = answer]]
      BY <2>1
    <3> QED BY <2>1, <3>1, <3>2 DEF Answers
  <2>3. /\ pc[c] \in {"CHECK", "RESTORE"}
        /\ UNCHANGED <<storage, writes, pc, key, earlier, bundle, status, outputs, produced>>
    BY <1>7 DEF VerdictExists, Reading
  <2>4. ClientOrigins(c)'  BY <1>0, <2>2, <2>3 DEF ClientOrigins, Earned
  <2>5. \A d \in Clients \ {c} : Same(d)  BY <2>1, <2>3 DEF Same
  <2> QED BY <2>3, <2>4, <2>5, StepOfClient DEF storage
<1>8. ASSUME NEW c \in Clients, NEW v \in V, GetVerdictObject(c, v) PROVE Origins'
  <2>1. /\ pc[c] \in {"CHECK", "RESTORE"}
        /\ UNCHANGED <<storage, writes, pc, key, earlier, bundle, status, outputs, produced>>
    BY <1>8 DEF GetVerdictObject, Reading
  <2>2. seen'[c][v].state = "whole" => Earned(key[c], v, seen'[c][v].blob)
    <3>1. key[c] \in Keys  BY <2>1
    <3>2. seen'[c][v] = IF verdictOf[<<key[c], v>>].state = "whole"
                        THEN verdictOf[<<key[c], v>>] ELSE Absent
      BY <1>8 DEF GetVerdictObject
    <3> QED BY <3>1, <3>2 DEF Origins, StorageOrigins, Absent
  <2>3. \A u \in V \ {v} : seen'[c][u] = seen[c][u]  BY <1>8 DEF GetVerdictObject
  <2>4. ClientOrigins(c)'  BY <1>0, <2>1, <2>2, <2>3 DEF ClientOrigins, Earned
  <2>5. \A d \in Clients \ {c} : Same(d)  BY <1>8, <2>1 DEF GetVerdictObject, Same
  <2> QED BY <2>1, <2>4, <2>5, StepOfClient DEF storage
<1>9. ASSUME NEW c \in Clients, GetBlob(c) PROVE Origins'
  <2>1. /\ pc[c] = "GET_BLOB"
        /\ UNCHANGED <<storage, writes, key, seen, earlier, bundle, status, produced>>
        /\ \/ pc'[c] \in {"RUN", "CACHED"} /\ outputs'[c] = "stale"
           \/ pc'[c] = "GET_CAS" /\ outputs'[c] = "partial"
           \/ /\ pc'[c] \in {"RUN", "CACHED"} /\ outputs'[c] = bundle[c]
              /\ bundle[c] # Nothing
    BY <1>0, <1>9 DEF GetBlob, Goto, AfterRestore, ClientOrigins
  <2>2. ClientOrigins(c)'
    BY <1>0, <2>1, OutcomesAssumption DEF ClientOrigins, Earned
  <2>3. \A d \in Clients \ {c} : Same(d)  BY <1>9 DEF GetBlob, Goto, Same
  <2> QED BY <2>1, <2>2, <2>3, StepOfClient DEF storage
<1>10. ASSUME NEW c \in Clients, GetCas(c) PROVE Origins'
  <2>1. /\ pc[c] = "GET_CAS" /\ pc'[c] \in {"RUN", "CACHED"}
        /\ UNCHANGED <<storage, writes, key, seen, earlier, bundle, status, produced>>
        /\ outputs'[c] \in {bundle[c], "cut"}
    BY <1>10 DEF GetCas, Goto, AfterRestore
  <2>2. ClientOrigins(c)'
    BY <1>0, <2>1, OutcomesAssumption DEF ClientOrigins, Earned
  <2>3. \A d \in Clients \ {c} : Same(d)  BY <1>10 DEF GetCas, Goto, Same
  <2> QED BY <2>1, <2>2, <2>3, StepOfClient DEF storage
<1>11. ASSUME NEW c \in Clients, Run(c) PROVE Origins'
  <2>1. PICK o \in Outcomes :
          /\ o[1] = key[c]
          /\ status' = [status EXCEPT ![c] = o[2]]
          /\ bundle' = [bundle EXCEPT ![c] = o[3]]
          /\ outputs' = [outputs EXCEPT ![c] = o[3]]
          /\ produced' = produced \cup {o}
          /\ Goto(c, IF o[3] = Nothing THEN "PUT_VERDICT"
                     ELSE IF o[3] \in WithPublic THEN "PUT_CAS" ELSE "BLOB_EXISTS")
    BY <1>11 DEF Run
  <2>2. o = <<o[1], o[2], o[3]>>  BY OutcomesAssumption
  <2>3. /\ pc[c] = "RUN" /\ pc'[c] \in {"PUT_VERDICT", "PUT_CAS", "BLOB_EXISTS"}
        /\ UNCHANGED <<storage, writes, key, seen, earlier>>
    BY <1>11, <2>1 DEF Run, Goto
  <2>4. Earned(key[c], status[c], bundle[c])'  BY <2>1, <2>2, <2>3 DEF Earned
  <2>5. seen'[c] = Unread  BY <1>0, <2>3 DEF ClientOrigins
  <2>6. ClientOrigins(c)'  BY <2>3, <2>4, <2>5 DEF ClientOrigins, Unread, NotRead
  <2>7. \A d \in Clients \ {c} : Same(d)  BY <2>1, <2>3 DEF Goto, Same
  <2>8. produced \subseteq produced'  BY <2>1
  <2> QED BY <2>3, <2>6, <2>7, <2>8, StepOfClient DEF storage
<1>12. ASSUME NEW c \in Clients, PutCas(c) PROVE Origins'
  <2>1. /\ pc[c] \in {"PUT_CAS", "FILL_CAS"}
        /\ pc'[c] \in {"FILL_CAS", "BLOB_EXISTS"}
        /\ UNCHANGED <<verdictOf, writes, key, seen, earlier, bundle, status, outputs, produced>>
    BY <1>12 DEF PutCas, Goto
  <2>2. ClientOrigins(c)'  BY <1>0, <2>1 DEF ClientOrigins, Earned
  <2>3. \A d \in Clients \ {c} : Same(d)  BY <1>12 DEF PutCas, Goto, Same
  <2> QED BY <2>1, <2>2, <2>3, StepOfClient
<1>13. ASSUME NEW c \in Clients, BlobExists(c) PROVE Origins'
  <2>1. /\ pc[c] = "BLOB_EXISTS" /\ pc'[c] \in {"PUT_BLOB", "PUT_VERDICT"}
        /\ UNCHANGED <<storage, writes, key, seen, earlier, bundle, status, outputs, produced>>
    BY <1>13 DEF BlobExists, Goto
  <2>2. ClientOrigins(c)'  BY <1>0, <2>1 DEF ClientOrigins, Earned
  <2>3. \A d \in Clients \ {c} : Same(d)  BY <1>13 DEF BlobExists, Goto, Same
  <2> QED BY <2>1, <2>2, <2>3, StepOfClient DEF storage
<1>14. ASSUME NEW c \in Clients, PutBlob(c) PROVE Origins'
  <2>1. /\ pc[c] \in {"PUT_BLOB", "FILL_BLOB"}
        /\ pc'[c] \in {"FILL_BLOB", "PUT_VERDICT"}
        /\ UNCHANGED <<verdictOf, writes, key, seen, earlier, bundle, status, outputs, produced>>
    BY <1>14 DEF PutBlob, Goto
  <2>2. ClientOrigins(c)'  BY <1>0, <2>1 DEF ClientOrigins, Earned
  <2>3. \A d \in Clients \ {c} : Same(d)  BY <1>14 DEF PutBlob, Goto, Same
  <2> QED BY <2>1, <2>2, <2>3, StepOfClient
<1>15. ASSUME NEW c \in Clients, PutVerdict(c) PROVE Origins'
  <2>1. ClientOrigins(c)' /\ \A d \in Clients \ {c} : Same(d)
    BY <1>15, LeaveOrigins DEF PutVerdict
  <2>2. (\A d \in Clients : ClientOrigins(d))'
    BY <1>15, <2>1, OthersKeepOrigins DEF PutVerdict
  <2>3. Earned(key[c], status[c], bundle[c])
    BY <1>0, <1>15 DEF PutVerdict, ClientOrigins
  <2>4. \A w \in writes' : Earned(w.key, w.verdict, w.blob)
    BY <1>15, <2>3 DEF PutVerdict, Origins, StorageOrigins
  <2>5. UNCHANGED <<verdictOf, produced>>  BY <1>15 DEF PutVerdict, storage
  <2>6. StorageOrigins'  BY <2>4, <2>5 DEF Origins, StorageOrigins, Earned
  <2> QED BY <2>2, <2>6 DEF Origins
<1>16. ASSUME NEW c \in Clients, RequestFails(c) PROVE Origins'
  BY <1>16, LeaveOrigins, StepOfClient DEF RequestFails, storage
<1>17. ASSUME NEW c \in Clients, Finish(c) PROVE Origins'
  BY <1>17, LeaveOrigins, StepOfClient DEF Finish, storage
<1>18. ASSUME NEW c \in Clients, Killed(c) PROVE Origins'
  <2>1. ClientOrigins(c)' /\ \A d \in Clients \ {c} : Same(d)
    BY <1>18, LeaveOrigins DEF Killed
  <2>2. (\A d \in Clients : ClientOrigins(d))'
    BY <1>18, <2>1, OthersKeepOrigins DEF Killed
  <2>3. StorageOrigins'
    BY <1>18 DEF Killed, storage, Origins, StorageOrigins, Earned
  <2> QED BY <2>2, <2>3 DEF Origins
<1> QED
  BY <1>1, <1>2, <1>3, <1>4, <1>5, <1>6, <1>7, <1>8, <1>9, <1>10, <1>11, <1>12,
     <1>13, <1>14, <1>15, <1>16, <1>17, <1>18 DEF Next

\* On every storage, whatever it loses or cuts and whoever is killed, no task is
\* given the complete outputs of another task, fingerprint or of no execution.
THEOREM NoForeignOutputs == Spec => []NeverForeignOutputs
<1>1. Init => TypeInv /\ Origins  BY InitType, InitOrigins
<1>2. TypeInv /\ Origins /\ [Next]_vars => (TypeInv /\ Origins)'
  BY StepType, StepOrigins
<1>3. Origins => NeverForeignOutputs
  BY DEF Origins, ClientOrigins, NeverForeignOutputs, Earned
<1> QED BY <1>1, <1>2, <1>3, PTL DEF Spec
-----------------------------------------------------------------------------
(* A storage that replaces objects at once and loses none (S3, in memory). *)

Stored(b) ==
    /\ b # Nothing => b \in Contents /\ blob[b] = "whole"
    /\ b \in WithPublic => cas[b] = "whole"

\* No object is ever seen half written, and every verdict that is stored or
\* under way has its bundle and public file behind it.
WholeStorage ==
    /\ \A x \in Contents : blob[x] \in {"absent", "whole"}
    /\ \A x \in WithPublic : cas[x] \in {"absent", "whole"}
    /\ \A k \in Keys, v \in V :
        /\ verdictOf[<<k, v>>].state \in {"absent", "whole"}
        /\ verdictOf[<<k, v>>].state = "whole" => Stored(verdictOf[<<k, v>>].blob)
    /\ \A w \in writes : Stored(w.blob)

\* The order of recordTask(): public file, then blob, then verdict.
RecordsInOrder(c) ==
    /\ pc[c] \notin {"FILL_CAS", "FILL_BLOB"}
    /\ pc[c] = "PUT_CAS" => bundle[c] \in WithPublic
    /\ pc[c] \in {"BLOB_EXISTS", "PUT_BLOB"}
        => bundle[c] \in Contents /\ (bundle[c] \in WithPublic => cas[bundle[c]] = "whole")
    /\ pc[c] = "PUT_VERDICT" => Stored(bundle[c])

Backed == WholeStorage /\ \A c \in Clients : RecordsInOrder(c)

\* What is whole stays whole.
Grows ==
    /\ \A x \in Contents : blob[x] = "whole" => blob'[x] = "whole"
    /\ \A x \in WithPublic : cas[x] = "whole" => cas'[x] = "whole"

\* Files never change except by the puts of bundles and public files, which
\* write them whole.
LEMMA FilesGrow ==
    ASSUME ~InPlace, ~Cleaning, TypeInv, Backed, [Next]_vars
    PROVE  /\ Grows
           /\ \A x \in Contents : blob'[x] \in {"absent", "whole"}
           /\ \A x \in WithPublic : cas'[x] \in {"absent", "whole"}
<1> USE DEF TypeInv, TypeOK
<1>0. /\ \A x \in Contents : blob[x] \in {"absent", "whole"}
      /\ \A x \in WithPublic : cas[x] \in {"absent", "whole"}
  BY DEF Backed, WholeStorage
<1>1. CASE UNCHANGED <<blob, cas>>  BY <1>0, <1>1 DEF Grows
<1>2. ASSUME NEW c \in Clients, PutCas(c) PROVE blob' = blob /\ cas' = [cas EXCEPT ![bundle[c]] = "whole"]
  BY <1>2 DEF PutCas, Backed, RecordsInOrder
<1>3. ASSUME NEW c \in Clients, PutBlob(c) PROVE cas' = cas /\ blob' = [blob EXCEPT ![bundle[c]] = "whole"]
  BY <1>3 DEF PutBlob, Backed, RecordsInOrder
<1>4. CASE \E c \in Clients : PutCas(c)  BY <1>0, <1>2, <1>4 DEF Grows
<1>5. CASE \E c \in Clients : PutBlob(c)  BY <1>0, <1>3, <1>5 DEF Grows
<1>6. UNCHANGED <<blob, cas>> \/ (\E c \in Clients : PutCas(c)) \/ \E c \in Clients : PutBlob(c)
  BY DEF Next, vars, storage, CleanObject, VerdictWrite, CheckVerdict, VerdictChecked,
         VerdictRechecked, VerdictExists, GetVerdictObject, GetBlob, GetCas, Run,
         BlobExists, PutVerdict, RequestFails, Finish, Killed
<1> QED BY <1>1, <1>4, <1>5, <1>6

\* A stored bundle stays stored.
LEMMA StaysStored ==
    ASSUME Grows PROVE \A b : Stored(b) => Stored(b)'
BY DEF Grows, Stored

\* The other clients keep to the order of recording while c takes a step.
LEMMA OthersKeepRecording ==
    ASSUME Backed, Grows, NEW c \in Clients, RecordsInOrder(c)',
           \A d \in Clients \ {c} : Same(d)
    PROVE  (\A d \in Clients : RecordsInOrder(d))'
<1>1. ASSUME NEW d \in Clients PROVE RecordsInOrder(d)'
  <2>1. CASE d = c  BY <2>1
  <2>2. CASE d # c
    <3>1. Same(d) /\ RecordsInOrder(d)  BY <2>2 DEF Backed
    <3>2. Stored(bundle[d]) => Stored(bundle[d])'  BY StaysStored, <3>1 DEF Same, Stored, Grows
    <3>3. bundle[d] \in WithPublic /\ cas[bundle[d]] = "whole" => cas'[bundle[d]] = "whole"
      BY DEF Grows
    <3> QED BY <3>1, <3>2, <3>3 DEF Same, RecordsInOrder
  <2> QED BY <2>1, <2>2
<1> QED BY <1>1

\* Initially nothing is stored and nothing is recorded.
LEMMA InitBacked == Init => Backed
BY DEF Init, Backed, WholeStorage, RecordsInOrder, Absent

\* Every step keeps verdicts backed.
LEMMA StepBacked ==
    ASSUME ~InPlace, ~Cleaning, TypeInv, Backed, [Next]_vars
    PROVE  Backed'
<1> USE DEF TypeInv, TypeOK
<1>0. Grows /\ \A b : Stored(b) => Stored(b)'  BY FilesGrow, StaysStored
<1>a. \A c \in Clients : RecordsInOrder(c)  BY DEF Backed
<1>b. ASSUME UNCHANGED verdictOf, \A w \in writes' : Stored(w.blob)' PROVE WholeStorage'
  <2>1. ASSUME NEW k \in Keys, NEW v \in V
        PROVE  /\ verdictOf'[<<k, v>>].state \in {"absent", "whole"}
               /\ verdictOf'[<<k, v>>].state = "whole" => Stored(verdictOf[<<k, v>>].blob)'
    BY <1>b, <1>0 DEF Backed, WholeStorage
  <2> QED BY <1>b, <2>1, FilesGrow DEF WholeStorage
<1>c. ASSUME UNCHANGED <<verdictOf, writes>> PROVE WholeStorage'
  BY <1>0, <1>b, <1>c DEF Backed, WholeStorage
<1>1. CASE UNCHANGED vars
  BY <1>1 DEF vars, storage, client, Backed, WholeStorage, RecordsInOrder, Stored
<1>2. ~CleanObject  BY DEF CleanObject
<1>3. ASSUME NEW w \in writes, VerdictWrite(w) PROVE Backed'
  <2>1. UNCHANGED client  BY <1>3 DEF VerdictWrite
  <2>2. (\A c \in Clients : RecordsInOrder(c))'
    BY <1>0, <1>3, <1>a DEF VerdictWrite, client, RecordsInOrder, Stored
  <2>3. writes' \subseteq writes  BY <1>3 DEF VerdictWrite
  <2>4. \A x \in writes' : Stored(x.blob)'
    BY <1>0, <2>3 DEF Backed, WholeStorage
  <2>5. ASSUME NEW k \in Keys, NEW v \in V
        PROVE  /\ verdictOf'[<<k, v>>].state \in {"absent", "whole"}
               /\ verdictOf'[<<k, v>>].state = "whole"
                    => (Stored(verdictOf[<<k, v>>].blob))'
    <3>1. \/ verdictOf'[<<k, v>>] = verdictOf[<<k, v>>]
          \/ verdictOf'[<<k, v>>] = [state |-> "whole", blob |-> w.blob]
      BY <1>3, PutEffect
    <3>2. CASE verdictOf'[<<k, v>>] = verdictOf[<<k, v>>]
      BY <1>0, <3>2 DEF Backed, WholeStorage
    <3>3. CASE verdictOf'[<<k, v>>] = [state |-> "whole", blob |-> w.blob]
      <4>1. Stored(w.blob)'
        <5>1. Stored(w.blob)  BY DEF Backed, WholeStorage
        <5> QED BY <1>0, <5>1 DEF Stored
      <4> QED BY <3>3, <4>1 DEF Stored
    <3> QED BY <3>1, <3>2, <3>3
  <2> QED BY <2>2, <2>4, <2>5, FilesGrow DEF Backed, WholeStorage
<1>4. ASSUME NEW c \in Clients,
             \/ CheckVerdict(c) \/ VerdictChecked(c) \/ VerdictRechecked(c)
             \/ \E v \in V : VerdictExists(c, v) \/ GetVerdictObject(c, v)
             \/ GetBlob(c) \/ GetCas(c) \/ RequestFails(c) \/ Finish(c)
      PROVE  Backed'
  <2>1. /\ UNCHANGED <<storage, writes>>
        /\ pc'[c] \in {"IDLE", "CHECK", "RESTORE", "GET_BLOB", "GET_CAS", "CACHED", "RUN"}
        /\ \A d \in Clients \ {c} : Same(d)
    <3>1. CASE CheckVerdict(c)  BY <3>1 DEF CheckVerdict, Goto, Same
    <3>2. CASE VerdictChecked(c)  BY <3>2 DEF VerdictChecked, Goto, Same
    <3>3. CASE VerdictRechecked(c)  BY <3>3 DEF VerdictRechecked, Goto, Same
    <3>4. ASSUME NEW v \in V, VerdictExists(c, v) \/ GetVerdictObject(c, v)
          PROVE  /\ UNCHANGED <<storage, writes>>
                 /\ pc'[c] \in {"CHECK", "RESTORE"}
                 /\ \A d \in Clients \ {c} : Same(d)
      BY <3>4 DEF VerdictExists, GetVerdictObject, Reading, Same
    <3>5. CASE GetBlob(c)  BY <3>5 DEF GetBlob, Goto, AfterRestore, Same
    <3>6. CASE GetCas(c)  BY <3>6 DEF GetCas, Goto, AfterRestore, Same
    <3>7. CASE RequestFails(c)  BY <3>7 DEF RequestFails, Leave, Goto, Same
    <3>8. CASE Finish(c)  BY <3>8 DEF Finish, Leave, Goto, Same
    <3> QED BY <1>4, <3>1, <3>2, <3>3, <3>4, <3>5, <3>6, <3>7, <3>8
  <2>2. RecordsInOrder(c)'  BY <2>1 DEF RecordsInOrder
  <2> QED BY <1>0, <1>c, <2>1, <2>2, OthersKeepRecording DEF Backed, storage
<1>5. ASSUME NEW c \in Clients, Run(c) PROVE Backed'
  <2>1. PICK o \in Outcomes :
          /\ bundle' = [bundle EXCEPT ![c] = o[3]]
          /\ Goto(c, IF o[3] = Nothing THEN "PUT_VERDICT"
                     ELSE IF o[3] \in WithPublic THEN "PUT_CAS" ELSE "BLOB_EXISTS")
    BY <1>5 DEF Run
  <2>2. o[3] \in Contents \cup {Nothing} /\ Nothing \notin WithPublic  BY OutcomesAssumption
  <2>3. RecordsInOrder(c)'  BY <2>1, <2>2 DEF Goto, RecordsInOrder, Stored
  <2>4. UNCHANGED <<storage, writes>> /\ \A d \in Clients \ {c} : Same(d)
    BY <1>5 DEF Run, Goto, Same
  <2> QED BY <1>0, <1>c, <2>3, <2>4, OthersKeepRecording DEF Backed, storage
<1>6. ASSUME NEW c \in Clients, PutCas(c) \/ BlobExists(c) \/ PutBlob(c) PROVE Backed'
  <2>1. UNCHANGED <<verdictOf, writes, bundle>> /\ \A d \in Clients \ {c} : Same(d)
    BY <1>6 DEF PutCas, BlobExists, PutBlob, storage, Goto, Same
  <2>2. RecordsInOrder(c)'
    <3>1. CASE PutCas(c)
      <4>1. /\ bundle[c] \in WithPublic /\ pc'[c] = "BLOB_EXISTS"
            /\ cas' = [cas EXCEPT ![bundle[c]] = "whole"]
        BY <1>a, <3>1 DEF PutCas, Goto, RecordsInOrder
      <4> QED BY <2>1, <4>1, OutcomesAssumption DEF RecordsInOrder
    <3>2. CASE BlobExists(c)
      <4>1. /\ pc[c] = "BLOB_EXISTS" /\ UNCHANGED storage
            /\ \/ pc'[c] = "PUT_VERDICT" /\ blob[bundle[c]] # "absent"
               \/ pc'[c] = "PUT_BLOB"
        BY <3>2 DEF BlobExists, Goto
      <4>2. bundle[c] \in Contents /\ (bundle[c] \in WithPublic => cas[bundle[c]] = "whole")
        BY <1>a, <4>1 DEF RecordsInOrder
      <4>3. blob[bundle[c]] \in {"absent", "whole"}  BY <4>2 DEF Backed, WholeStorage
      <4> QED BY <2>1, <4>1, <4>2, <4>3 DEF RecordsInOrder, Stored, storage
    <3>3. CASE PutBlob(c)
      <4>1. /\ pc[c] = "PUT_BLOB" /\ pc'[c] = "PUT_VERDICT" /\ UNCHANGED cas
            /\ blob' = [blob EXCEPT ![bundle[c]] = "whole"]
        BY <1>a, <3>3 DEF PutBlob, Goto, RecordsInOrder
      <4>2. bundle[c] \in Contents /\ (bundle[c] \in WithPublic => cas[bundle[c]] = "whole")
        BY <1>a, <4>1 DEF RecordsInOrder
      <4> QED BY <2>1, <4>1, <4>2 DEF RecordsInOrder, Stored
    <3> QED BY <1>6, <3>1, <3>2, <3>3
  <2> QED BY <1>0, <1>c, <2>1, <2>2, OthersKeepRecording DEF Backed
<1>7. ASSUME NEW c \in Clients, PutVerdict(c) \/ Killed(c) PROVE Backed'
  <2>1. /\ UNCHANGED storage /\ pc'[c] = "IDLE"
        /\ \A d \in Clients \ {c} : Same(d)
    BY <1>7 DEF PutVerdict, Killed, Leave, Goto, Same
  <2>2. RecordsInOrder(c)'  BY <2>1 DEF RecordsInOrder
  <2>3. \A w \in writes' : Stored(w.blob)
    <3>1. CASE PutVerdict(c)
      <4>1. Stored(bundle[c])  BY <1>a, <3>1 DEF PutVerdict, RecordsInOrder
      <4> QED BY <3>1, <4>1 DEF PutVerdict, Backed, WholeStorage
    <3>2. CASE Killed(c)  BY <3>2 DEF Killed, Backed, WholeStorage
    <3> QED BY <1>7, <3>1, <3>2
  <2>4. \A w \in writes' : Stored(w.blob)'  BY <2>1, <2>3 DEF Stored, storage
  <2> QED BY <1>0, <1>b, <2>1, <2>2, <2>4, OthersKeepRecording DEF Backed, storage
<1> QED BY <1>1, <1>2, <1>3, <1>4, <1>5, <1>6, <1>7 DEF Next

\* A verdict on a storage that replaces objects at once and loses none was
\* earned, and its bundle and public file are there whole, whatever crashes and
\* whoever records the same bundle at the same time, even if existence checks
\* fail.
THEOREM VerdictsAreBacked ==
    ASSUME ~InPlace, ~Cleaning PROVE Spec => []VerdictIsBacked
<1>1. Init => TypeInv /\ Origins /\ Backed  BY InitType, InitOrigins, InitBacked
<1>2. TypeInv /\ Origins /\ Backed /\ [Next]_vars => (TypeInv /\ Origins /\ Backed)'
  BY StepType, StepOrigins, StepBacked
<1>3. TypeInv /\ Origins /\ Backed => VerdictIsBacked
  BY DEF Origins, StorageOrigins, Earned, Backed, WholeStorage, Stored, VerdictIsBacked
<1> QED BY <1>1, <1>2, <1>3, PTL DEF Spec
-----------------------------------------------------------------------------
(* What a cache hit restores, when existence checks tell the truth too.    *)

Recorded(k, v) == verdictOf[<<k, v>>].state = "whole"

\* An execution of c's task gave the bundle b, and passed unless the task is run
\* again.
Restorable(c, b) ==
    \E v \in V : (earlier[c] # "FAIL" => v = "OK") /\ Earned(key[c], v, b)

\* What c was told stays true: a verdict it knows of is recorded, the second
\* reading finds it too, and what is restored belongs to it.
Informed(c) ==
    /\ pc[c] \in {"IDLE", "CHECK"} => earlier[c] = "UNKNOWN"
    /\ pc[c] \in {"RESTORE", "GET_BLOB", "GET_CAS", "CACHED"} => earlier[c] # "UNKNOWN"
    /\ pc[c] = "CACHED" => earlier[c] # "FAIL"
    /\ earlier[c] \in {"OK", "FLAKY"} => Recorded(key[c], "OK")
    /\ earlier[c] = "FAIL" => Recorded(key[c], "FAIL")
    /\ pc[c] \in {"CHECK", "RESTORE"} => \A v \in V :
        /\ seen[c][v].state \in {"present", "whole"} => Recorded(key[c], v)
        /\ (pc[c] = "RESTORE" /\ seen[c][v].state = "absent")
            => (v = "OK" => earlier[c] = "FAIL") /\ (v = "FAIL" => earlier[c] # "FAIL")
    /\ pc[c] \in {"GET_BLOB", "GET_CAS"} => Restorable(c, bundle[c])
    /\ pc[c] = "GET_CAS" => bundle[c] \in WithPublic
    /\ (pc[c] = "CACHED" \/ (pc[c] = "RUN" /\ earlier[c] # "UNKNOWN"))
        => Restorable(c, outputs[c]) \/ (outputs[c] = "stale" /\ Restorable(c, Nothing))

AllInformed == \A c \in Clients : Informed(c)

\* Verdicts and executions are never lost.
Keeps ==
    /\ produced \subseteq produced'
    /\ \A k \in Keys, v \in V : Recorded(k, v) => Recorded(k, v)'

\* A recorded verdict stays recorded, and no execution is forgotten.
LEMMA VerdictsKept ==
    ASSUME ~InPlace, ~Cleaning, TypeInv, [Next]_vars
    PROVE  Keeps
<1>1. CASE \E w \in writes : VerdictWrite(w)
  <2>1. PICK w \in writes : VerdictWrite(w)  BY <1>1
  <2>2. ASSUME NEW k \in Keys, NEW v \in V, Recorded(k, v) PROVE Recorded(k, v)'
    <3>1. \/ verdictOf'[<<k, v>>] = verdictOf[<<k, v>>]
          \/ verdictOf'[<<k, v>>] = [state |-> "whole", blob |-> w.blob]
      BY <2>1, PutEffect
    <3> QED BY <2>2, <3>1 DEF Recorded
  <2>3. produced' = produced  BY <2>1 DEF VerdictWrite
  <2> QED BY <2>2, <2>3 DEF Keeps
<1>2. CASE ~\E w \in writes : VerdictWrite(w)
  <2>1. verdictOf' = verdictOf /\ produced \subseteq produced'
    BY <1>2 DEF Next, vars, storage, CleanObject, CheckVerdict, VerdictChecked,
           VerdictRechecked, VerdictExists, GetVerdictObject, GetBlob, GetCas, Run,
           PutCas, BlobExists, PutBlob, PutVerdict, RequestFails, Finish, Killed
  <2> QED BY <2>1 DEF Keeps, Recorded
<1> QED BY <1>1, <1>2

\* Nothing a client was told becomes false while it stands still.
LEMMA StaysInformed ==
    ASSUME TypeInv, Keeps, NEW c \in Clients, Informed(c), Same(c)
    PROVE  Informed(c)'
<1> USE DEF TypeInv, TypeOK, OnTask
<1>1. ASSUME NEW b, Restorable(c, b) PROVE Restorable(c, b)'
  BY <1>1 DEF Restorable, Earned, Keeps, Same
<1>2. key[c] \in Keys \/ pc[c] = "IDLE"  OBVIOUS
<1>3. /\ Restorable(c, bundle[c]) => Restorable(c, bundle[c])'
      /\ Restorable(c, outputs[c]) => Restorable(c, outputs[c])'
      /\ Restorable(c, Nothing) => Restorable(c, Nothing)'
  BY DEF Restorable, Earned, Keeps, Same
<1>4. ASSUME NEW v \in V, key[c] \in Keys, Recorded(key[c], v) PROVE Recorded(key[c], v)'
  BY <1>4 DEF Keeps, Same, Recorded
<1>5. "OK" \in V /\ "FAIL" \in V  BY DEF V
<1>6. (earlier[c] \in {"OK", "FLAKY"} => Recorded(key[c], "OK"))'
      /\ (earlier[c] = "FAIL" => Recorded(key[c], "FAIL"))'
  <2>1. earlier[c] # "UNKNOWN" => key[c] \in Keys  BY <1>2 DEF Informed
  <2>2. key'[c] = key[c] /\ earlier'[c] = earlier[c]  BY DEF Same
  <2>3. earlier[c] \in {"OK", "FLAKY"} => Recorded(key[c], "OK")'
    BY <1>4, <1>5, <2>1 DEF Informed
  <2>4. earlier[c] = "FAIL" => Recorded(key[c], "FAIL")'
    BY <1>4, <1>5, <2>1 DEF Informed
  <2> QED BY <2>2, <2>3, <2>4 DEF Recorded
<1>7. (pc[c] \in {"CHECK", "RESTORE"} => \A v \in V :
        /\ seen[c][v].state \in {"present", "whole"} => Recorded(key[c], v)
        /\ (pc[c] = "RESTORE" /\ seen[c][v].state = "absent")
            => (v = "OK" => earlier[c] = "FAIL") /\ (v = "FAIL" => earlier[c] # "FAIL"))'
  <2>1. ASSUME pc[c] \in {"CHECK", "RESTORE"}, NEW v \in V,
               seen[c][v].state \in {"present", "whole"}
        PROVE  Recorded(key[c], v)'
    BY <1>2, <1>4, <2>1 DEF Informed
  <2> QED BY <2>1 DEF Same, Informed
<1> QED BY <1>3, <1>6, <1>7 DEF Informed, Same
\* The other clients stay informed while c takes a step.
LEMMA OthersStayInformed ==
    ASSUME TypeInv, Keeps, AllInformed, NEW c \in Clients, Informed(c)',
           \A d \in Clients \ {c} : Same(d)
    PROVE  AllInformed'
<1>1. ASSUME NEW d \in Clients PROVE Informed(d)'
  <2>1. CASE d = c  BY <2>1
  <2>2. CASE d # c  BY <2>2, StaysInformed DEF AllInformed
  <2> QED BY <2>1, <2>2
<1> QED BY <1>1 DEF AllInformed

\* A client between two tasks knows nothing.
LEMMA InformedOfNothing ==
    ASSUME TypeInv, NEW c \in Clients, Leave(c)
    PROVE  Informed(c)' /\ \A d \in Clients \ {c} : Same(d)
<1>1. /\ pc'[c] = "IDLE" /\ earlier'[c] = "UNKNOWN"
      /\ \A d \in Clients \ {c} : Same(d)
  BY DEF Leave, Goto, Same, TypeInv, TypeOK
<1> QED BY <1>1 DEF Informed

\* Initially nobody was told anything.
LEMMA InitInformed == Init => AllInformed
BY DEF Init, AllInformed, Informed

\* Every step keeps what was told true.
LEMMA StepInformed ==
    ASSUME ~InPlace, ~Cleaning, ~ExistsFails,
           TypeInv, Origins, Backed, AllInformed, [Next]_vars
    PROVE  AllInformed'
<1> USE DEF TypeInv, TypeOK, OnTask
<1>0. Keeps  BY VerdictsKept
<1>a. \A c \in Clients : Informed(c) /\ ClientOrigins(c)  BY DEF AllInformed, Origins
<1>b. "OK" \in V /\ "FAIL" \in V  BY DEF V
<1>c. ASSUME UNCHANGED client PROVE AllInformed'
  <2>1. \A c \in Clients : Same(c)  BY <1>c DEF client, Same
  <2> QED BY <1>0, <2>1, StaysInformed DEF AllInformed
<1>d. \A k \in Keys, v \in V : verdictOf[<<k, v>>].state \in {"absent", "whole"}
  BY DEF Backed, WholeStorage
<1>1. CASE UNCHANGED vars  BY <1>c, <1>1 DEF vars
<1>2. ~CleanObject  BY DEF CleanObject
<1>3. ASSUME NEW w \in writes, VerdictWrite(w) PROVE AllInformed'
  BY <1>c, <1>3 DEF VerdictWrite
<1>4. ASSUME NEW c \in Clients, CheckVerdict(c) PROVE AllInformed'
  <2>1. /\ pc[c] = "IDLE" /\ pc'[c] = "CHECK" /\ UNCHANGED <<seen, earlier>>
        /\ \A d \in Clients \ {c} : Same(d)
    BY <1>4 DEF CheckVerdict, Goto, Same
  <2>2. seen[c] = Unread /\ earlier[c] = "UNKNOWN"
    BY <1>a, <2>1 DEF ClientOrigins, Informed
  <2>3. \A v \in V : Unread[v].state = "unread"  BY DEF Unread, NotRead
  <2>4. Informed(c)'  BY <2>1, <2>2, <2>3 DEF Informed
  <2> QED BY <1>0, <2>1, <2>4, OthersStayInformed
<1>5. ASSUME NEW c \in Clients, VerdictChecked(c) PROVE AllInformed'
  <2>1. /\ pc[c] = "CHECK" /\ seen'[c] = Unread /\ earlier'[c] = VerdictRead(c)
        /\ \/ pc'[c] = "RUN" /\ VerdictRead(c) = "UNKNOWN"
           \/ pc'[c] = "RESTORE" /\ VerdictRead(c) # "UNKNOWN"
        /\ UNCHANGED <<storage, writes, key, bundle, status, produced>>
        /\ \A d \in Clients \ {c} : Same(d)
    BY <1>5 DEF VerdictChecked, Goto, Same
  <2>2. /\ VerdictRead(c) \in {"OK", "FLAKY"} => Recorded(key[c], "OK")
        /\ VerdictRead(c) = "FAIL" => Recorded(key[c], "FAIL")
    BY <1>a, <1>b, <2>1 DEF VerdictRead, Has, Informed
  <2>3. \A v \in V : Unread[v].state = "unread"  BY DEF Unread, NotRead
  <2>4. Informed(c)'  BY <2>1, <2>2, <2>3 DEF Informed, Recorded, storage
  <2> QED BY <1>0, <2>1, <2>4, OthersStayInformed
<1>6. ASSUME NEW c \in Clients, VerdictRechecked(c) PROVE AllInformed'
  <2>1. /\ pc[c] = "RESTORE" /\ pc'[c] = "GET_BLOB" /\ seen'[c] = Unread /\ AllRead(c)
        /\ bundle'[c] = BlobRead(c)
        /\ UNCHANGED <<storage, writes, key, earlier, status, outputs, produced>>
        /\ \A d \in Clients \ {c} : Same(d)
    BY <1>6 DEF VerdictRechecked, Goto, Same
  <2>2. earlier[c] # "FAIL" => Has(c, "OK")
    BY <1>a, <1>b, <2>1 DEF AllRead, Has, Informed
  <2>3. earlier[c] = "FAIL" => Has(c, "FAIL")
    BY <1>a, <1>b, <2>1 DEF AllRead, Has, Informed
  <2>4. Restorable(c, BlobRead(c))
    BY <1>a, <1>b, <2>2, <2>3 DEF BlobRead, Has, Restorable, ClientOrigins
  <2>5. Restorable(c, bundle[c])'  BY <2>1, <2>4 DEF Restorable, Earned
  <2>6. Informed(c)'  BY <1>a, <2>1, <2>5 DEF Informed, Recorded, storage
  <2> QED BY <1>0, <2>1, <2>6, OthersStayInformed
<1>7. ASSUME NEW c \in Clients, NEW v \in V, VerdictExists(c, v) PROVE AllInformed'
  <2>1. PICK answer \in {"present", "absent"} :
          /\ answer = "present" => verdictOf[<<key[c], v>>].state # "absent"
          /\ answer = "absent" => ExistsFails \/ verdictOf[<<key[c], v>>].state = "absent"
          /\ seen' = [seen EXCEPT ![c][v].state = answer]
    BY <1>7 DEF VerdictExists
  <2>2. /\ pc[c] \in {"CHECK", "RESTORE"} /\ key[c] \in Keys
        /\ UNCHANGED <<storage, writes, pc, key, earlier, bundle, status, outputs, produced>>
    BY <1>7 DEF VerdictExists, Reading
  <2>3. /\ seen'[c][v].state = answer
        /\ \A u \in V \ {v} : seen'[c][u] = seen[c][u]
    <3>1. seen[c] \in [V -> Answers] /\ seen[c][v] \in Answers  OBVIOUS
    <3>2. seen'[c] = [seen[c] EXCEPT ![v] = [seen[c][v] EXCEPT !.state = answer]]
      BY <2>1
    <3> QED BY <3>1, <3>2 DEF Answers
  <2>4. answer = "present" <=> Recorded(key[c], v)  BY <1>d, <2>1, <2>2 DEF Recorded
  <2>5. (pc[c] = "RESTORE" /\ answer = "absent")
          => (v = "OK" => earlier[c] = "FAIL") /\ (v = "FAIL" => earlier[c] # "FAIL")
    BY <1>a, <2>4 DEF Informed
  <2>6. \A u \in V : Recorded(key[c], u)' = Recorded(key[c], u)
    BY <2>2 DEF Recorded, storage
  <2>7. Informed(c)'
    BY <1>a, <1>b, <2>2, <2>3, <2>4, <2>5, <2>6 DEF Informed
  <2>8. \A d \in Clients \ {c} : Same(d)  BY <2>1, <2>2 DEF Same
  <2> QED BY <1>0, <2>7, <2>8, OthersStayInformed
<1>8. ASSUME NEW c \in Clients, NEW v \in V, GetVerdictObject(c, v) PROVE AllInformed'
  <2>1. /\ pc[c] \in {"CHECK", "RESTORE"} /\ key[c] \in Keys
        /\ seen[c][v].state = "present"
        /\ UNCHANGED <<storage, writes, pc, key, earlier, bundle, status, outputs, produced>>
        /\ \A d \in Clients \ {c} : Same(d)
        /\ \A u \in V \ {v} : seen'[c][u] = seen[c][u]
    BY <1>8 DEF GetVerdictObject, Reading, Same
  <2>2. Recorded(key[c], v)  BY <1>a, <2>1 DEF Informed
  <2>3. seen'[c][v].state = "whole"
    BY <1>8, <2>2 DEF GetVerdictObject, Recorded
  <2>4. Recorded(key[c], v)' /\ \A u \in V : Recorded(key[c], u)' = Recorded(key[c], u)
    BY <2>1, <2>2 DEF Recorded, storage
  <2>5. Informed(c)'
    BY <1>a, <2>1, <2>3, <2>4, <1>b DEF Informed
  <2> QED BY <1>0, <2>1, <2>5, OthersStayInformed
<1>9. ASSUME NEW c \in Clients, GetBlob(c) PROVE AllInformed'
  <2>1. /\ pc[c] = "GET_BLOB"
        /\ UNCHANGED <<storage, writes, key, seen, earlier, bundle, status, produced>>
        /\ \/ pc'[c] = AfterRestore(c) /\ outputs'[c] = outputs[c] /\ bundle[c] = Nothing
           \/ pc'[c] = "GET_CAS" /\ bundle[c] \in WithPublic
           \/ pc'[c] = AfterRestore(c) /\ outputs'[c] = bundle[c]
        /\ \A d \in Clients \ {c} : Same(d)
    <3>1. /\ UNCHANGED <<storage, writes, key, seen, earlier, bundle, status, produced>>
          /\ \A d \in Clients \ {c} : Same(d)
      BY <1>9 DEF GetBlob, Goto, Same
    <3>2. bundle[c] # Nothing => bundle[c] \in Contents  BY DEF Bundles
    <3>3. bundle[c] # Nothing => blob[bundle[c]] \in {"absent", "whole"}
      BY <3>2 DEF Backed, WholeStorage
    <3> QED BY <1>9, <3>1, <3>3 DEF GetBlob, Goto
  <2>2. /\ earlier[c] # "UNKNOWN" /\ Restorable(c, bundle[c]) /\ outputs[c] = "stale"
    BY <1>a, <2>1 DEF Informed, ClientOrigins
  <2>3. /\ Restorable(c, bundle[c])'
        /\ bundle[c] = Nothing => Restorable(c, Nothing)'
        /\ outputs'[c] = bundle[c] => Restorable(c, outputs[c])'
    BY <2>1, <2>2 DEF Restorable, Earned
  <2>4. /\ (pc[c] \in {"GET_BLOB", "GET_CAS"} => Restorable(c, bundle[c]))'
        /\ (pc[c] = "CACHED" \/ (pc[c] = "RUN" /\ earlier[c] # "UNKNOWN"))'
            => (Restorable(c, outputs[c]) \/ (outputs[c] = "stale" /\ Restorable(c, Nothing)))'
    BY <2>1, <2>2, <2>3 DEF AfterRestore
  <2>5. seen[c] = Unread /\ UNCHANGED <<verdictOf, key, seen, earlier>>
    BY <1>a, <2>1 DEF ClientOrigins, storage
  <2>6. /\ (earlier[c] \in {"OK", "FLAKY"} => Recorded(key[c], "OK"))'
        /\ (earlier[c] = "FAIL" => Recorded(key[c], "FAIL"))'
    BY <1>a, <2>5 DEF Informed, Recorded
  <2>7. Informed(c)'
    BY <2>1, <2>2, <2>4, <2>5, <2>6 DEF Informed, AfterRestore
  <2> QED BY <1>0, <2>1, <2>7, OthersStayInformed
<1>10. ASSUME NEW c \in Clients, GetCas(c) PROVE AllInformed'
  <2>1. /\ pc[c] = "GET_CAS" /\ pc'[c] = AfterRestore(c) /\ cas[bundle[c]] # "absent"
        /\ UNCHANGED <<storage, writes, key, seen, earlier, bundle, status, produced>>
        /\ cas[bundle[c]] = "whole" => outputs'[c] = bundle[c]
        /\ \A d \in Clients \ {c} : Same(d)
    BY <1>10 DEF GetCas, Goto, Same
  <2>2. /\ earlier[c] # "UNKNOWN" /\ Restorable(c, bundle[c]) /\ bundle[c] \in WithPublic
    BY <1>a, <2>1 DEF Informed
  <2>3. outputs'[c] = bundle[c]
    BY <2>1, <2>2 DEF Backed, WholeStorage
  <2>4. Restorable(c, outputs[c])'
    BY <2>1, <2>2, <2>3 DEF Restorable, Earned
  <2>5. /\ (earlier[c] \in {"OK", "FLAKY"} => Recorded(key[c], "OK"))'
        /\ (earlier[c] = "FAIL" => Recorded(key[c], "FAIL"))'
    BY <1>a, <2>1 DEF Informed, Recorded, storage
  <2>6. Informed(c)'
    BY <2>1, <2>2, <2>4, <2>5 DEF Informed, AfterRestore
  <2> QED BY <1>0, <2>1, <2>6, OthersStayInformed
<1>11. ASSUME NEW c \in Clients,
              Run(c) \/ PutCas(c) \/ BlobExists(c) \/ PutBlob(c)
       PROVE  AllInformed'
  <2>1. /\ UNCHANGED <<verdictOf, writes, key, seen, earlier>>
        /\ pc[c] \in {"RUN", "PUT_CAS", "FILL_CAS", "BLOB_EXISTS", "PUT_BLOB", "FILL_BLOB"}
        /\ pc'[c] \in {"PUT_CAS", "FILL_CAS", "BLOB_EXISTS", "PUT_BLOB", "FILL_BLOB",
                       "PUT_VERDICT"}
        /\ \A d \in Clients \ {c} : Same(d)
    <3>1. CASE Run(c)  BY <3>1 DEF Run, storage, Goto, Same
    <3>2. CASE PutCas(c)  BY <3>2 DEF PutCas, Goto, Same
    <3>3. CASE BlobExists(c)  BY <3>3 DEF BlobExists, storage, Goto, Same
    <3>4. CASE PutBlob(c)  BY <3>4 DEF PutBlob, Goto, Same
    <3> QED BY <1>11, <3>1, <3>2, <3>3, <3>4
  <2>2. Informed(c)'  BY <1>a, <2>1 DEF Informed, Recorded
  <2> QED BY <1>0, <2>1, <2>2, OthersStayInformed
<1>12. ASSUME NEW c \in Clients,
              PutVerdict(c) \/ RequestFails(c) \/ Finish(c) \/ Killed(c)
       PROVE  AllInformed'
  <2>1. Leave(c)  BY <1>12 DEF PutVerdict, RequestFails, Finish, Killed
  <2> QED BY <1>0, <2>1, InformedOfNothing, OthersStayInformed
<1> QED
  BY <1>1, <1>2, <1>3, <1>4, <1>5, <1>6, <1>7, <1>8, <1>9, <1>10, <1>11, <1>12 DEF Next

\* All of it is an invariant.
LEMMA AllInvariant ==
    ASSUME ~InPlace, ~Cleaning, ~ExistsFails
    PROVE  Spec => [](TypeInv /\ Origins /\ Backed /\ AllInformed)
<1>1. Init => TypeInv /\ Origins /\ Backed /\ AllInformed
  BY InitType, InitOrigins, InitBacked, InitInformed
<1>2. TypeInv /\ Origins /\ Backed /\ AllInformed /\ [Next]_vars
        => (TypeInv /\ Origins /\ Backed /\ AllInformed)'
  BY StepType, StepOrigins, StepBacked, StepInformed
<1> QED BY <1>1, <1>2, PTL DEF Spec

\* A cache hit leaves in the repo exactly what a passing execution of that very
\* task and fingerprint produced, even when another build records a failure of it
\* between the two times the verdict is read.
THEOREM HitsRestoreOutputs ==
    ASSUME ~InPlace, ~Cleaning, ~ExistsFails PROVE Spec => []CacheHitRestoresOutputs
<1>1. AllInformed => CacheHitRestoresOutputs
  BY DEF AllInformed, Informed, Restorable, Earned, CacheHitRestoresOutputs
<1> QED BY <1>1, AllInvariant, PTL

\* A failed task is run again on top of the outputs of an execution of itself.
THEOREM FailuresRestoreOutputs ==
    ASSUME ~InPlace, ~Cleaning, ~ExistsFails PROVE Spec => []RerunsOnOwnOutputs
<1>1. AllInformed => RerunsOnOwnOutputs
  BY DEF AllInformed, Informed, Restorable, Earned, RerunsOnOwnOutputs
<1> QED BY <1>1, AllInvariant, PTL
=============================================================================
