---------------------- MODULE ServiceCoordinationProofs ----------------------
(***************************************************************************)
(* Proofs about the host commands that coordinate the service, for any sets *)
(* of commands and of configurations and any number of requests.            *)
(*                                                                          *)
(* LockInv needs that a live command refreshes its lock in time (Timely),   *)
(* and says nothing once a command has removed another lock than the one it *)
(* found stale (raced), which the code does not prevent.  It gives the       *)
(* single handler, with which ApplyInv relates requests, results and the    *)
(* service.                                                                 *)
(***************************************************************************)
EXTENDS ServiceCoordination, TLAPS

-----------------------------------------------------------------------------
(* Type correctness                                                        *)

Request == [id : 0 .. MaxRequests, digest : Config \cup {"none"}, force : BOOLEAN]
Result == [id : 0 .. MaxRequests, success : BOOLEAN, applied : Nat]
AnswerType == [result : Result, next : {"none", "follow", "leave"}]
Step == {"off", "exited"} \cup Acquiring \cup Attached \cup Leaving

\* The Boolean variables, apart because another prover deals with them.
Bools ==
    /\ nonce \in BOOLEAN /\ lockFresh \in BOOLEAN /\ presenceFresh \in BOOLEAN
    /\ raced \in BOOLEAN

\* The files and the service.
FilesOK ==
    /\ lock \in Cmd \cup {"none", "gone"} /\ presence \in Cmd \cup {"none", "gone"}
    /\ config \in Config /\ service \in Config \cup {"none"} /\ dash \in {"idle", "saved"}
    /\ request \in Request /\ result \in Result
    /\ dash = "saved" => request.id < MaxRequests

\* The commands: where they are, with what they need to go on from there.
CommandsOK ==
    /\ pc \in [Cmd -> Step]
    /\ attempt \in [Cmd -> 0 .. 2] /\ beat \in [Cmd -> {"off", "on", "write"}]
    /\ seen \in [Cmd -> Cmd \cup {"none", "gone"}]
    /\ \A c \in Cmd :
          /\ pc[c] \in {"off", "create", "inspect", "stat", "remove"} => attempt[c] < 2
          /\ beat[c] # "off" => pc[c] \in Attached \cup {"leave"}

\* What a command that applies a request has of it.
ApplyOK ==
    /\ handled \in [Cmd -> Request] /\ answer \in [Cmd -> AnswerType]
    /\ loaded \in [Cmd -> Config \cup {"none"}]
    /\ \A c \in Cmd :
          /\ pc[c] \in Applying \ {"load", "answer"} => loaded[c] \in Config
          /\ pc[c] = "answer" => answer[c].next \in {"follow", "leave"}

\* TypeOK with what it needs to be inductive.
TypeInv == Bools /\ FilesOK /\ CommandsOK /\ ApplyOK

-----------------------------------------------------------------------------
(* The lock                                                                *)

\* A command that has created the lock and neither released it nor ended.
Holding == {"write", "publish"} \cup Attached \cup Leaving

\* A holder has the lock, which is fresh, and whoever is about to remove a
\* lock that it found stale found that of a command that had ended.
LockInv ==
    ~raced =>
        /\ \A c \in Cmd : pc[c] \in Holding => lock = c /\ lockFresh
        /\ lock \in Cmd => pc[lock] \in Holding \cup {"exited"}
        /\ \A c \in Cmd : pc[c] = "remove" =>
              seen[c] = "gone" \/ (seen[c] \in Cmd /\ pc[seen[c]] = "exited")

-----------------------------------------------------------------------------
(* Requests and results                                                    *)

\* A command applies a request that has no result yet, and the result that is
\* stored for the latest request, or about to be, agrees with the service.
ApplyInv ==
    /\ result.id <= request.id
    /\ \A c \in Cmd : pc[c] \in Applying =>
          result.id < handled[c].id /\ handled[c].id <= request.id
    /\ \A c \in Cmd : pc[c] = "answer" =>
          /\ answer[c].result.id = handled[c].id
          /\ answer[c].result.success =>
                service # "none" /\ Fingerprint[service] = answer[c].result.applied
    /\ (result.success /\ result.id = request.id) =>
          service # "none" /\ Fingerprint[service] = result.applied


\* Every step keeps the Boolean types.
LEMMA BoolsNext == Bools /\ [Next]_vars => Bools'
<1> SUFFICES ASSUME Bools, [Next]_vars PROVE Bools'
  OBVIOUS
<1> USE DEF Bools, lockVars, presenceVars, serviceVars, applyVars, raceVars, acquireFrame,
            beatFrame, leaveFrame, followFrame, dashFrame
<1>1. ASSUME NEW c \in Cmd, StartPresence(c) PROVE Bools'
  BY <1>1, Zenon DEF StartPresence, Goto
<1>2. ASSUME NEW c \in Cmd, Create(c) PROVE Bools'
  BY <1>2, Zenon DEF Create, Goto
<1>3. ASSUME NEW c \in Cmd, WriteNonce(c) PROVE Bools'
  BY <1>3, Zenon DEF WriteNonce, Goto
<1>4. ASSUME NEW c \in Cmd, Inspect(c) PROVE Bools'
  BY <1>4, Zenon DEF Inspect, Goto
<1>5. ASSUME NEW c \in Cmd, Stat(c) PROVE Bools'
  BY <1>5, Zenon DEF Stat, Retry, Reclaimable, Goto
<1>6. ASSUME NEW c \in Cmd, Remove(c) PROVE Bools'
  BY <1>6, Zenon DEF Remove, RemoveLock, Retry, Goto
<1>7. ASSUME NEW c \in Cmd, Publish(c) PROVE Bools'
  BY <1>7, Zenon DEF Publish, Goto
<1>8. ASSUME NEW c \in Cmd, Launch(c) PROVE Bools'
  BY <1>8, Zenon DEF Launch, Goto
<1>9. ASSUME NEW c \in Cmd, Follow(c) PROVE Bools'
  BY <1>9, Zenon DEF Follow, Goto
<1>10. ASSUME NEW c \in Cmd, Read(c) PROVE Bools'
  BY <1>10, Zenon DEF Read, Pending, Goto
<1>11. ASSUME NEW c \in Cmd, LoadSnapshot(c) PROVE Bools'
  BY <1>11, Zenon DEF LoadSnapshot, Answer, Goto
<1>12. ASSUME NEW c \in Cmd, Match(c) PROVE Bools'
  BY <1>12, Zenon DEF Match, ServiceMatches, Answer, Goto
<1>13. ASSUME NEW c \in Cmd, RestartWithConfig(c) PROVE Bools'
  BY <1>13, Zenon DEF RestartWithConfig, Answer, Goto
<1>14. ASSUME NEW c \in Cmd, startWithConfig(c) PROVE Bools'
  BY <1>14, Zenon DEF startWithConfig, Answer, Goto
<1>15. ASSUME NEW c \in Cmd, AwaitController(c) PROVE Bools'
  BY <1>15, Zenon DEF AwaitController, Answer, Goto
<1>16. ASSUME NEW c \in Cmd, Verify(c) PROVE Bools'
  BY <1>16, Zenon DEF Verify, ServiceMatches, Answer, Goto
<1>17. ASSUME NEW c \in Cmd, WriteResult(c) PROVE Bools'
  BY <1>17, Zenon DEF WriteResult, Goto
<1>18. ASSUME NEW c \in Cmd, Leave(c) PROVE Bools'
  BY <1>18, Zenon DEF Leave, Goto
<1>19. ASSUME NEW c \in Cmd, Unpublish(c) PROVE Bools'
  BY <1>19, Zenon DEF Unpublish, Goto
<1>20. ASSUME NEW c \in Cmd, Release(c) PROVE Bools'
  BY <1>20, Zenon DEF Release, OwnsLock, Goto
<1>21. ASSUME NEW c \in Cmd, Unlock(c) PROVE Bools'
  BY <1>21, Zenon DEF Unlock, RemoveLock, Goto
<1>22. ASSUME NEW c \in Cmd, Interrupt(c) PROVE Bools'
  BY <1>22, Zenon DEF Interrupt, Goto
<1>23. ASSUME NEW c \in Cmd, Crash(c) PROVE Bools'
  BY <1>23, Zenon DEF Crash, Goto
<1>24. ASSUME NEW c \in Cmd, Touch(c) PROVE Bools'
  BY <1>24, Zenon DEF Touch, OwnsLock
<1>25. ASSUME NEW c \in Cmd, Refresh(c) PROVE Bools'
  BY <1>25, Zenon DEF Refresh
<1>26. ASSUME NEW new \in Config, SaveConfig(new) PROVE Bools'
  BY <1>26, Zenon DEF SaveConfig
<1>27. ASSUME NEW force \in BOOLEAN, requestServiceRestart(force) PROVE Bools'
  BY <1>27, Zenon DEF requestServiceRestart
<1>28. CASE LockAges
  BY <1>28, Zenon DEF LockAges
<1>29. CASE PresenceAges
  BY <1>29, Zenon DEF PresenceAges
<1>30. CASE UNCHANGED vars
  BY <1>30, Zenon DEF vars
<1> HIDE DEF Bools, lockVars, presenceVars, serviceVars, applyVars, raceVars, acquireFrame,
             beatFrame, leaveFrame, followFrame, dashFrame
<1> QED
  BY <1>1, <1>2, <1>3, <1>4, <1>5, <1>6, <1>7, <1>8, <1>9, <1>10, <1>11, <1>12, <1>13,
     <1>14, <1>15, <1>16, <1>17, <1>18, <1>19, <1>20, <1>21, <1>22, <1>23, <1>24, <1>25,
     <1>26, <1>27, <1>28, <1>29, <1>30, Zenon
   DEF Next, Command, Acquire, Apply

\* What writeResult is about to write.
LEMMA AnswerEffect ==
    ASSUME TypeInv, NEW c \in Cmd, NEW success \in BOOLEAN, NEW next \in {"follow", "leave"},
           Answer(c, success, next), success => loaded[c] \in Config
    PROVE  /\ pc' = [pc EXCEPT ![c] = "answer"]
           /\ answer' \in [Cmd -> AnswerType]
           /\ \A d \in Cmd : d # c => answer'[d] = answer[d]
           /\ answer'[c].next = next
           /\ answer'[c].result.id = handled[c].id
           /\ answer'[c].result.success = success
           /\ success => answer'[c].result.applied = Fingerprint[loaded[c]]
<1> DEFINE r == [id |-> handled[c].id, success |-> success,
                 applied |-> IF success THEN Fingerprint[loaded[c]] ELSE 0]
           v == [result |-> r, next |-> next]
<1>1. /\ answer' = [answer EXCEPT ![c] = v] /\ pc' = [pc EXCEPT ![c] = "answer"]
  BY Zenon DEF Answer, Goto
<1>2. handled[c].id \in 0 .. MaxRequests
  BY DEF TypeInv, ApplyOK, Request
<1>3. (IF success THEN Fingerprint[loaded[c]] ELSE 0) \in Nat
  BY CoordinationAssumption
<1>4. r \in Result
  BY <1>2, <1>3 DEF Result
<1>5. v \in AnswerType
  BY <1>4 DEF AnswerType
<1>6. answer \in [Cmd -> AnswerType]
  BY DEF TypeInv, ApplyOK
<1>7. answer' \in [Cmd -> AnswerType] /\ answer'[c] = v
      /\ \A d \in Cmd : d # c => answer'[d] = answer[d]
  <2> HIDE DEF v
  <2> QED
    BY <1>1, <1>5, <1>6
<1> QED
  BY <1>1, <1>7

\* The empty values have their types.
LEMMA EmptyTypes == NoRequest \in Request /\ NoResult \in Result /\ NoAnswer \in AnswerType
  BY CoordinationAssumption DEF NoRequest, NoResult, NoAnswer, Request, Result, AnswerType

\* The fields of requests and results.
LEMMA Fields ==
    /\ \A r \in Request : r.id \in Nat
    /\ \A r \in Result : r.id \in Nat
    /\ \A a \in AnswerType : a.result \in Result
  BY DEF Request, Result, AnswerType

\* A command that comes to its answer keeps the types.
LEMMA AnswerTypes ==
    ASSUME TypeInv, NEW c \in Cmd, NEW success \in BOOLEAN, NEW next \in {"follow", "leave"},
           Answer(c, success, next), success => loaded[c] \in Config,
           UNCHANGED <<handled, loaded>>
    PROVE  ApplyOK'
<1>1. /\ pc' = [pc EXCEPT ![c] = "answer"] /\ answer' \in [Cmd -> AnswerType]
      /\ \A d \in Cmd : d # c => answer'[d] = answer[d]
      /\ answer'[c].next \in {"follow", "leave"}
  BY AnswerEffect
<1>2. pc'[c] = "answer" /\ \A d \in Cmd : d # c => pc'[d] = pc[d]
  BY <1>1 DEF TypeInv, CommandsOK
<1> QED
  BY <1>1, <1>2 DEF TypeInv, ApplyOK, Applying

\* A command that comes to its answer keeps ApplyInv, if a success is told of
\* a service that has the fingerprint that was loaded.
LEMMA AnswerAgrees ==
    ASSUME TypeInv, HandlerIsAlone, ApplyInv,
           NEW c \in Cmd, NEW success \in BOOLEAN, NEW next \in {"follow", "leave"},
           Answer(c, success, next), success => loaded[c] \in Config, pc[c] \in Applying,
           success => ServiceMatches(c) /\ service' = service,
           UNCHANGED <<handled, request, result>>
    PROVE  ApplyInv'
<1>1. /\ pc' = [pc EXCEPT ![c] = "answer"]
      /\ answer'[c].result.id = handled[c].id
      /\ answer'[c].result.success = success
      /\ success => answer'[c].result.applied = Fingerprint[loaded[c]]
  BY AnswerEffect
<1>2. pc'[c] = "answer" /\ \A d \in Cmd : d # c => pc'[d] = pc[d] /\ pc[d] \notin Applying
  BY <1>1 DEF TypeInv, CommandsOK, HandlerIsAlone
<1>3. result.id < handled[c].id /\ handled[c].id <= request.id
  BY DEF ApplyInv
<1>4. result.id \in Nat /\ handled[c].id \in Nat /\ request.id \in Nat
  BY Fields DEF TypeInv, FilesOK, ApplyOK
<1>5. result.id # request.id
  BY <1>3, <1>4
<1>6. success => service' # "none" /\ Fingerprint[service'] = answer'[c].result.applied
  BY <1>1 DEF ServiceMatches
<1>7. \A d \in Cmd : pc'[d] \in Applying => d = c
  BY <1>2
<1>8. "answer" \in Applying /\ result'.id <= request'.id
  BY DEF Applying, ApplyInv
<1> QED
  BY <1>1, <1>2, <1>3, <1>5, <1>6, <1>7, <1>8 DEF ApplyInv


\* A function that is changed at one argument keeps its type.
LEMMA UpdateTyped ==
    ASSUME NEW S, NEW f \in [Cmd -> S], NEW c \in Cmd, NEW v \in S
    PROVE  [f EXCEPT ![c] = v] \in [Cmd -> S]
  OBVIOUS

\* Every step keeps the types of the files.
LEMMA FilesNext == TypeInv /\ [Next]_vars => FilesOK'
<1> SUFFICES ASSUME TypeInv, [Next]_vars PROVE FilesOK'
  OBVIOUS
<1> USE DEF FilesOK, CommandsOK, ApplyOK, TypeInv, Step, Applying, Attached, Leaving,
            Acquiring, lockVars, presenceVars, serviceVars, applyVars, raceVars, acquireFrame,
            beatFrame, leaveFrame, followFrame, dashFrame
<1>1. ASSUME NEW c \in Cmd, StartPresence(c) PROVE FilesOK'
  BY <1>1 DEF StartPresence, Goto
<1>2. ASSUME NEW c \in Cmd, Create(c) PROVE FilesOK'
  BY <1>2 DEF Create, Goto
<1>3. ASSUME NEW c \in Cmd, WriteNonce(c) PROVE FilesOK'
  BY <1>3 DEF WriteNonce, Goto
<1>4. ASSUME NEW c \in Cmd, Inspect(c) PROVE FilesOK'
  BY <1>4 DEF Inspect, Goto
<1>5. ASSUME NEW c \in Cmd, Stat(c) PROVE FilesOK'
  BY <1>5 DEF Stat, Retry, Reclaimable, Goto
<1>6. ASSUME NEW c \in Cmd, Remove(c) PROVE FilesOK'
  BY <1>6 DEF Remove, RemoveLock, Retry, Goto
<1>7. ASSUME NEW c \in Cmd, Publish(c) PROVE FilesOK'
  BY <1>7 DEF Publish, Goto
<1>8. ASSUME NEW c \in Cmd, Launch(c) PROVE FilesOK'
  BY <1>8 DEF Launch, Goto
<1>9. ASSUME NEW c \in Cmd, Follow(c) PROVE FilesOK'
  BY <1>9 DEF Follow, Goto
<1>10. ASSUME NEW c \in Cmd, Read(c) PROVE FilesOK'
  BY <1>10 DEF Read, Pending, Goto
<1>11. ASSUME NEW c \in Cmd, LoadSnapshot(c) PROVE FilesOK'
  BY <1>11 DEF LoadSnapshot, Answer, Goto
<1>12. ASSUME NEW c \in Cmd, Match(c) PROVE FilesOK'
  BY <1>12 DEF Match, ServiceMatches, Answer, Goto
<1>13. ASSUME NEW c \in Cmd, RestartWithConfig(c) PROVE FilesOK'
  BY <1>13 DEF RestartWithConfig, Answer, Goto
<1>14. ASSUME NEW c \in Cmd, startWithConfig(c) PROVE FilesOK'
  BY <1>14 DEF startWithConfig, Answer, Goto
<1>15. ASSUME NEW c \in Cmd, AwaitController(c) PROVE FilesOK'
  BY <1>15 DEF AwaitController, Answer, Goto
<1>16. ASSUME NEW c \in Cmd, Verify(c) PROVE FilesOK'
  BY <1>16 DEF Verify, ServiceMatches, Answer, Goto
<1>17. ASSUME NEW c \in Cmd, WriteResult(c) PROVE FilesOK'
  <2>1. /\ UNCHANGED <<lock, presence, config, service, dash, request>>
        /\ result' \in {result, answer[c].result}
    BY <1>17 DEF WriteResult
  <2>2. answer[c].result \in Result
    BY Fields
  <2> QED
    BY <2>1, <2>2
<1>18. ASSUME NEW c \in Cmd, Leave(c) PROVE FilesOK'
  BY <1>18 DEF Leave, Goto
<1>19. ASSUME NEW c \in Cmd, Unpublish(c) PROVE FilesOK'
  BY <1>19 DEF Unpublish, Goto
<1>20. ASSUME NEW c \in Cmd, Release(c) PROVE FilesOK'
  BY <1>20 DEF Release, OwnsLock, Goto
<1>21. ASSUME NEW c \in Cmd, Unlock(c) PROVE FilesOK'
  BY <1>21 DEF Unlock, RemoveLock, Goto
<1>22. ASSUME NEW c \in Cmd, Interrupt(c) PROVE FilesOK'
  BY <1>22 DEF Interrupt, Goto
<1>23. ASSUME NEW c \in Cmd, Crash(c) PROVE FilesOK'
  BY <1>23 DEF Crash, Goto
<1>24. ASSUME NEW c \in Cmd, Touch(c) PROVE FilesOK'
  BY <1>24 DEF Touch, OwnsLock
<1>25. ASSUME NEW c \in Cmd, Refresh(c) PROVE FilesOK'
  BY <1>25 DEF Refresh
<1>26. ASSUME NEW new \in Config, SaveConfig(new) PROVE FilesOK'
  BY <1>26 DEF SaveConfig
<1>27. ASSUME NEW force \in BOOLEAN, requestServiceRestart(force) PROVE FilesOK'
  <2>1. /\ dash = "saved" /\ dash' = "idle" /\ UNCHANGED <<lock, presence, config, service, result>>
        /\ request' \in {request, [id |-> request.id + 1, digest |-> config, force |-> force]}
    BY <1>27 DEF requestServiceRestart
  <2>2. request.id \in Nat /\ request.id + 1 \in 0 .. MaxRequests
    BY <2>1, Fields, CoordinationAssumption
  <2>3. [id |-> request.id + 1, digest |-> config, force |-> force] \in Request
    BY <2>2 DEF Request
  <2> HIDE DEF Request
  <2> QED
    BY <2>1, <2>3
<1>28. CASE LockAges
  BY <1>28 DEF LockAges
<1>29. CASE PresenceAges
  BY <1>29 DEF PresenceAges
<1>30. CASE UNCHANGED vars
  BY <1>30 DEF vars
<1> HIDE DEF FilesOK, CommandsOK, ApplyOK, TypeInv, Step, Applying, Attached, Leaving,
             Acquiring, lockVars, presenceVars, serviceVars, applyVars, raceVars, acquireFrame,
             beatFrame, leaveFrame, followFrame, dashFrame
<1> QED
  BY <1>1, <1>2, <1>3, <1>4, <1>5, <1>6, <1>7, <1>8, <1>9, <1>10, <1>11, <1>12, <1>13,
     <1>14, <1>15, <1>16, <1>17, <1>18, <1>19, <1>20, <1>21, <1>22, <1>23, <1>24, <1>25,
     <1>26, <1>27, <1>28, <1>29, <1>30, Zenon
   DEF Next, Command, Acquire, Apply

\* Every step keeps the types of the commands.
LEMMA CommandsNext == TypeInv /\ [Next]_vars => CommandsOK'
<1> SUFFICES ASSUME TypeInv, [Next]_vars PROVE CommandsOK'
  OBVIOUS
<1> USE DEF CommandsOK, ApplyOK, TypeInv, Step, Applying, Attached, Leaving, Acquiring,
            lockVars, presenceVars, serviceVars, applyVars, raceVars, acquireFrame, beatFrame,
            leaveFrame, followFrame, dashFrame
<1>1. ASSUME NEW c \in Cmd, StartPresence(c) PROVE CommandsOK'
  BY <1>1 DEF StartPresence, Goto
<1>2. ASSUME NEW c \in Cmd, Create(c) PROVE CommandsOK'
  BY <1>2 DEF Create, Goto
<1>3. ASSUME NEW c \in Cmd, WriteNonce(c) PROVE CommandsOK'
  BY <1>3 DEF WriteNonce, Goto
<1>4. ASSUME NEW c \in Cmd, Inspect(c) PROVE CommandsOK'
  BY <1>4 DEF Inspect, Goto
<1>5. ASSUME NEW c \in Cmd, Stat(c) PROVE CommandsOK'
  <2>1. /\ pc[c] = "stat" /\ UNCHANGED beat
        /\ \/ seen' = seen
           \/ seen' = [seen EXCEPT ![c] = lock]
    BY <1>5 DEF Stat
  <2>2. seen' \in [Cmd -> Cmd \cup {"none", "gone"}]
    <3>1. seen \in [Cmd -> Cmd \cup {"none", "gone"}] /\ lock \in Cmd \cup {"none", "gone"}
      BY Zenon DEF FilesOK
    <3>2. [seen EXCEPT ![c] = lock] \in [Cmd -> Cmd \cup {"none", "gone"}]
      BY <3>1, UpdateTyped, Zenon
    <3> QED
      BY <2>1, <3>1, <3>2, Zenon
  <2>3. CASE Retry(c)
    BY <2>1, <2>2, <2>3 DEF Retry, Goto
  <2>4. CASE ~Retry(c)
    <3>1. pc' \in {[pc EXCEPT ![c] = "exited"], [pc EXCEPT ![c] = "remove"]} /\ attempt' = attempt
      BY <1>5, <2>4 DEF Stat, Goto
    <3> QED
      BY <2>1, <2>2, <3>1
  <2> QED
    BY <2>3, <2>4
<1>6. ASSUME NEW c \in Cmd, Remove(c) PROVE CommandsOK'
  BY <1>6 DEF Remove, RemoveLock, Retry, Goto
<1>7. ASSUME NEW c \in Cmd, Publish(c) PROVE CommandsOK'
  BY <1>7 DEF Publish, Goto
<1>8. ASSUME NEW c \in Cmd, Launch(c) PROVE CommandsOK'
  BY <1>8 DEF Launch, Goto
<1>9. ASSUME NEW c \in Cmd, Follow(c) PROVE CommandsOK'
  BY <1>9 DEF Follow, Goto
<1>10. ASSUME NEW c \in Cmd, Read(c) PROVE CommandsOK'
  BY <1>10 DEF Read, Pending, Goto
<1>11. ASSUME NEW c \in Cmd, LoadSnapshot(c) PROVE CommandsOK'
  BY <1>11 DEF LoadSnapshot, Answer, Goto
<1>12. ASSUME NEW c \in Cmd, Match(c) PROVE CommandsOK'
  BY <1>12 DEF Match, ServiceMatches, Answer, Goto
<1>13. ASSUME NEW c \in Cmd, RestartWithConfig(c) PROVE CommandsOK'
  BY <1>13 DEF RestartWithConfig, Answer, Goto
<1>14. ASSUME NEW c \in Cmd, startWithConfig(c) PROVE CommandsOK'
  BY <1>14 DEF startWithConfig, Answer, Goto
<1>15. ASSUME NEW c \in Cmd, AwaitController(c) PROVE CommandsOK'
  BY <1>15 DEF AwaitController, Answer, Goto
<1>16. ASSUME NEW c \in Cmd, Verify(c) PROVE CommandsOK'
  BY <1>16 DEF Verify, ServiceMatches, Answer, Goto
<1>17. ASSUME NEW c \in Cmd, WriteResult(c) PROVE CommandsOK'
  BY <1>17 DEF WriteResult, Goto
<1>18. ASSUME NEW c \in Cmd, Leave(c) PROVE CommandsOK'
  BY <1>18 DEF Leave, Goto
<1>19. ASSUME NEW c \in Cmd, Unpublish(c) PROVE CommandsOK'
  BY <1>19 DEF Unpublish, Goto
<1>20. ASSUME NEW c \in Cmd, Release(c) PROVE CommandsOK'
  BY <1>20 DEF Release, OwnsLock, Goto
<1>21. ASSUME NEW c \in Cmd, Unlock(c) PROVE CommandsOK'
  BY <1>21 DEF Unlock, RemoveLock, Goto
<1>22. ASSUME NEW c \in Cmd, Interrupt(c) PROVE CommandsOK'
  BY <1>22 DEF Interrupt, Goto
<1>23. ASSUME NEW c \in Cmd, Crash(c) PROVE CommandsOK'
  BY <1>23 DEF Crash, Goto
<1>24. ASSUME NEW c \in Cmd, Touch(c) PROVE CommandsOK'
  BY <1>24 DEF Touch, OwnsLock
<1>25. ASSUME NEW c \in Cmd, Refresh(c) PROVE CommandsOK'
  BY <1>25 DEF Refresh
<1>26. ASSUME NEW new \in Config, SaveConfig(new) PROVE CommandsOK'
  BY <1>26 DEF SaveConfig
<1>27. ASSUME NEW force \in BOOLEAN, requestServiceRestart(force) PROVE CommandsOK'
  BY <1>27 DEF requestServiceRestart
<1>28. CASE LockAges
  BY <1>28 DEF LockAges
<1>29. CASE PresenceAges
  BY <1>29 DEF PresenceAges
<1>30. CASE UNCHANGED vars
  BY <1>30 DEF vars
<1> HIDE DEF CommandsOK, ApplyOK, TypeInv, Step, Applying, Attached, Leaving, Acquiring,
             lockVars, presenceVars, serviceVars, applyVars, raceVars, acquireFrame, beatFrame,
             leaveFrame, followFrame, dashFrame
<1> QED
  BY <1>1, <1>2, <1>3, <1>4, <1>5, <1>6, <1>7, <1>8, <1>9, <1>10, <1>11, <1>12, <1>13,
     <1>14, <1>15, <1>16, <1>17, <1>18, <1>19, <1>20, <1>21, <1>22, <1>23, <1>24, <1>25,
     <1>26, <1>27, <1>28, <1>29, <1>30, Zenon
   DEF Next, Command, Acquire, Apply

\* Every step keeps the types of what is being applied.
LEMMA ApplyNext == TypeInv /\ [Next]_vars => ApplyOK'
<1> SUFFICES ASSUME TypeInv, [Next]_vars PROVE ApplyOK'
  OBVIOUS
<1> USE DEF FilesOK, CommandsOK, ApplyOK, TypeInv, Step, Applying, Attached, Leaving,
            Acquiring, lockVars, presenceVars, serviceVars, applyVars, raceVars, acquireFrame,
            beatFrame, leaveFrame, followFrame, dashFrame
<1>1. ASSUME NEW c \in Cmd, StartPresence(c) PROVE ApplyOK'
  BY <1>1 DEF StartPresence, Goto
<1>2. ASSUME NEW c \in Cmd, Create(c) PROVE ApplyOK'
  BY <1>2 DEF Create, Goto
<1>3. ASSUME NEW c \in Cmd, WriteNonce(c) PROVE ApplyOK'
  BY <1>3 DEF WriteNonce, Goto
<1>4. ASSUME NEW c \in Cmd, Inspect(c) PROVE ApplyOK'
  BY <1>4 DEF Inspect, Goto
<1>5. ASSUME NEW c \in Cmd, Stat(c) PROVE ApplyOK'
  BY <1>5 DEF Stat, Retry, Reclaimable, Goto
<1>6. ASSUME NEW c \in Cmd, Remove(c) PROVE ApplyOK'
  BY <1>6 DEF Remove, RemoveLock, Retry, Goto
<1>7. ASSUME NEW c \in Cmd, Publish(c) PROVE ApplyOK'
  BY <1>7 DEF Publish, Goto
<1>8. ASSUME NEW c \in Cmd, Launch(c) PROVE ApplyOK'
  BY <1>8 DEF Launch, Goto
<1>9. ASSUME NEW c \in Cmd, Follow(c) PROVE ApplyOK'
  BY <1>9 DEF Follow, Goto
<1>10. ASSUME NEW c \in Cmd, Read(c) PROVE ApplyOK'
  BY <1>10 DEF Read, Pending, Goto
<1>11. ASSUME NEW c \in Cmd, LoadSnapshot(c) PROVE ApplyOK'
  <2>1. handled' = handled /\ pc[c] = "load"
    BY <1>11 DEF LoadSnapshot
  <2>2. CASE Answer(c, FALSE, "follow") /\ UNCHANGED loaded
    BY <2>1, <2>2, AnswerTypes
  <2>3. CASE Answer(c, FALSE, "leave") /\ UNCHANGED loaded
    BY <2>1, <2>3, AnswerTypes
  <2>4. CASE /\ loaded' = [loaded EXCEPT ![c] = config] /\ UNCHANGED answer
             /\ Goto(c, IF handled[c].force THEN "restart" ELSE "match")
    <3>1. pc' \in {[pc EXCEPT ![c] = "restart"], [pc EXCEPT ![c] = "match"]}
      BY <2>4 DEF Goto
    <3> QED
      BY <2>1, <2>4, <3>1
  <2> QED
    BY <1>11, <2>2, <2>3, <2>4, Zenon DEF LoadSnapshot
<1>12. ASSUME NEW c \in Cmd, Match(c) PROVE ApplyOK'
  <2>1. UNCHANGED <<handled, loaded>> /\ pc[c] = "match" /\ loaded[c] \in Config
    BY <1>12 DEF Match
  <2>2. CASE Answer(c, TRUE, "follow")
    BY <2>1, <2>2, AnswerTypes
  <2>3. CASE Goto(c, "restart") /\ UNCHANGED answer
    BY <2>1, <2>3 DEF Goto
  <2> QED
    BY <1>12, <2>2, <2>3, Zenon DEF Match
<1>13. ASSUME NEW c \in Cmd, RestartWithConfig(c) PROVE ApplyOK'
  <2>1. UNCHANGED <<handled, loaded>> /\ pc[c] = "restart"
    BY <1>13 DEF RestartWithConfig
  <2>2. CASE Answer(c, FALSE, "leave")
    BY <2>1, <2>2, AnswerTypes
  <2>3. CASE ~Answer(c, FALSE, "leave")
    <3>1. answer' = answer /\ pc' = [pc EXCEPT ![c] = "start"]
      BY <1>13, <2>3, Zenon DEF RestartWithConfig, Goto
    <3> QED
      BY <2>1, <3>1
  <2> QED
    BY <2>2, <2>3
<1>14. ASSUME NEW c \in Cmd, startWithConfig(c) PROVE ApplyOK'
  <2>1. UNCHANGED <<handled, loaded>> /\ pc[c] = "start"
    BY <1>14 DEF startWithConfig
  <2>2. CASE Answer(c, FALSE, "leave")
    BY <2>1, <2>2, AnswerTypes
  <2>3. CASE ~Answer(c, FALSE, "leave")
    <3>1. answer' = answer /\ pc' = [pc EXCEPT ![c] = "await"]
      BY <1>14, <2>3, Zenon DEF startWithConfig, Goto
    <3> QED
      BY <2>1, <3>1
  <2> QED
    BY <2>2, <2>3
<1>15. ASSUME NEW c \in Cmd, AwaitController(c) PROVE ApplyOK'
  <2>1. UNCHANGED <<handled, loaded>> /\ pc[c] = "await"
    BY <1>15 DEF AwaitController
  <2>2. CASE Answer(c, FALSE, "leave")
    BY <2>1, <2>2, AnswerTypes
  <2>3. CASE ~Answer(c, FALSE, "leave")
    <3>1. answer' = answer /\ pc' = [pc EXCEPT ![c] = "verify"]
      BY <1>15, <2>3, Zenon DEF AwaitController, Goto
    <3> QED
      BY <2>1, <3>1
  <2> QED
    BY <2>2, <2>3
<1>16. ASSUME NEW c \in Cmd, Verify(c) PROVE ApplyOK'
  <2>1. UNCHANGED <<handled, loaded>> /\ pc[c] = "verify" /\ loaded[c] \in Config
    BY <1>16 DEF Verify
  <2>2. CASE Answer(c, TRUE, "follow")
    BY <2>1, <2>2, AnswerTypes
  <2>3. CASE Answer(c, FALSE, "leave")
    BY <2>1, <2>3, AnswerTypes
  <2> QED
    BY <1>16, <2>2, <2>3, Zenon DEF Verify
<1>17. ASSUME NEW c \in Cmd, WriteResult(c) PROVE ApplyOK'
  <2>1. /\ pc[c] = "answer" /\ pc' \in {[pc EXCEPT ![c] = "leave"], [pc EXCEPT ![c] = answer[c].next]}
        /\ handled' = [handled EXCEPT ![c] = NoRequest]
        /\ loaded' = [loaded EXCEPT ![c] = "none"] /\ answer' = [answer EXCEPT ![c] = NoAnswer]
    BY <1>17 DEF WriteResult, Goto
  <2> QED
    BY <2>1, EmptyTypes
<1>18. ASSUME NEW c \in Cmd, Leave(c) PROVE ApplyOK'
  BY <1>18 DEF Leave, Goto
<1>19. ASSUME NEW c \in Cmd, Unpublish(c) PROVE ApplyOK'
  BY <1>19 DEF Unpublish, Goto
<1>20. ASSUME NEW c \in Cmd, Release(c) PROVE ApplyOK'
  BY <1>20 DEF Release, OwnsLock, Goto
<1>21. ASSUME NEW c \in Cmd, Unlock(c) PROVE ApplyOK'
  BY <1>21 DEF Unlock, RemoveLock, Goto
<1>22. ASSUME NEW c \in Cmd, Interrupt(c) PROVE ApplyOK'
  BY <1>22 DEF Interrupt, Goto
<1>23. ASSUME NEW c \in Cmd, Crash(c) PROVE ApplyOK'
  <2>1. /\ pc' = [pc EXCEPT ![c] = "exited"] /\ handled' = [handled EXCEPT ![c] = NoRequest]
        /\ loaded' = [loaded EXCEPT ![c] = "none"] /\ answer' = [answer EXCEPT ![c] = NoAnswer]
    BY <1>23 DEF Crash, Goto
  <2> QED
    BY <2>1, EmptyTypes
<1>24. ASSUME NEW c \in Cmd, Touch(c) PROVE ApplyOK'
  BY <1>24 DEF Touch, OwnsLock
<1>25. ASSUME NEW c \in Cmd, Refresh(c) PROVE ApplyOK'
  BY <1>25 DEF Refresh
<1>26. ASSUME NEW new \in Config, SaveConfig(new) PROVE ApplyOK'
  BY <1>26 DEF SaveConfig
<1>27. ASSUME NEW force \in BOOLEAN, requestServiceRestart(force) PROVE ApplyOK'
  BY <1>27 DEF requestServiceRestart
<1>28. CASE LockAges
  BY <1>28 DEF LockAges
<1>29. CASE PresenceAges
  BY <1>29 DEF PresenceAges
<1>30. CASE UNCHANGED vars
  BY <1>30 DEF vars
<1> HIDE DEF FilesOK, CommandsOK, ApplyOK, TypeInv, Step, Applying, Attached, Leaving,
             Acquiring, lockVars, presenceVars, serviceVars, applyVars, raceVars, acquireFrame,
             beatFrame, leaveFrame, followFrame, dashFrame
<1> QED
  BY <1>1, <1>2, <1>3, <1>4, <1>5, <1>6, <1>7, <1>8, <1>9, <1>10, <1>11, <1>12, <1>13,
     <1>14, <1>15, <1>16, <1>17, <1>18, <1>19, <1>20, <1>21, <1>22, <1>23, <1>24, <1>25,
     <1>26, <1>27, <1>28, <1>29, <1>30, Zenon
   DEF Next, Command, Acquire, Apply

\* Every step preserves LockInv, unless a live command lets its lock get stale.
LEMMA LockInvNext == Timely /\ TypeInv /\ LockInv /\ [Next]_vars => LockInv'
<1> SUFFICES ASSUME Timely, TypeInv, LockInv, [Next]_vars PROVE LockInv'
  OBVIOUS
<1> USE CoordinationAssumption
<1> USE DEF LockInv, Holding, TypeInv, FilesOK, CommandsOK, Step, Alive, Applying,
            Attached, Leaving, Acquiring, lockVars, presenceVars, serviceVars,
            applyVars, raceVars, acquireFrame, beatFrame, leaveFrame, followFrame, dashFrame
<1>1. ASSUME NEW c \in Cmd, StartPresence(c) PROVE LockInv'
  BY <1>1 DEF StartPresence, Goto
<1>2. ASSUME NEW c \in Cmd, Create(c) PROVE LockInv'
  BY <1>2 DEF Create, Goto
<1>3. ASSUME NEW c \in Cmd, WriteNonce(c) PROVE LockInv'
  BY <1>3 DEF WriteNonce, Goto
<1>4. ASSUME NEW c \in Cmd, Inspect(c) PROVE LockInv'
  BY <1>4 DEF Inspect, Goto
<1>5. ASSUME NEW c \in Cmd, Stat(c) PROVE LockInv'
  BY <1>5 DEF Stat, Retry, Reclaimable, Goto
<1>6. ASSUME NEW c \in Cmd, Remove(c) PROVE LockInv'
  <2> SUFFICES ASSUME ~raced' PROVE LockInv'
    BY DEF LockInv
  <2>1. /\ pc[c] = "remove" /\ lock' = "none" /\ ~raced /\ lock \in {"none", seen[c]}
        /\ seen' = [seen EXCEPT ![c] = "none"]
    BY <1>6, Zenon DEF Remove, RemoveLock
  <2>2. PICK step \in {"create", "exited"} : pc' = [pc EXCEPT ![c] = step]
    BY <1>6 DEF Remove, Retry, Goto
  <2>3. \A d \in Cmd : pc[d] \notin Holding
    BY <2>1
  <2> QED
    BY <2>1, <2>2, <2>3
<1>7. ASSUME NEW c \in Cmd, Publish(c) PROVE LockInv'
  BY <1>7 DEF Publish, Goto
<1>8. ASSUME NEW c \in Cmd, Launch(c) PROVE LockInv'
  BY <1>8 DEF Launch, Goto
<1>9. ASSUME NEW c \in Cmd, Follow(c) PROVE LockInv'
  BY <1>9 DEF Follow, Goto
<1>10. ASSUME NEW c \in Cmd, Read(c) PROVE LockInv'
  BY <1>10 DEF Read, Pending, Goto
<1>11. ASSUME NEW c \in Cmd, LoadSnapshot(c) PROVE LockInv'
  BY <1>11 DEF LoadSnapshot, Answer, Goto
<1>12. ASSUME NEW c \in Cmd, Match(c) PROVE LockInv'
  BY <1>12 DEF Match, ServiceMatches, Answer, Goto
<1>13. ASSUME NEW c \in Cmd, RestartWithConfig(c) PROVE LockInv'
  BY <1>13 DEF RestartWithConfig, Answer, Goto
<1>14. ASSUME NEW c \in Cmd, startWithConfig(c) PROVE LockInv'
  BY <1>14 DEF startWithConfig, Answer, Goto
<1>15. ASSUME NEW c \in Cmd, AwaitController(c) PROVE LockInv'
  BY <1>15 DEF AwaitController, Answer, Goto
<1>16. ASSUME NEW c \in Cmd, Verify(c) PROVE LockInv'
  BY <1>16 DEF Verify, ServiceMatches, Answer, Goto
<1>17. ASSUME NEW c \in Cmd, WriteResult(c) PROVE LockInv'
  <2>1. /\ pc[c] = "answer" /\ answer[c].next \in {"follow", "leave"}
        /\ pc' \in {[pc EXCEPT ![c] = "leave"], [pc EXCEPT ![c] = answer[c].next]}
        /\ UNCHANGED <<lockVars, raceVars>>
    BY <1>17 DEF WriteResult, Goto, ApplyOK
  <2> QED
    BY <2>1
<1>18. ASSUME NEW c \in Cmd, Leave(c) PROVE LockInv'
  BY <1>18 DEF Leave, Goto
<1>19. ASSUME NEW c \in Cmd, Unpublish(c) PROVE LockInv'
  BY <1>19 DEF Unpublish, Goto
<1>20. ASSUME NEW c \in Cmd, Release(c) PROVE LockInv'
  BY <1>20 DEF Release, OwnsLock, Goto
<1>21. ASSUME NEW c \in Cmd, Unlock(c) PROVE LockInv'
  BY <1>21 DEF Unlock, RemoveLock, Goto
<1>22. ASSUME NEW c \in Cmd, Interrupt(c) PROVE LockInv'
  BY <1>22 DEF Interrupt, Goto
<1>23. ASSUME NEW c \in Cmd, Crash(c) PROVE LockInv'
  BY <1>23 DEF Crash, Goto
<1>24. ASSUME NEW c \in Cmd, Touch(c) PROVE LockInv'
  BY <1>24 DEF Touch, OwnsLock
<1>25. ASSUME NEW c \in Cmd, Refresh(c) PROVE LockInv'
  BY <1>25 DEF Refresh
<1>26. ASSUME NEW new \in Config, SaveConfig(new) PROVE LockInv'
  BY <1>26 DEF SaveConfig
<1>27. ASSUME NEW force \in BOOLEAN, requestServiceRestart(force) PROVE LockInv'
  BY <1>27 DEF requestServiceRestart
<1>28. CASE LockAges
  BY <1>28 DEF LockAges
<1>29. CASE PresenceAges
  BY <1>29 DEF PresenceAges
<1>30. CASE UNCHANGED vars
  BY <1>30 DEF vars
<1> HIDE DEF LockInv, Holding, TypeInv, FilesOK, CommandsOK, Step, Alive, Applying,
             Attached, Leaving, Acquiring, lockVars, presenceVars, serviceVars,
             applyVars, raceVars, acquireFrame, beatFrame, leaveFrame, followFrame, dashFrame
<1> QED
  BY <1>1, <1>2, <1>3, <1>4, <1>5, <1>6, <1>7, <1>8, <1>9, <1>10, <1>11, <1>12, <1>13,
     <1>14, <1>15, <1>16, <1>17, <1>18, <1>19, <1>20, <1>21, <1>22, <1>23, <1>24, <1>25,
     <1>26, <1>27, <1>28, <1>29, <1>30, Zenon
   DEF Next, Command, Acquire, Apply

\* Every step preserves ApplyInv while there is a single handler.
LEMMA ApplyInvNext == TypeInv /\ HandlerIsAlone /\ ApplyInv /\ [Next]_vars => ApplyInv'
<1> SUFFICES ASSUME TypeInv, HandlerIsAlone, ApplyInv, [Next]_vars PROVE ApplyInv'
  OBVIOUS
<1> USE CoordinationAssumption
<1> USE DEF ApplyInv, HandlerIsAlone, TypeInv, FilesOK, CommandsOK, ApplyOK, Step,
            Applying, Attached, Leaving, Acquiring, lockVars, presenceVars, serviceVars,
            applyVars, raceVars, acquireFrame, beatFrame, leaveFrame, followFrame, dashFrame
<1>1. ASSUME NEW c \in Cmd, StartPresence(c) PROVE ApplyInv'
  BY <1>1 DEF StartPresence, Goto
<1>2. ASSUME NEW c \in Cmd, Create(c) PROVE ApplyInv'
  BY <1>2 DEF Create, Goto
<1>3. ASSUME NEW c \in Cmd, WriteNonce(c) PROVE ApplyInv'
  BY <1>3 DEF WriteNonce, Goto
<1>4. ASSUME NEW c \in Cmd, Inspect(c) PROVE ApplyInv'
  BY <1>4 DEF Inspect, Goto
<1>5. ASSUME NEW c \in Cmd, Stat(c) PROVE ApplyInv'
  BY <1>5 DEF Stat, Retry, Reclaimable, Goto
<1>6. ASSUME NEW c \in Cmd, Remove(c) PROVE ApplyInv'
  BY <1>6 DEF Remove, RemoveLock, Retry, Goto
<1>7. ASSUME NEW c \in Cmd, Publish(c) PROVE ApplyInv'
  BY <1>7 DEF Publish, Goto
<1>8. ASSUME NEW c \in Cmd, Launch(c) PROVE ApplyInv'
  BY <1>8 DEF Launch, Goto
<1>9. ASSUME NEW c \in Cmd, Follow(c) PROVE ApplyInv'
  BY <1>9 DEF Follow, Goto
<1>10. ASSUME NEW c \in Cmd, Read(c) PROVE ApplyInv'
  <2>1. result.id \in Nat /\ request.id \in Nat
    BY Fields
  <2>2. UNCHANGED <<service, request, result, answer>>
    BY <1>10 DEF Read
  <2>3. \/ pc' = [pc EXCEPT ![c] = "follow"] /\ handled' = handled
        \/ /\ pc' = [pc EXCEPT ![c] = "load"] /\ result.id # request.id
           /\ handled' = [handled EXCEPT ![c] = request]
    BY <1>10 DEF Read, Pending, Goto
  <2>4. CASE pc' = [pc EXCEPT ![c] = "follow"] /\ handled' = handled
    BY <2>2, <2>4
  <2>5. CASE /\ pc' = [pc EXCEPT ![c] = "load"] /\ result.id # request.id
             /\ handled' = [handled EXCEPT ![c] = request]
    <3>1. /\ handled'[c] = request /\ pc'[c] = "load"
          /\ \A d \in Cmd : d # c => handled'[d] = handled[d] /\ pc'[d] = pc[d]
      BY <2>5
    <3>2. result.id < request.id
      BY <2>1, <2>5
    <3> QED
      BY <2>1, <2>2, <3>1, <3>2
  <2> QED
    BY <2>3, <2>4, <2>5
<1>11. ASSUME NEW c \in Cmd, LoadSnapshot(c) PROVE ApplyInv'
  BY <1>11 DEF LoadSnapshot, Answer, Goto
<1>12. ASSUME NEW c \in Cmd, Match(c) PROVE ApplyInv'
  BY <1>12 DEF Match, ServiceMatches, Answer, Goto
<1>13. ASSUME NEW c \in Cmd, RestartWithConfig(c) PROVE ApplyInv'
  <2>1. /\ UNCHANGED <<handled, request, result>> /\ pc[c] = "restart" /\ pc[c] \in Applying
    BY <1>13 DEF RestartWithConfig
  <2>2. CASE Answer(c, FALSE, "leave")
    BY <2>1, <2>2, AnswerAgrees
  <2>3. CASE ~Answer(c, FALSE, "leave")
    <3>1. answer' = answer /\ pc' = [pc EXCEPT ![c] = "start"]
      BY <1>13, <2>3, Zenon DEF RestartWithConfig, Goto
    <3>2. result.id \in Nat /\ handled[c].id \in Nat /\ request.id \in Nat
      BY Fields
    <3>3. \A d \in Cmd : d # c => pc[d] \notin Applying
      BY <2>1
    <3>4. result.id # request.id
      BY <2>1, <3>2
    <3> QED
      BY <2>1, <3>1, <3>3, <3>4
  <2> QED
    BY <2>2, <2>3
<1>14. ASSUME NEW c \in Cmd, startWithConfig(c) PROVE ApplyInv'
  <2>1. /\ UNCHANGED <<handled, request, result>> /\ pc[c] = "start" /\ pc[c] \in Applying
    BY <1>14 DEF startWithConfig
  <2>2. CASE Answer(c, FALSE, "leave")
    BY <2>1, <2>2, AnswerAgrees
  <2>3. CASE ~Answer(c, FALSE, "leave")
    <3>1. answer' = answer /\ pc' = [pc EXCEPT ![c] = "await"]
      BY <1>14, <2>3, Zenon DEF startWithConfig, Goto
    <3>2. result.id \in Nat /\ handled[c].id \in Nat /\ request.id \in Nat
      BY Fields
    <3>3. \A d \in Cmd : d # c => pc[d] \notin Applying
      BY <2>1
    <3>4. result.id # request.id
      BY <2>1, <3>2
    <3> QED
      BY <2>1, <3>1, <3>3, <3>4
  <2> QED
    BY <2>2, <2>3
<1>15. ASSUME NEW c \in Cmd, AwaitController(c) PROVE ApplyInv'
  BY <1>15 DEF AwaitController, Answer, Goto
<1>16. ASSUME NEW c \in Cmd, Verify(c) PROVE ApplyInv'
  BY <1>16 DEF Verify, ServiceMatches, Answer, Goto
<1>17. ASSUME NEW c \in Cmd, WriteResult(c) PROVE ApplyInv'
  BY <1>17 DEF WriteResult, Goto
<1>18. ASSUME NEW c \in Cmd, Leave(c) PROVE ApplyInv'
  BY <1>18 DEF Leave, Goto
<1>19. ASSUME NEW c \in Cmd, Unpublish(c) PROVE ApplyInv'
  BY <1>19 DEF Unpublish, Goto
<1>20. ASSUME NEW c \in Cmd, Release(c) PROVE ApplyInv'
  BY <1>20 DEF Release, OwnsLock, Goto
<1>21. ASSUME NEW c \in Cmd, Unlock(c) PROVE ApplyInv'
  BY <1>21 DEF Unlock, RemoveLock, Goto
<1>22. ASSUME NEW c \in Cmd, Interrupt(c) PROVE ApplyInv'
  BY <1>22 DEF Interrupt, Goto
<1>23. ASSUME NEW c \in Cmd, Crash(c) PROVE ApplyInv'
  BY <1>23 DEF Crash, Goto
<1>24. ASSUME NEW c \in Cmd, Touch(c) PROVE ApplyInv'
  BY <1>24 DEF Touch, OwnsLock
<1>25. ASSUME NEW c \in Cmd, Refresh(c) PROVE ApplyInv'
  BY <1>25 DEF Refresh
<1>26. ASSUME NEW new \in Config, SaveConfig(new) PROVE ApplyInv'
  BY <1>26 DEF SaveConfig
<1>27. ASSUME NEW force \in BOOLEAN, requestServiceRestart(force) PROVE ApplyInv'
  <2>1. result.id \in Nat /\ request.id \in Nat /\ \A c \in Cmd : handled[c].id \in Nat
    BY Fields
  <2>2. UNCHANGED <<result, pc, handled, answer, service>> /\ (request' = request \/ request'.id = request.id + 1)
    BY <1>27 DEF requestServiceRestart
  <2> QED
    BY <2>1, <2>2
<1>28. CASE LockAges
  BY <1>28 DEF LockAges
<1>29. CASE PresenceAges
  BY <1>29 DEF PresenceAges
<1>30. CASE UNCHANGED vars
  BY <1>30 DEF vars
<1> HIDE DEF ApplyInv, HandlerIsAlone, TypeInv, FilesOK, CommandsOK, ApplyOK, Step,
             Applying, Attached, Leaving, Acquiring, lockVars, presenceVars,
             serviceVars, applyVars, raceVars, acquireFrame, beatFrame, leaveFrame, followFrame,
             dashFrame
<1> QED
  BY <1>1, <1>2, <1>3, <1>4, <1>5, <1>6, <1>7, <1>8, <1>9, <1>10, <1>11, <1>12, <1>13,
     <1>14, <1>15, <1>16, <1>17, <1>18, <1>19, <1>20, <1>21, <1>22, <1>23, <1>24, <1>25,
     <1>26, <1>27, <1>28, <1>29, <1>30, Zenon
   DEF Next, Command, Acquire, Apply

-----------------------------------------------------------------------------
(* Theorems                                                                *)

\* Every step preserves TypeInv.
LEMMA TypeInvNext == TypeInv /\ [Next]_vars => TypeInv'
  BY BoolsNext, FilesNext, CommandsNext, ApplyNext DEF TypeInv

\* Of two holders of the lock, one is the other.
LEMMA LockGivesSingleHandler == LockInv => SingleHandler
  BY DEF LockInv, SingleHandler, HandlerIsAlone, Holding, Attached

\* A wrong removal is not forgotten.
LEMMA RacedStays == raced /\ [Next]_vars => raced'
  BY Zenon
   DEF Next, Command, Acquire, Apply, vars, lockVars, presenceVars, serviceVars,
       applyVars, raceVars, acquireFrame, beatFrame, leaveFrame, followFrame, dashFrame,
       StartPresence, Create, WriteNonce, Inspect, Stat, Remove, Publish, Launch,
       Follow, Read, LoadSnapshot, Match, RestartWithConfig, startWithConfig,
       AwaitController, Verify, WriteResult, Leave, Unpublish, Release, Unlock, Interrupt,
       Crash, Touch, Refresh, SaveConfig, requestServiceRestart, LockAges, PresenceAges

\* What is kept of requests and results as long as no lock was removed wrongly.
RequestInv == ~raced => ApplyInv

\* Every step preserves RequestInv.
LEMMA RequestInvNext == TypeInv /\ LockInv /\ RequestInv /\ [Next]_vars => RequestInv'
  BY ApplyInvNext, LockGivesSingleHandler, RacedStays DEF RequestInv, SingleHandler

\* The initial states satisfy the invariants.
LEMMA InvariantsInit == Init => TypeInv /\ LockInv /\ ApplyInv
<1> SUFFICES ASSUME Init PROVE TypeInv /\ LockInv /\ ApplyInv
  OBVIOUS
<1>1. Bools
  BY Zenon DEF Init, Bools
<1>2. FilesOK
  BY EmptyTypes DEF Init, FilesOK
<1>3. CommandsOK
  BY DEF Init, CommandsOK, Step
<1>4. ApplyOK
  BY EmptyTypes DEF Init, ApplyOK, Applying
<1>5. LockInv
  BY CoordinationAssumption DEF Init, LockInv, Holding, Attached, Applying, Leaving
<1>6. ApplyInv
  BY DEF Init, ApplyInv, NoRequest, NoResult, Applying
<1> QED
  BY <1>1, <1>2, <1>3, <1>4, <1>5, <1>6 DEF TypeInv

\* In every behaviour the files and the commands have their types, and only a
\* live command has a heartbeat goroutine (cmd/runner.go and
\* internal/servicecoordination).
THEOREM TypeCorrect == Spec => []TypeOK
<1>1. Init => TypeInv
  BY InvariantsInit
<1>2. TypeInv /\ [Next]_vars => TypeInv'
  BY TypeInvNext
<1>3. TypeInv => TypeOK
  <2> SUFFICES ASSUME TypeInv PROVE TypeOK
    OBVIOUS
  <2>1. result.id \in 0 .. MaxRequests /\ result.success \in BOOLEAN /\ result.applied \in Nat
    BY DEF TypeInv, FilesOK, Result
  <2>2. \A c \in Cmd : beat[c] # "off" => Alive(c)
    BY DEF TypeInv, CommandsOK, Alive, Leaving
  <2> QED
    BY <2>1, <2>2, Zenon
     DEF TypeInv, Bools, FilesOK, CommandsOK, ApplyOK, Request, Step, TypeOK
<1> QED
  BY <1>1, <1>2, <1>3, PTL DEF Spec

\* If a live command refreshes its lock in time, at most one command applies
\* restart requests, whoever crashes and whoever takes over, until a command has
\* removed the lock of one that took over first (servicecoordination.go:
\* acquireCoordinator, CoordinatorOwned).
THEOREM OneHandler ==
    ASSUME Timely
    PROVE  Spec => []SingleHandler
<1>1. Init => TypeInv /\ LockInv
  BY InvariantsInit
<1>2. TypeInv /\ LockInv /\ [Next]_vars => (TypeInv /\ LockInv)'
  BY TypeInvNext, LockInvNext
<1>3. LockInv => SingleHandler
  BY LockGivesSingleHandler
<1> QED
  BY <1>1, <1>2, <1>3, PTL DEF Spec

\* The invariants hold together in every behaviour.
LEMMA InvariantsHold ==
    ASSUME Timely
    PROVE  Spec => [](TypeInv /\ LockInv /\ RequestInv)
<1>1. Init => TypeInv /\ LockInv /\ RequestInv
  BY InvariantsInit DEF RequestInv
<1>2. TypeInv /\ LockInv /\ RequestInv /\ [Next]_vars => (TypeInv /\ LockInv /\ RequestInv)'
  BY TypeInvNext, LockInvNext, RequestInvNext
<1> QED
  BY <1>1, <1>2, PTL DEF Spec

\* Under the same condition and up to the same removal the dashboard reports a restart for the saved
\* configuration only while the service runs with that configuration's
\* fingerprint (dashboard/server.go: serviceRestartResultApplied;
\* cmd/runner.go: applyServiceRestartRequest).
THEOREM AppliedTrue ==
    ASSUME Timely
    PROVE  Spec => []AppliedIsTrue
<1>1. RequestInv => AppliedIsTrue
  BY DEF RequestInv, ApplyInv, AppliedIsTrue, serviceRestartResultApplied
<1> QED
  BY <1>1, InvariantsHold, PTL

\* Under the same condition and up to the same removal every new result answers a later request than the
\* one before: no request is answered twice, also not by a command that takes
\* over (cmd/runner.go: followAttachedService).
THEOREM AnswersGoForward ==
    ASSUME Timely
    PROVE  Spec => AnsweredOnce
<1>1. TypeInv /\ RequestInv /\ [Next]_vars =>
         [~raced /\ result' # result => result'.id > result.id]_vars
  <2> SUFFICES ASSUME ApplyInv, [Next]_vars, result' # result
               PROVE  result'.id > result.id
    BY DEF RequestInv
  <2>1. \E c \in Cmd : WriteResult(c)
    BY Zenon
     DEF Next, Command, Acquire, Apply, vars, lockVars, presenceVars, serviceVars,
         applyVars, raceVars, acquireFrame, beatFrame, leaveFrame, followFrame, dashFrame,
         StartPresence, Create, WriteNonce, Inspect, Stat, Remove, Publish, Launch,
         Follow, Read, LoadSnapshot, Match, RestartWithConfig, startWithConfig,
         AwaitController, Verify, Leave, Unpublish, Release, Unlock, Interrupt, Crash,
         Touch, Refresh, SaveConfig, requestServiceRestart, LockAges, PresenceAges
  <2>2. PICK c \in Cmd : WriteResult(c)
    BY <2>1
  <2>3. pc[c] = "answer" /\ result' = answer[c].result
    BY <2>2 DEF WriteResult
  <2> QED
    BY <2>3 DEF ApplyInv, Applying
<1> QED
  BY <1>1, InvariantsHold, PTL DEF Spec, AnsweredOnce
=============================================================================
