--------------------------- MODULE ApiServerProofs --------------------------
(***************************************************************************)
(* The API server serialises generations and delivers cancel requests to   *)
(* the generation they name, for any number of connections and any length  *)
(* of a generation.                                                        *)
(***************************************************************************)
EXTENDS ApiServerProps, TLAPS

(* Where a connection stands after its request was read and before.        *)
Before == {"unborn", "accepted", "refused", "opened", "recv"}
After  == {"record", "close", "gone"}

(* The listener is gone once api_server_stop() has returned, and the       *)
(* server only runs after it was started.                                  *)
Stopped ==
  /\ main \in {"free", "return", "exited"} => listener \in {"unborn", "exited"}
  /\ main = "start" => listener = "unborn"

(* A generation that a cancel request has matched is over, or about to see *)
(* the request at its next check.                                          *)
Matched ==
  \A c \in Conns :
    /\ late[c] <= emitted[c]
    /\ late[c] <= 1
    /\ late[c] = 1 => pc[c] # "generate"
    /\ late[c] >= 0 =>
         pc[c] \in Generating \cup {"respond", "unlock"} \cup After
    /\ late[c] >= 0 /\ pc[c] \in {"generate", "check"} => reg.requested

(* The client that sent the request is past cancel_registry_request().     *)
Asked(c) == \E d \in Conns : target[d] = c /\ pc[d] \in After \cup {"count"}

MatchedIsAsked == \A c \in Conns : late[c] >= 0 => Asked(c)
HitIsAsked     == \A c \in Conns : ended[c] = "cancelled" => Asked(c)

(* The client of a cancel request gets its 200 only by way of a match.     *)
Confirming ==
  \A d \in Conns :
    /\ target[d] # None => pc[d] \in {"cancel", "count"} \cup After
    /\ pc[d] \in {"cancel", "count"} => target[d] \in Conns
    /\ pc[d] \in Before \cup {"cancel"} => answer[d] # 200
    /\ pc[d] = "count" => late[target[d]] >= 0

IInv ==
  /\ TypeOK /\ Stopped
  /\ GenerationExclusive /\ RegistryFollowsGeneration
  /\ Matched /\ MatchedIsAsked /\ Confirming
  /\ HitIsAsked /\ CancelConfirmed

-----------------------------------------------------------------------------
(* Types and the shutdown.                                                 *)

Metrics == [active : Int, ok : Nat, bad : Nat, err : Nat, tokens : Nat,
            cancelled : Nat]

Registry == [id : Conns \cup {None}, active : BOOLEAN, requested : BOOLEAN]

(* metrics_record_request() only counts up.                                *)
LEMMA RecordTyped ==
  ASSUME metrics \in Metrics, NEW status \in Statuses
  PROVE  RecordRequest(status) \in Metrics
BY DEF RecordRequest, Metrics, Statuses

LEMMA TypingStep ==
  ASSUME TypeOK, Matched, [Next]_vars
  PROVE  TypeOK'
<1> USE TypeOK, ConnsAssumption, TokensAssumption
    DEF TypeOK, PcStates, Holding, Generating, MainStates, Statuses, Goto,
        Send, MainGoto, proc, front, hist, UnchangedByMain,
        NoReg, Alive, Registry
<1>1. ASSUME NEW c \in Conns, Accept(c) PROVE TypeOK'
  BY <1>1 DEF Accept
<1>2. ASSUME NEW c \in Conns, Spawn(c) PROVE TypeOK'
  BY <1>2 DEF Spawn
<1>3. ASSUME NEW c \in Conns, ConnectionOpened(c) PROVE TypeOK'
  BY <1>3 DEF ConnectionOpened
<1>4. ASSUME NEW c \in Conns, ReceiveUncounted(c) PROVE TypeOK'
  BY <1>4 DEF ReceiveUncounted
<1>5. ASSUME NEW c \in Conns, ReceivePlain(c) PROVE TypeOK'
  <2>1. PICK status \in {200, 401, 404} :
          Send(c, status) /\ metrics' = RecordRequest(status)
    BY <1>5 DEF ReceivePlain
  <2>2. metrics' \in Metrics
    <3>1. metrics \in Metrics /\ status \in Statuses
      BY DEF Metrics
    <3>2. QED
      BY <2>1, <3>1, RecordTyped
  <2>3. QED
    BY <1>5, <2>1, <2>2 DEF ReceivePlain, Metrics
<1>6. ASSUME NEW c \in Conns, ReceiveChat(c) PROVE TypeOK'
  BY <1>6 DEF ReceiveChat
<1>7. ASSUME NEW c \in Conns, ReceiveCancel(c) PROVE TypeOK'
  BY <1>7 DEF ReceiveCancel
<1>8. ASSUME NEW c \in Conns, Record(c) PROVE TypeOK'
  <2>1. metrics' \in Metrics
    <3>1. metrics \in Metrics /\ 200 \in Statuses
      BY DEF Metrics
    <3>2. metrics' = RecordRequest(200)
      BY <1>8 DEF Record
    <3>3. QED
      BY <3>1, <3>2, RecordTyped
  <2>2. QED
    BY <1>8, <2>1 DEF Record, Metrics
<1>9. ASSUME NEW c \in Conns, ConnectionClosed(c) PROVE TypeOK'
  BY <1>9 DEF ConnectionClosed
<1>10. ASSUME NEW c \in Conns, TryLock(c) PROVE TypeOK'
  BY <1>10 DEF TryLock
<1>11. ASSUME NEW c \in Conns, RejectUnlock(c) PROVE TypeOK'
  BY <1>11 DEF RejectUnlock
<1>12. ASSUME NEW c \in Conns, RejectSend(c) PROVE TypeOK'
  BY <1>12 DEF RejectSend
<1>13. ASSUME NEW c \in Conns, Begin(c) PROVE TypeOK'
  BY <1>13 DEF Begin
<1>14. ASSUME NEW c \in Conns, CheckCancel(c) PROVE TypeOK'
  BY <1>14 DEF CheckCancel
<1>15. ASSUME NEW c \in Conns, End(c) PROVE TypeOK'
  BY <1>15 DEF End
<1>16. ASSUME NEW c \in Conns, Respond(c) PROVE TypeOK'
  BY <1>16 DEF Respond
<1>17. ASSUME NEW c \in Conns, Unlock(c) PROVE TypeOK'
  BY <1>17 DEF Unlock
<1>18. ASSUME NEW c \in Conns, Cancel(c) PROVE TypeOK'
  <2>1. late' \in [Conns -> -1 .. MaxTokens]
    BY <1>18 DEF Cancel
  <2>2. reg' \in Registry
    <3>1. CASE UNCHANGED reg
      BY <3>1
    <3>2. CASE reg' = [reg EXCEPT !.requested = TRUE]
      BY <3>2
    <3>3. QED
      BY <1>18, <3>1, <3>2 DEF Cancel
  <2>3. QED
    BY <1>18, <2>1, <2>2 DEF Cancel
<1>19. ASSUME NEW c \in Conns, CancelMatched(c) PROVE TypeOK'
  BY <1>19 DEF CancelMatched
<1>20. ASSUME NEW c \in Conns, EmitToken(c) PROVE TypeOK'
  BY <1>20 DEF EmitToken, Matched
<1>21. ASSUME NEW c \in Conns, GenerationEnds(c) PROVE TypeOK'
  BY <1>21 DEF GenerationEnds
<1>22. ASSUME CheckRunning PROVE TypeOK'
  BY <1>22 DEF CheckRunning
<1>23. ASSUME AcceptFails PROVE TypeOK'
  BY <1>23 DEF AcceptFails
<1>24. ASSUME StartServer PROVE TypeOK'
  <2>1. running' \in BOOLEAN
    BY <1>24, Zenon DEF StartServer
  <2>2. QED
    BY <1>24, <2>1 DEF StartServer
<1>25. ASSUME TestFlag PROVE TypeOK'
  BY <1>25 DEF TestFlag
<1>26. ASSUME Pause PROVE TypeOK'
  BY <1>26 DEF Pause
<1>27. ASSUME Signal PROVE TypeOK'
  BY <1>27 DEF Signal
<1>28. ASSUME StopRunning PROVE TypeOK'
  <2>1. running' \in BOOLEAN
    BY <1>28, Zenon DEF StopRunning
  <2>2. QED
    BY <1>28, <2>1 DEF StopRunning
<1>29. ASSUME ShutdownSocket PROVE TypeOK'
  BY <1>29 DEF ShutdownSocket
<1>30. ASSUME CloseSocket PROVE TypeOK'
  BY <1>30 DEF CloseSocket
<1>31. ASSUME JoinListener PROVE TypeOK'
  BY <1>31 DEF JoinListener
<1>32. ASSUME FreeModel PROVE TypeOK'
  BY <1>32 DEF FreeModel
<1>33. ASSUME Exit PROVE TypeOK'
  BY <1>33 DEF Exit
<1>34. ASSUME UNCHANGED vars PROVE TypeOK'
  BY <1>34 DEF vars
<1>35. QED
  BY <1>1, <1>2, <1>3, <1>4, <1>5, <1>6, <1>7, <1>8, <1>9, <1>10, <1>11,
     <1>12, <1>13, <1>14, <1>15, <1>16, <1>17, <1>18, <1>19, <1>20, <1>21,
     <1>22, <1>23, <1>24, <1>25, <1>26, <1>27, <1>28, <1>29, <1>30, <1>31,
     <1>32, <1>33, <1>34
  DEF Next, MainStep, ListenerStep, ConnStep, GenerateStep

LEMMA StoppedStep ==
  ASSUME Stopped, [Next]_vars
  PROVE  Stopped'
<1> USE DEF Stopped, Goto, MainGoto, proc, front, hist, UnchangedByMain, Alive
<1>1. ASSUME NEW c \in Conns, Accept(c) PROVE Stopped'
  BY <1>1 DEF Accept
<1>2. ASSUME NEW c \in Conns, Spawn(c) PROVE Stopped'
  BY <1>2 DEF Spawn
<1>3. ASSUME NEW c \in Conns, ConnectionOpened(c) PROVE Stopped'
  BY <1>3 DEF ConnectionOpened
<1>4. ASSUME NEW c \in Conns, ReceiveUncounted(c) PROVE Stopped'
  BY <1>4 DEF ReceiveUncounted
<1>5. ASSUME NEW c \in Conns, ReceivePlain(c) PROVE Stopped'
  BY <1>5 DEF ReceivePlain
<1>6. ASSUME NEW c \in Conns, ReceiveChat(c) PROVE Stopped'
  BY <1>6 DEF ReceiveChat
<1>7. ASSUME NEW c \in Conns, ReceiveCancel(c) PROVE Stopped'
  BY <1>7 DEF ReceiveCancel
<1>8. ASSUME NEW c \in Conns, Record(c) PROVE Stopped'
  BY <1>8 DEF Record
<1>9. ASSUME NEW c \in Conns, ConnectionClosed(c) PROVE Stopped'
  BY <1>9 DEF ConnectionClosed
<1>10. ASSUME NEW c \in Conns, TryLock(c) PROVE Stopped'
  BY <1>10 DEF TryLock
<1>11. ASSUME NEW c \in Conns, RejectUnlock(c) PROVE Stopped'
  BY <1>11 DEF RejectUnlock
<1>12. ASSUME NEW c \in Conns, RejectSend(c) PROVE Stopped'
  BY <1>12 DEF RejectSend
<1>13. ASSUME NEW c \in Conns, Begin(c) PROVE Stopped'
  BY <1>13 DEF Begin
<1>14. ASSUME NEW c \in Conns, CheckCancel(c) PROVE Stopped'
  BY <1>14 DEF CheckCancel
<1>15. ASSUME NEW c \in Conns, End(c) PROVE Stopped'
  BY <1>15 DEF End
<1>16. ASSUME NEW c \in Conns, Respond(c) PROVE Stopped'
  BY <1>16 DEF Respond
<1>17. ASSUME NEW c \in Conns, Unlock(c) PROVE Stopped'
  BY <1>17 DEF Unlock
<1>18. ASSUME NEW c \in Conns, Cancel(c) PROVE Stopped'
  BY <1>18 DEF Cancel
<1>19. ASSUME NEW c \in Conns, CancelMatched(c) PROVE Stopped'
  BY <1>19 DEF CancelMatched
<1>20. ASSUME NEW c \in Conns, EmitToken(c) PROVE Stopped'
  BY <1>20 DEF EmitToken
<1>21. ASSUME NEW c \in Conns, GenerationEnds(c) PROVE Stopped'
  BY <1>21 DEF GenerationEnds
<1>22. ASSUME CheckRunning PROVE Stopped'
  BY <1>22 DEF CheckRunning
<1>23. ASSUME AcceptFails PROVE Stopped'
  BY <1>23 DEF AcceptFails
<1>24. ASSUME StartServer PROVE Stopped'
  BY <1>24 DEF StartServer
<1>25. ASSUME TestFlag PROVE Stopped'
  BY <1>25 DEF TestFlag
<1>26. ASSUME Pause PROVE Stopped'
  BY <1>26 DEF Pause
<1>27. ASSUME Signal PROVE Stopped'
  BY <1>27 DEF Signal
<1>28. ASSUME StopRunning PROVE Stopped'
  BY <1>28 DEF StopRunning
<1>29. ASSUME ShutdownSocket PROVE Stopped'
  BY <1>29 DEF ShutdownSocket
<1>30. ASSUME CloseSocket PROVE Stopped'
  BY <1>30 DEF CloseSocket
<1>31. ASSUME JoinListener PROVE Stopped'
  BY <1>31 DEF JoinListener
<1>32. ASSUME FreeModel PROVE Stopped'
  BY <1>32 DEF FreeModel
<1>33. ASSUME Exit PROVE Stopped'
  BY <1>33 DEF Exit
<1>34. ASSUME UNCHANGED vars PROVE Stopped'
  BY <1>34 DEF vars
<1>35. QED
  BY <1>1, <1>2, <1>3, <1>4, <1>5, <1>6, <1>7, <1>8, <1>9, <1>10, <1>11,
     <1>12, <1>13, <1>14, <1>15, <1>16, <1>17, <1>18, <1>19, <1>20, <1>21,
     <1>22, <1>23, <1>24, <1>25, <1>26, <1>27, <1>28, <1>29, <1>30, <1>31,
     <1>32, <1>33, <1>34
  DEF Next, MainStep, ListenerStep, ConnStep, GenerateStep

-----------------------------------------------------------------------------
(* One generation at a time, and the registry that describes it.           *)

LEMMA ExclusiveStep ==
  ASSUME TypeOK, GenerationExclusive, [Next]_vars
  PROVE  GenerationExclusive'
<1> DEFINE Typed == pc \in [Conns -> PcStates]
<1>t. Typed
  BY DEF TypeOK, Registry
<1> USE <1>t, ConnsAssumption
    DEF GenerationExclusive, Holding, Generating, Goto, MainGoto, proc, front,
        hist, UnchangedByMain
<1>1. ASSUME NEW c \in Conns, Accept(c) PROVE GenerationExclusive'
  BY <1>1 DEF Accept
<1>2. ASSUME NEW c \in Conns, Spawn(c) PROVE GenerationExclusive'
  BY <1>2 DEF Spawn
<1>3. ASSUME NEW c \in Conns, ConnectionOpened(c) PROVE GenerationExclusive'
  BY <1>3 DEF ConnectionOpened
<1>4. ASSUME NEW c \in Conns, ReceiveUncounted(c) PROVE GenerationExclusive'
  BY <1>4 DEF ReceiveUncounted
<1>5. ASSUME NEW c \in Conns, ReceivePlain(c) PROVE GenerationExclusive'
  BY <1>5 DEF ReceivePlain
<1>6. ASSUME NEW c \in Conns, ReceiveChat(c) PROVE GenerationExclusive'
  BY <1>6 DEF ReceiveChat
<1>7. ASSUME NEW c \in Conns, ReceiveCancel(c) PROVE GenerationExclusive'
  BY <1>7 DEF ReceiveCancel
<1>8. ASSUME NEW c \in Conns, Record(c) PROVE GenerationExclusive'
  BY <1>8 DEF Record
<1>9. ASSUME NEW c \in Conns, ConnectionClosed(c) PROVE GenerationExclusive'
  BY <1>9 DEF ConnectionClosed
<1>10. ASSUME NEW c \in Conns, TryLock(c) PROVE GenerationExclusive'
  BY <1>10 DEF TryLock
<1>11. ASSUME NEW c \in Conns, RejectUnlock(c) PROVE GenerationExclusive'
  BY <1>11 DEF RejectUnlock
<1>12. ASSUME NEW c \in Conns, RejectSend(c) PROVE GenerationExclusive'
  BY <1>12 DEF RejectSend
<1>13. ASSUME NEW c \in Conns, Begin(c) PROVE GenerationExclusive'
  BY <1>13 DEF Begin
<1>14. ASSUME NEW c \in Conns, CheckCancel(c) PROVE GenerationExclusive'
  BY <1>14 DEF CheckCancel
<1>15. ASSUME NEW c \in Conns, End(c) PROVE GenerationExclusive'
  BY <1>15 DEF End
<1>16. ASSUME NEW c \in Conns, Respond(c) PROVE GenerationExclusive'
  BY <1>16 DEF Respond
<1>17. ASSUME NEW c \in Conns, Unlock(c) PROVE GenerationExclusive'
  BY <1>17 DEF Unlock
<1>18. ASSUME NEW c \in Conns, Cancel(c) PROVE GenerationExclusive'
  BY <1>18 DEF Cancel
<1>19. ASSUME NEW c \in Conns, CancelMatched(c) PROVE GenerationExclusive'
  BY <1>19 DEF CancelMatched
<1>20. ASSUME NEW c \in Conns, EmitToken(c) PROVE GenerationExclusive'
  BY <1>20 DEF EmitToken
<1>21. ASSUME NEW c \in Conns, GenerationEnds(c) PROVE GenerationExclusive'
  BY <1>21 DEF GenerationEnds
<1>22. ASSUME CheckRunning PROVE GenerationExclusive'
  BY <1>22 DEF CheckRunning
<1>23. ASSUME AcceptFails PROVE GenerationExclusive'
  BY <1>23 DEF AcceptFails
<1>24. ASSUME StartServer PROVE GenerationExclusive'
  BY <1>24 DEF StartServer
<1>25. ASSUME TestFlag PROVE GenerationExclusive'
  BY <1>25 DEF TestFlag
<1>26. ASSUME Pause PROVE GenerationExclusive'
  BY <1>26 DEF Pause
<1>27. ASSUME Signal PROVE GenerationExclusive'
  BY <1>27 DEF Signal
<1>28. ASSUME StopRunning PROVE GenerationExclusive'
  BY <1>28 DEF StopRunning
<1>29. ASSUME ShutdownSocket PROVE GenerationExclusive'
  BY <1>29 DEF ShutdownSocket
<1>30. ASSUME CloseSocket PROVE GenerationExclusive'
  BY <1>30 DEF CloseSocket
<1>31. ASSUME JoinListener PROVE GenerationExclusive'
  BY <1>31 DEF JoinListener
<1>32. ASSUME FreeModel PROVE GenerationExclusive'
  BY <1>32 DEF FreeModel
<1>33. ASSUME Exit PROVE GenerationExclusive'
  BY <1>33 DEF Exit
<1>34. ASSUME UNCHANGED vars PROVE GenerationExclusive'
  BY <1>34 DEF vars
<1>35. QED
  BY <1>1, <1>2, <1>3, <1>4, <1>5, <1>6, <1>7, <1>8, <1>9, <1>10, <1>11,
     <1>12, <1>13, <1>14, <1>15, <1>16, <1>17, <1>18, <1>19, <1>20, <1>21,
     <1>22, <1>23, <1>24, <1>25, <1>26, <1>27, <1>28, <1>29, <1>30, <1>31,
     <1>32, <1>33, <1>34
  DEF Next, MainStep, ListenerStep, ConnStep, GenerateStep

LEMMA RegistryStep ==
  ASSUME TypeOK, GenerationExclusive, RegistryFollowsGeneration, [Next]_vars
  PROVE  RegistryFollowsGeneration'
<1> DEFINE Goal == RegistryFollowsGeneration'
           Typed ==
      /\ pc \in [Conns -> PcStates]
      /\ late \in [Conns -> -1 .. MaxTokens]
      /\ reg \in Registry
<1>t. Typed
  BY DEF TypeOK, Registry
<1> USE <1>t, ConnsAssumption
    DEF RegistryFollowsGeneration, GenerationExclusive, Holding, Generating,
        Goto, MainGoto, proc, front, hist, UnchangedByMain, Registry
<1>1. ASSUME NEW c \in Conns, Accept(c) PROVE Goal
  BY <1>1 DEF Accept
<1>2. ASSUME NEW c \in Conns, Spawn(c) PROVE Goal
  BY <1>2 DEF Spawn
<1>3. ASSUME NEW c \in Conns, ConnectionOpened(c) PROVE Goal
  BY <1>3 DEF ConnectionOpened
<1>4. ASSUME NEW c \in Conns, ReceiveUncounted(c) PROVE Goal
  BY <1>4 DEF ReceiveUncounted
<1>5. ASSUME NEW c \in Conns, ReceivePlain(c) PROVE Goal
  BY <1>5 DEF ReceivePlain
<1>6. ASSUME NEW c \in Conns, ReceiveChat(c) PROVE Goal
  BY <1>6 DEF ReceiveChat
<1>7. ASSUME NEW c \in Conns, ReceiveCancel(c) PROVE Goal
  BY <1>7 DEF ReceiveCancel
<1>8. ASSUME NEW c \in Conns, Record(c) PROVE Goal
  BY <1>8 DEF Record
<1>9. ASSUME NEW c \in Conns, ConnectionClosed(c) PROVE Goal
  BY <1>9 DEF ConnectionClosed
<1>10. ASSUME NEW c \in Conns, TryLock(c) PROVE Goal
  BY <1>10 DEF TryLock
<1>11. ASSUME NEW c \in Conns, RejectUnlock(c) PROVE Goal
  BY <1>11 DEF RejectUnlock
<1>12. ASSUME NEW c \in Conns, RejectSend(c) PROVE Goal
  BY <1>12 DEF RejectSend
<1>13. ASSUME NEW c \in Conns, Begin(c) PROVE Goal
  BY <1>13 DEF Begin
<1>14. ASSUME NEW c \in Conns, CheckCancel(c) PROVE Goal
  BY <1>14 DEF CheckCancel
<1>15. ASSUME NEW c \in Conns, End(c) PROVE Goal
  BY <1>15 DEF End, NoReg
<1>16. ASSUME NEW c \in Conns, Respond(c) PROVE Goal
  BY <1>16 DEF Respond
<1>17. ASSUME NEW c \in Conns, Unlock(c) PROVE Goal
  BY <1>17 DEF Unlock
<1>18. ASSUME NEW c \in Conns, Cancel(c) PROVE Goal
  BY <1>18 DEF Cancel
<1>19. ASSUME NEW c \in Conns, CancelMatched(c) PROVE Goal
  BY <1>19 DEF CancelMatched
<1>20. ASSUME NEW c \in Conns, EmitToken(c) PROVE Goal
  BY <1>20 DEF EmitToken
<1>21. ASSUME NEW c \in Conns, GenerationEnds(c) PROVE Goal
  BY <1>21 DEF GenerationEnds
<1>22. ASSUME CheckRunning PROVE Goal
  BY <1>22 DEF CheckRunning
<1>23. ASSUME AcceptFails PROVE Goal
  BY <1>23 DEF AcceptFails
<1>24. ASSUME StartServer PROVE Goal
  BY <1>24 DEF StartServer
<1>25. ASSUME TestFlag PROVE Goal
  BY <1>25 DEF TestFlag
<1>26. ASSUME Pause PROVE Goal
  BY <1>26 DEF Pause
<1>27. ASSUME Signal PROVE Goal
  BY <1>27 DEF Signal
<1>28. ASSUME StopRunning PROVE Goal
  BY <1>28 DEF StopRunning
<1>29. ASSUME ShutdownSocket PROVE Goal
  BY <1>29 DEF ShutdownSocket
<1>30. ASSUME CloseSocket PROVE Goal
  BY <1>30 DEF CloseSocket
<1>31. ASSUME JoinListener PROVE Goal
  BY <1>31 DEF JoinListener
<1>32. ASSUME FreeModel PROVE Goal
  BY <1>32 DEF FreeModel
<1>33. ASSUME Exit PROVE Goal
  BY <1>33 DEF Exit
<1>34. ASSUME UNCHANGED vars PROVE Goal
  BY <1>34 DEF vars
<1>35. QED
  BY <1>1, <1>2, <1>3, <1>4, <1>5, <1>6, <1>7, <1>8, <1>9, <1>10, <1>11,
     <1>12, <1>13, <1>14, <1>15, <1>16, <1>17, <1>18, <1>19, <1>20, <1>21,
     <1>22, <1>23, <1>24, <1>25, <1>26, <1>27, <1>28, <1>29, <1>30, <1>31,
     <1>32, <1>33, <1>34
  DEF Next, MainStep, ListenerStep, ConnStep, GenerateStep

-----------------------------------------------------------------------------
(* Cancel requests.                                                        *)

LEMMA MatchedStep ==
  ASSUME TypeOK, GenerationExclusive, RegistryFollowsGeneration, Matched,
         [Next]_vars
  PROVE  Matched'
<1> DEFINE Typed ==
      /\ pc \in [Conns -> PcStates]
      /\ late \in [Conns -> -1 .. MaxTokens]
      /\ emitted \in [Conns -> 0 .. MaxTokens]
      /\ reg \in Registry
<1>t. Typed
  BY DEF TypeOK, Registry
<1> USE <1>t, ConnsAssumption, TokensAssumption
    DEF Matched, RegistryFollowsGeneration, Generating, After, Goto, MainGoto,
        proc, front, hist, UnchangedByMain, Registry
<1>1. ASSUME NEW c \in Conns, Accept(c) PROVE Matched'
  BY <1>1 DEF Accept
<1>2. ASSUME NEW c \in Conns, Spawn(c) PROVE Matched'
  BY <1>2 DEF Spawn
<1>3. ASSUME NEW c \in Conns, ConnectionOpened(c) PROVE Matched'
  BY <1>3 DEF ConnectionOpened
<1>4. ASSUME NEW c \in Conns, ReceiveUncounted(c) PROVE Matched'
  BY <1>4 DEF ReceiveUncounted
<1>5. ASSUME NEW c \in Conns, ReceivePlain(c) PROVE Matched'
  BY <1>5 DEF ReceivePlain
<1>6. ASSUME NEW c \in Conns, ReceiveChat(c) PROVE Matched'
  BY <1>6 DEF ReceiveChat
<1>7. ASSUME NEW c \in Conns, ReceiveCancel(c) PROVE Matched'
  BY <1>7 DEF ReceiveCancel
<1>8. ASSUME NEW c \in Conns, Record(c) PROVE Matched'
  BY <1>8 DEF Record
<1>9. ASSUME NEW c \in Conns, ConnectionClosed(c) PROVE Matched'
  BY <1>9 DEF ConnectionClosed
<1>10. ASSUME NEW c \in Conns, TryLock(c) PROVE Matched'
  BY <1>10 DEF TryLock
<1>11. ASSUME NEW c \in Conns, RejectUnlock(c) PROVE Matched'
  BY <1>11 DEF RejectUnlock
<1>12. ASSUME NEW c \in Conns, RejectSend(c) PROVE Matched'
  BY <1>12 DEF RejectSend
<1>13. ASSUME NEW c \in Conns, Begin(c) PROVE Matched'
  BY <1>13 DEF Begin, GenerationExclusive, Holding
<1>14. ASSUME NEW c \in Conns, CheckCancel(c) PROVE Matched'
  BY <1>14 DEF CheckCancel
<1>15. ASSUME NEW c \in Conns, End(c) PROVE Matched'
  BY <1>15 DEF End, NoReg
<1>16. ASSUME NEW c \in Conns, Respond(c) PROVE Matched'
  BY <1>16 DEF Respond
<1>17. ASSUME NEW c \in Conns, Unlock(c) PROVE Matched'
  BY <1>17 DEF Unlock
<1>18. ASSUME NEW c \in Conns, Cancel(c) PROVE Matched'
  BY <1>18 DEF Cancel
<1>19. ASSUME NEW c \in Conns, CancelMatched(c) PROVE Matched'
  BY <1>19 DEF CancelMatched
<1>20. ASSUME NEW c \in Conns, EmitToken(c) PROVE Matched'
  BY <1>20 DEF EmitToken
<1>21. ASSUME NEW c \in Conns, GenerationEnds(c) PROVE Matched'
  BY <1>21 DEF GenerationEnds
<1>22. ASSUME CheckRunning PROVE Matched'
  BY <1>22 DEF CheckRunning
<1>23. ASSUME AcceptFails PROVE Matched'
  BY <1>23 DEF AcceptFails
<1>24. ASSUME StartServer PROVE Matched'
  BY <1>24 DEF StartServer
<1>25. ASSUME TestFlag PROVE Matched'
  BY <1>25 DEF TestFlag
<1>26. ASSUME Pause PROVE Matched'
  BY <1>26 DEF Pause
<1>27. ASSUME Signal PROVE Matched'
  BY <1>27 DEF Signal
<1>28. ASSUME StopRunning PROVE Matched'
  BY <1>28 DEF StopRunning
<1>29. ASSUME ShutdownSocket PROVE Matched'
  BY <1>29 DEF ShutdownSocket
<1>30. ASSUME CloseSocket PROVE Matched'
  BY <1>30 DEF CloseSocket
<1>31. ASSUME JoinListener PROVE Matched'
  BY <1>31 DEF JoinListener
<1>32. ASSUME FreeModel PROVE Matched'
  BY <1>32 DEF FreeModel
<1>33. ASSUME Exit PROVE Matched'
  BY <1>33 DEF Exit
<1>34. ASSUME UNCHANGED vars PROVE Matched'
  BY <1>34 DEF vars
<1>35. QED
  BY <1>1, <1>2, <1>3, <1>4, <1>5, <1>6, <1>7, <1>8, <1>9, <1>10, <1>11,
     <1>12, <1>13, <1>14, <1>15, <1>16, <1>17, <1>18, <1>19, <1>20, <1>21,
     <1>22, <1>23, <1>24, <1>25, <1>26, <1>27, <1>28, <1>29, <1>30, <1>31,
     <1>32, <1>33, <1>34
  DEF Next, MainStep, ListenerStep, ConnStep, GenerateStep

(* The client of a matched cancel request stays past it.                   *)
LEMMA AskedStable ==
  ASSUME TypeOK, NEW e \in Conns, Asked(e), [Next]_vars
  PROVE  Asked(e)'
<1> DEFINE Typed == pc \in [Conns -> PcStates]
                    /\ target \in [Conns -> Conns \cup {None}]
<1>t. Typed
  BY DEF TypeOK, Registry
<1>d. PICK d \in Conns : target[d] = e /\ pc[d] \in After \cup {"count"}
  BY DEF Asked
<1> DEFINE Goal == target'[d] = e /\ pc'[d] \in After \cup {"count"}
<1> USE <1>t, <1>d
    DEF After, Goto, MainGoto, proc, front, hist, UnchangedByMain
<1>1. ASSUME NEW c \in Conns, Accept(c) PROVE Goal
  BY <1>1 DEF Accept
<1>2. ASSUME NEW c \in Conns, Spawn(c) PROVE Goal
  BY <1>2 DEF Spawn
<1>3. ASSUME NEW c \in Conns, ConnectionOpened(c) PROVE Goal
  BY <1>3 DEF ConnectionOpened
<1>4. ASSUME NEW c \in Conns, ReceiveUncounted(c) PROVE Goal
  BY <1>4 DEF ReceiveUncounted
<1>5. ASSUME NEW c \in Conns, ReceivePlain(c) PROVE Goal
  BY <1>5 DEF ReceivePlain
<1>6. ASSUME NEW c \in Conns, ReceiveChat(c) PROVE Goal
  BY <1>6 DEF ReceiveChat
<1>7. ASSUME NEW c \in Conns, ReceiveCancel(c) PROVE Goal
  BY <1>7 DEF ReceiveCancel
<1>8. ASSUME NEW c \in Conns, Record(c) PROVE Goal
  BY <1>8 DEF Record
<1>9. ASSUME NEW c \in Conns, ConnectionClosed(c) PROVE Goal
  BY <1>9 DEF ConnectionClosed
<1>10. ASSUME NEW c \in Conns, TryLock(c) PROVE Goal
  BY <1>10 DEF TryLock
<1>11. ASSUME NEW c \in Conns, RejectUnlock(c) PROVE Goal
  BY <1>11 DEF RejectUnlock
<1>12. ASSUME NEW c \in Conns, RejectSend(c) PROVE Goal
  BY <1>12 DEF RejectSend
<1>13. ASSUME NEW c \in Conns, Begin(c) PROVE Goal
  BY <1>13 DEF Begin
<1>14. ASSUME NEW c \in Conns, CheckCancel(c) PROVE Goal
  BY <1>14 DEF CheckCancel
<1>15. ASSUME NEW c \in Conns, End(c) PROVE Goal
  BY <1>15 DEF End
<1>16. ASSUME NEW c \in Conns, Respond(c) PROVE Goal
  BY <1>16 DEF Respond
<1>17. ASSUME NEW c \in Conns, Unlock(c) PROVE Goal
  BY <1>17 DEF Unlock
<1>18. ASSUME NEW c \in Conns, Cancel(c) PROVE Goal
  BY <1>18 DEF Cancel
<1>19. ASSUME NEW c \in Conns, CancelMatched(c) PROVE Goal
  BY <1>19 DEF CancelMatched
<1>20. ASSUME NEW c \in Conns, EmitToken(c) PROVE Goal
  BY <1>20 DEF EmitToken
<1>21. ASSUME NEW c \in Conns, GenerationEnds(c) PROVE Goal
  BY <1>21 DEF GenerationEnds
<1>22. ASSUME CheckRunning PROVE Goal
  BY <1>22 DEF CheckRunning
<1>23. ASSUME AcceptFails PROVE Goal
  BY <1>23 DEF AcceptFails
<1>24. ASSUME StartServer PROVE Goal
  BY <1>24 DEF StartServer
<1>25. ASSUME TestFlag PROVE Goal
  BY <1>25 DEF TestFlag
<1>26. ASSUME Pause PROVE Goal
  BY <1>26 DEF Pause
<1>27. ASSUME Signal PROVE Goal
  BY <1>27 DEF Signal
<1>28. ASSUME StopRunning PROVE Goal
  BY <1>28 DEF StopRunning
<1>29. ASSUME ShutdownSocket PROVE Goal
  BY <1>29 DEF ShutdownSocket
<1>30. ASSUME CloseSocket PROVE Goal
  BY <1>30 DEF CloseSocket
<1>31. ASSUME JoinListener PROVE Goal
  BY <1>31 DEF JoinListener
<1>32. ASSUME FreeModel PROVE Goal
  BY <1>32 DEF FreeModel
<1>33. ASSUME Exit PROVE Goal
  BY <1>33 DEF Exit
<1>34. ASSUME UNCHANGED vars PROVE Goal
  BY <1>34 DEF vars
<1>35. Goal
  BY <1>1, <1>2, <1>3, <1>4, <1>5, <1>6, <1>7, <1>8, <1>9, <1>10, <1>11,
     <1>12, <1>13, <1>14, <1>15, <1>16, <1>17, <1>18, <1>19, <1>20, <1>21,
     <1>22, <1>23, <1>24, <1>25, <1>26, <1>27, <1>28, <1>29, <1>30, <1>31,
     <1>32, <1>33, <1>34
  DEF Next, MainStep, ListenerStep, ConnStep, GenerateStep
<1>36. QED
  BY <1>35 DEF Asked

LEMMA AskedStep ==
  ASSUME TypeOK, RegistryFollowsGeneration, MatchedIsAsked, [Next]_vars
  PROVE  MatchedIsAsked'
<1> DEFINE Typed == /\ pc \in [Conns -> PcStates]
                    /\ late \in [Conns -> -1 .. MaxTokens]
                    /\ target \in [Conns -> Conns \cup {None}]
           Goal == \A e \in Conns : late'[e] >= 0 => late[e] >= 0 \/ Asked(e)'
<1>t. Typed
  BY DEF TypeOK, Registry
<1> USE <1>t
    DEF RegistryFollowsGeneration, Goto, MainGoto, proc, front, hist,
        UnchangedByMain
<1>1. ASSUME NEW c \in Conns, Accept(c) PROVE Goal
  BY <1>1 DEF Accept
<1>2. ASSUME NEW c \in Conns, Spawn(c) PROVE Goal
  BY <1>2 DEF Spawn
<1>3. ASSUME NEW c \in Conns, ConnectionOpened(c) PROVE Goal
  BY <1>3 DEF ConnectionOpened
<1>4. ASSUME NEW c \in Conns, ReceiveUncounted(c) PROVE Goal
  BY <1>4 DEF ReceiveUncounted
<1>5. ASSUME NEW c \in Conns, ReceivePlain(c) PROVE Goal
  BY <1>5 DEF ReceivePlain
<1>6. ASSUME NEW c \in Conns, ReceiveChat(c) PROVE Goal
  BY <1>6 DEF ReceiveChat
<1>7. ASSUME NEW c \in Conns, ReceiveCancel(c) PROVE Goal
  BY <1>7 DEF ReceiveCancel
<1>8. ASSUME NEW c \in Conns, Record(c) PROVE Goal
  BY <1>8 DEF Record
<1>9. ASSUME NEW c \in Conns, ConnectionClosed(c) PROVE Goal
  BY <1>9 DEF ConnectionClosed
<1>10. ASSUME NEW c \in Conns, TryLock(c) PROVE Goal
  BY <1>10 DEF TryLock
<1>11. ASSUME NEW c \in Conns, RejectUnlock(c) PROVE Goal
  BY <1>11 DEF RejectUnlock
<1>12. ASSUME NEW c \in Conns, RejectSend(c) PROVE Goal
  BY <1>12 DEF RejectSend
<1>13. ASSUME NEW c \in Conns, Begin(c) PROVE Goal
  BY <1>13 DEF Begin
<1>14. ASSUME NEW c \in Conns, CheckCancel(c) PROVE Goal
  BY <1>14 DEF CheckCancel
<1>15. ASSUME NEW c \in Conns, End(c) PROVE Goal
  BY <1>15 DEF End
<1>16. ASSUME NEW c \in Conns, Respond(c) PROVE Goal
  BY <1>16 DEF Respond
<1>17. ASSUME NEW c \in Conns, Unlock(c) PROVE Goal
  BY <1>17 DEF Unlock
<1>18. ASSUME NEW c \in Conns, Cancel(c) PROVE Goal
  <2>1. CASE late' = late
    BY <2>1
  <2>2. CASE pc'[c] = "count"
    <3>1. Asked(target[c])'
      BY <1>18, <2>2 DEF Cancel, Asked
    <3>2. QED
      BY <1>18, <2>2, <3>1 DEF Cancel
  <2>3. QED
    BY <1>18, <2>1, <2>2 DEF Cancel
<1>19. ASSUME NEW c \in Conns, CancelMatched(c) PROVE Goal
  BY <1>19 DEF CancelMatched
<1>20. ASSUME NEW c \in Conns, EmitToken(c) PROVE Goal
  BY <1>20 DEF EmitToken
<1>21. ASSUME NEW c \in Conns, GenerationEnds(c) PROVE Goal
  BY <1>21 DEF GenerationEnds
<1>22. ASSUME CheckRunning PROVE Goal
  BY <1>22 DEF CheckRunning
<1>23. ASSUME AcceptFails PROVE Goal
  BY <1>23 DEF AcceptFails
<1>24. ASSUME StartServer PROVE Goal
  BY <1>24 DEF StartServer
<1>25. ASSUME TestFlag PROVE Goal
  BY <1>25 DEF TestFlag
<1>26. ASSUME Pause PROVE Goal
  BY <1>26 DEF Pause
<1>27. ASSUME Signal PROVE Goal
  BY <1>27 DEF Signal
<1>28. ASSUME StopRunning PROVE Goal
  BY <1>28 DEF StopRunning
<1>29. ASSUME ShutdownSocket PROVE Goal
  BY <1>29 DEF ShutdownSocket
<1>30. ASSUME CloseSocket PROVE Goal
  BY <1>30 DEF CloseSocket
<1>31. ASSUME JoinListener PROVE Goal
  BY <1>31 DEF JoinListener
<1>32. ASSUME FreeModel PROVE Goal
  BY <1>32 DEF FreeModel
<1>33. ASSUME Exit PROVE Goal
  BY <1>33 DEF Exit
<1>34. ASSUME UNCHANGED vars PROVE Goal
  BY <1>34 DEF vars
<1>35. Goal
  BY <1>1, <1>2, <1>3, <1>4, <1>5, <1>6, <1>7, <1>8, <1>9, <1>10, <1>11,
     <1>12, <1>13, <1>14, <1>15, <1>16, <1>17, <1>18, <1>19, <1>20, <1>21,
     <1>22, <1>23, <1>24, <1>25, <1>26, <1>27, <1>28, <1>29, <1>30, <1>31,
     <1>32, <1>33, <1>34
  DEF Next, MainStep, ListenerStep, ConnStep, GenerateStep
<1>36. QED
  BY <1>35, AskedStable DEF MatchedIsAsked

LEMMA HitStep ==
  ASSUME TypeOK, RegistryFollowsGeneration, MatchedIsAsked, HitIsAsked,
         [Next]_vars
  PROVE  HitIsAsked'
<1> DEFINE Typed == ended \in [Conns -> {"no", "itself", "cancelled"}]
           Goal == \A e \in Conns : ended'[e] = "cancelled" =>
                     ended[e] = "cancelled" \/ Asked(e)
<1>t. Typed
  BY DEF TypeOK, Registry
<1> USE <1>t DEF Goto, MainGoto, proc, front, hist, UnchangedByMain
<1>1. ASSUME NEW c \in Conns, Accept(c) PROVE Goal
  BY <1>1 DEF Accept
<1>2. ASSUME NEW c \in Conns, Spawn(c) PROVE Goal
  BY <1>2 DEF Spawn
<1>3. ASSUME NEW c \in Conns, ConnectionOpened(c) PROVE Goal
  BY <1>3 DEF ConnectionOpened
<1>4. ASSUME NEW c \in Conns, ReceiveUncounted(c) PROVE Goal
  BY <1>4 DEF ReceiveUncounted
<1>5. ASSUME NEW c \in Conns, ReceivePlain(c) PROVE Goal
  BY <1>5 DEF ReceivePlain
<1>6. ASSUME NEW c \in Conns, ReceiveChat(c) PROVE Goal
  BY <1>6 DEF ReceiveChat
<1>7. ASSUME NEW c \in Conns, ReceiveCancel(c) PROVE Goal
  BY <1>7 DEF ReceiveCancel
<1>8. ASSUME NEW c \in Conns, Record(c) PROVE Goal
  BY <1>8 DEF Record
<1>9. ASSUME NEW c \in Conns, ConnectionClosed(c) PROVE Goal
  BY <1>9 DEF ConnectionClosed
<1>10. ASSUME NEW c \in Conns, TryLock(c) PROVE Goal
  BY <1>10 DEF TryLock
<1>11. ASSUME NEW c \in Conns, RejectUnlock(c) PROVE Goal
  BY <1>11 DEF RejectUnlock
<1>12. ASSUME NEW c \in Conns, RejectSend(c) PROVE Goal
  BY <1>12 DEF RejectSend
<1>13. ASSUME NEW c \in Conns, Begin(c) PROVE Goal
  BY <1>13 DEF Begin
<1>14. ASSUME NEW c \in Conns, CheckCancel(c) PROVE Goal
  <2> DEFINE stop == reg.active /\ reg.requested /\ reg.id = c
  <2>1. CASE stop
    <3>1. Asked(c)
      BY <2>1 DEF RegistryFollowsGeneration, MatchedIsAsked
    <3>2. QED
      BY <1>14, <2>1, <3>1 DEF CheckCancel
  <2>2. CASE ~stop
    BY <1>14, <2>2 DEF CheckCancel
  <2>3. QED
    BY <2>1, <2>2
<1>15. ASSUME NEW c \in Conns, End(c) PROVE Goal
  BY <1>15 DEF End
<1>16. ASSUME NEW c \in Conns, Respond(c) PROVE Goal
  BY <1>16 DEF Respond
<1>17. ASSUME NEW c \in Conns, Unlock(c) PROVE Goal
  BY <1>17 DEF Unlock
<1>18. ASSUME NEW c \in Conns, Cancel(c) PROVE Goal
  BY <1>18 DEF Cancel
<1>19. ASSUME NEW c \in Conns, CancelMatched(c) PROVE Goal
  BY <1>19 DEF CancelMatched
<1>20. ASSUME NEW c \in Conns, EmitToken(c) PROVE Goal
  BY <1>20 DEF EmitToken
<1>21. ASSUME NEW c \in Conns, GenerationEnds(c) PROVE Goal
  BY <1>21 DEF GenerationEnds
<1>22. ASSUME CheckRunning PROVE Goal
  BY <1>22 DEF CheckRunning
<1>23. ASSUME AcceptFails PROVE Goal
  BY <1>23 DEF AcceptFails
<1>24. ASSUME StartServer PROVE Goal
  BY <1>24 DEF StartServer
<1>25. ASSUME TestFlag PROVE Goal
  BY <1>25 DEF TestFlag
<1>26. ASSUME Pause PROVE Goal
  BY <1>26 DEF Pause
<1>27. ASSUME Signal PROVE Goal
  BY <1>27 DEF Signal
<1>28. ASSUME StopRunning PROVE Goal
  BY <1>28 DEF StopRunning
<1>29. ASSUME ShutdownSocket PROVE Goal
  BY <1>29 DEF ShutdownSocket
<1>30. ASSUME CloseSocket PROVE Goal
  BY <1>30 DEF CloseSocket
<1>31. ASSUME JoinListener PROVE Goal
  BY <1>31 DEF JoinListener
<1>32. ASSUME FreeModel PROVE Goal
  BY <1>32 DEF FreeModel
<1>33. ASSUME Exit PROVE Goal
  BY <1>33 DEF Exit
<1>34. ASSUME UNCHANGED vars PROVE Goal
  BY <1>34 DEF vars
<1>35. Goal
  BY <1>1, <1>2, <1>3, <1>4, <1>5, <1>6, <1>7, <1>8, <1>9, <1>10, <1>11,
     <1>12, <1>13, <1>14, <1>15, <1>16, <1>17, <1>18, <1>19, <1>20, <1>21,
     <1>22, <1>23, <1>24, <1>25, <1>26, <1>27, <1>28, <1>29, <1>30, <1>31,
     <1>32, <1>33, <1>34
  DEF Next, MainStep, ListenerStep, ConnStep, GenerateStep
<1>36. QED
  BY <1>35, AskedStable DEF HitIsAsked

LEMMA ConfirmingStep ==
  ASSUME TypeOK, Confirming, CancelConfirmed, [Next]_vars
  PROVE  Confirming' /\ CancelConfirmed'
<1> DEFINE Typed == /\ pc \in [Conns -> PcStates]
                    /\ late \in [Conns -> -1 .. MaxTokens]
                    /\ target \in [Conns -> Conns \cup {None}]
                    /\ answer \in [Conns -> Statuses]
           Goal == Confirming' /\ CancelConfirmed'
<1>t. Typed
  BY DEF TypeOK, Registry
<1> USE <1>t, ConnsAssumption
    DEF Confirming, CancelConfirmed, Before, After, Statuses, Send, Goto,
        MainGoto, proc, front, hist, UnchangedByMain
<1>1. ASSUME NEW c \in Conns, Accept(c) PROVE Goal
  BY <1>1 DEF Accept
<1>2. ASSUME NEW c \in Conns, Spawn(c) PROVE Goal
  BY <1>2 DEF Spawn
<1>3. ASSUME NEW c \in Conns, ConnectionOpened(c) PROVE Goal
  BY <1>3 DEF ConnectionOpened
<1>4. ASSUME NEW c \in Conns, ReceiveUncounted(c) PROVE Goal
  BY <1>4 DEF ReceiveUncounted
<1>5. ASSUME NEW c \in Conns, ReceivePlain(c) PROVE Goal
  BY <1>5 DEF ReceivePlain
<1>6. ASSUME NEW c \in Conns, ReceiveChat(c) PROVE Goal
  BY <1>6 DEF ReceiveChat
<1>7. ASSUME NEW c \in Conns, ReceiveCancel(c) PROVE Goal
  BY <1>7 DEF ReceiveCancel
<1>8. ASSUME NEW c \in Conns, Record(c) PROVE Goal
  BY <1>8 DEF Record
<1>9. ASSUME NEW c \in Conns, ConnectionClosed(c) PROVE Goal
  BY <1>9 DEF ConnectionClosed
<1>10. ASSUME NEW c \in Conns, TryLock(c) PROVE Goal
  BY <1>10 DEF TryLock
<1>11. ASSUME NEW c \in Conns, RejectUnlock(c) PROVE Goal
  BY <1>11 DEF RejectUnlock
<1>12. ASSUME NEW c \in Conns, RejectSend(c) PROVE Goal
  BY <1>12 DEF RejectSend
<1>13. ASSUME NEW c \in Conns, Begin(c) PROVE Goal
  BY <1>13 DEF Begin
<1>14. ASSUME NEW c \in Conns, CheckCancel(c) PROVE Goal
  BY <1>14 DEF CheckCancel
<1>15. ASSUME NEW c \in Conns, End(c) PROVE Goal
  BY <1>15 DEF End
<1>16. ASSUME NEW c \in Conns, Respond(c) PROVE Goal
  BY <1>16 DEF Respond
<1>17. ASSUME NEW c \in Conns, Unlock(c) PROVE Goal
  BY <1>17 DEF Unlock
<1>18. ASSUME NEW c \in Conns, Cancel(c) PROVE Goal
  BY <1>18 DEF Cancel
<1>19. ASSUME NEW c \in Conns, CancelMatched(c) PROVE Goal
  BY <1>19 DEF CancelMatched
<1>20. ASSUME NEW c \in Conns, EmitToken(c) PROVE Goal
  BY <1>20 DEF EmitToken
<1>21. ASSUME NEW c \in Conns, GenerationEnds(c) PROVE Goal
  BY <1>21 DEF GenerationEnds
<1>22. ASSUME CheckRunning PROVE Goal
  BY <1>22 DEF CheckRunning
<1>23. ASSUME AcceptFails PROVE Goal
  BY <1>23 DEF AcceptFails
<1>24. ASSUME StartServer PROVE Goal
  BY <1>24 DEF StartServer
<1>25. ASSUME TestFlag PROVE Goal
  BY <1>25 DEF TestFlag
<1>26. ASSUME Pause PROVE Goal
  BY <1>26 DEF Pause
<1>27. ASSUME Signal PROVE Goal
  BY <1>27 DEF Signal
<1>28. ASSUME StopRunning PROVE Goal
  BY <1>28 DEF StopRunning
<1>29. ASSUME ShutdownSocket PROVE Goal
  BY <1>29 DEF ShutdownSocket
<1>30. ASSUME CloseSocket PROVE Goal
  BY <1>30 DEF CloseSocket
<1>31. ASSUME JoinListener PROVE Goal
  BY <1>31 DEF JoinListener
<1>32. ASSUME FreeModel PROVE Goal
  BY <1>32 DEF FreeModel
<1>33. ASSUME Exit PROVE Goal
  BY <1>33 DEF Exit
<1>34. ASSUME UNCHANGED vars PROVE Goal
  BY <1>34 DEF vars
<1>35. QED
  BY <1>1, <1>2, <1>3, <1>4, <1>5, <1>6, <1>7, <1>8, <1>9, <1>10, <1>11,
     <1>12, <1>13, <1>14, <1>15, <1>16, <1>17, <1>18, <1>19, <1>20, <1>21,
     <1>22, <1>23, <1>24, <1>25, <1>26, <1>27, <1>28, <1>29, <1>30, <1>31,
     <1>32, <1>33, <1>34
  DEF Next, MainStep, ListenerStep, ConnStep, GenerateStep

-----------------------------------------------------------------------------
(* The theorems.                                                           *)

LEMMA InitIInv == Init => IInv
<1> SUFFICES ASSUME Init PROVE IInv
  OBVIOUS
<1> USE Init, ConnsAssumption, TokensAssumption DEF Init, NoReg
<1>1. TypeOK
  <2>1. flag \in BOOLEAN /\ freed \in BOOLEAN /\ running \in BOOLEAN
    BY Zenon
  <2>2. /\ main \in MainStates
        /\ pc \in [Conns -> PcStates]
        /\ answer \in [Conns -> Statuses]
    BY DEF PcStates, MainStates, Statuses
  <2>3. /\ emitted \in [Conns -> 0 .. MaxTokens]
        /\ late \in [Conns -> -1 .. MaxTokens]
        /\ metrics \in Metrics
    BY DEF Metrics
  <2>4. reg \in Registry
    <3>1. None \in Conns \cup {None} /\ FALSE \in BOOLEAN
      OBVIOUS
    <3>2. reg = [id |-> None, active |-> FALSE, requested |-> FALSE]
      OBVIOUS
    <3>3. QED
      BY <3>1, <3>2 DEF Registry
  <2>5. /\ listener \in {"unborn", "loop", "accept", "spawn", "exited"}
        /\ sock \in {"open", "shut", "closed"}
        /\ gen \in Conns \cup {None}
        /\ target \in [Conns -> Conns \cup {None}]
        /\ ended \in [Conns -> {"no", "itself", "cancelled"}]
    OBVIOUS
  <2>6. QED
    BY <2>1, <2>2, <2>3, <2>4, <2>5, Zenon DEF TypeOK, Metrics, Registry
<1>2. Stopped /\ GenerationExclusive /\ RegistryFollowsGeneration
  BY DEF Stopped, GenerationExclusive, RegistryFollowsGeneration, Holding,
         Generating
<1>3. Matched /\ MatchedIsAsked /\ HitIsAsked
  BY DEF Matched, MatchedIsAsked, HitIsAsked
<1>4. Confirming /\ CancelConfirmed
  BY DEF Confirming, CancelConfirmed, Before, After
<1>5. QED
  BY <1>1, <1>2, <1>3, <1>4 DEF IInv

LEMMA NextIInv == IInv /\ [Next]_vars => IInv'
BY TypingStep, StoppedStep, ExclusiveStep, RegistryStep, MatchedStep,
   AskedStep, HitStep, ConfirmingStep DEF IInv

(* The inductive invariant of the server.                                  *)
THEOREM Invariance == Spec => []IInv
BY InitIInv, NextIInv, PTL DEF Spec

(* Every variable of the server keeps its type.                            *)
THEOREM TypeCorrect == Spec => []TypeOK
<1>1. IInv => TypeOK
  BY DEF IInv
<1>2. QED
  BY <1>1, Invariance, PTL

(* generation_mutex is held by exactly the thread that is between trylock  *)
(* and unlock: one generation at a time, and no path keeps the mutex.      *)
THEOREM OneGeneration == Spec => []GenerationExclusive
<1>1. IInv => GenerationExclusive
  BY DEF IInv
<1>2. QED
  BY <1>1, Invariance, PTL

(* The registry describes the generation that runs, and no request flag    *)
(* outlives it.                                                            *)
THEOREM RegistryCorrect == Spec => []RegistryFollowsGeneration
<1>1. IInv => RegistryFollowsGeneration
  BY DEF IInv
<1>2. QED
  BY <1>1, Invariance, PTL

(* A generation is stopped only by a request that named it.                *)
THEOREM CancelHits == Spec => []CancelHitsOnlyItsTarget
<1>1. IInv => CancelHitsOnlyItsTarget
  BY DEF IInv, HitIsAsked, CancelHitsOnlyItsTarget, Asked, After
<1>2. QED
  BY <1>1, Invariance, PTL

(* After a match a generation emits at most one more token.                *)
THEOREM CancelStops == Spec => []CancelIsPrompt
<1>1. IInv => CancelIsPrompt
  BY DEF IInv, Matched, CancelIsPrompt
<1>2. QED
  BY <1>1, Invariance, PTL

(* A cancel request answered 200 found its generation running.             *)
THEOREM CancelHonest == Spec => []CancelConfirmed
<1>1. IInv => CancelConfirmed
  BY DEF IInv
<1>2. QED
  BY <1>1, Invariance, PTL

(* Once api_server_stop() has returned the listener accepts no connection  *)
(* and starts no thread.                                                   *)
THEOREM ListenerStopped == Spec => NoThreadAfterStop
<1> DEFINE A == \A c \in Conns :
                  pc[c] \in {"unborn", "accepted"} /\ pc'[c] # pc[c] =>
                    main \notin {"free", "return", "exited"}
<1>1. IInv /\ [Next]_vars => A
  <2> SUFFICES ASSUME IInv, [Next]_vars, NEW e \in Conns,
                      pc[e] \in {"unborn", "accepted"}, pc'[e] # pc[e]
               PROVE  main \notin {"free", "return", "exited"}
    OBVIOUS
  <2>t. pc \in [Conns -> PcStates] /\ Stopped
    BY DEF IInv, TypeOK
  <2>1. listener \in {"accept", "spawn"}
    <3> USE <2>t DEF Goto, MainGoto, proc, front, hist, UnchangedByMain
    <3>1. ASSUME NEW c \in Conns, ConnStep(c) PROVE pc[e] = pc'[e]
      BY <3>1 DEF ConnStep, ConnectionOpened, ReceiveUncounted, ReceivePlain,
                  ReceiveChat, ReceiveCancel, Record, ConnectionClosed,
                  TryLock, RejectUnlock, RejectSend, Begin, CheckCancel, End,
                  Respond, Unlock, Cancel, CancelMatched
    <3>2. ASSUME NEW c \in Conns, GenerateStep(c) PROVE pc[e] = pc'[e]
      BY <3>2 DEF GenerateStep, EmitToken, GenerationEnds
    <3>3. ASSUME MainStep \/ Signal PROVE pc[e] = pc'[e]
      BY <3>3 DEF MainStep, Signal, StartServer, TestFlag, Pause, StopRunning,
                  ShutdownSocket, CloseSocket, JoinListener, FreeModel, Exit
    <3>4. ASSUME CheckRunning \/ AcceptFails \/ UNCHANGED vars
          PROVE  pc[e] = pc'[e]
      BY <3>4 DEF CheckRunning, AcceptFails, vars
    <3>5. ASSUME NEW c \in Conns, Accept(c) \/ Spawn(c)
          PROVE  listener \in {"accept", "spawn"}
      BY <3>5 DEF Accept, Spawn
    <3>6. QED
      BY <3>1, <3>2, <3>3, <3>4, <3>5 DEF Next, ListenerStep
  <2>2. QED
    BY <2>t, <2>1 DEF Stopped
<1>2. QED
  BY <1>1, Invariance, PTL DEF Spec, NoThreadAfterStop

-----------------------------------------------------------------------------
(* The refinement.                                                         *)

(* A connection generates once: it starts with nothing emitted, and leaves *)
(* the registry only when its generation has stopped.                      *)
Once ==
  \A c \in Conns :
    /\ pc[c] \in Before \cup {"trylock", "parse"} => emitted[c] = 0
    /\ pc[c] \in Before \cup {"trylock", "parse", "generate", "check"} =>
         ended[c] = "no"
    /\ pc[c] = "end" => ended[c] # "no"

(* Every step keeps this. *)
LEMMA OnceStep ==
  ASSUME TypeOK, Once, [Next]_vars
  PROVE  Once'
<1>t. /\ pc \in [Conns -> PcStates]
      /\ emitted \in [Conns -> 0 .. MaxTokens]
      /\ ended \in [Conns -> {"no", "itself", "cancelled"}]
  BY DEF TypeOK
<1> USE <1>t, ConnsAssumption, TokensAssumption
    DEF Once, Before, Goto, MainGoto, proc, front, hist, UnchangedByMain
<1>1. ASSUME NEW c \in Conns, Accept(c) PROVE Once'
  BY <1>1 DEF Accept
<1>2. ASSUME NEW c \in Conns, Spawn(c) PROVE Once'
  BY <1>2 DEF Spawn
<1>3. ASSUME NEW c \in Conns, ConnectionOpened(c) PROVE Once'
  BY <1>3 DEF ConnectionOpened
<1>4. ASSUME NEW c \in Conns, ReceiveUncounted(c) PROVE Once'
  BY <1>4 DEF ReceiveUncounted
<1>5. ASSUME NEW c \in Conns, ReceivePlain(c) PROVE Once'
  BY <1>5 DEF ReceivePlain
<1>6. ASSUME NEW c \in Conns, ReceiveChat(c) PROVE Once'
  BY <1>6 DEF ReceiveChat
<1>7. ASSUME NEW c \in Conns, ReceiveCancel(c) PROVE Once'
  BY <1>7 DEF ReceiveCancel
<1>8. ASSUME NEW c \in Conns, Record(c) PROVE Once'
  BY <1>8 DEF Record
<1>9. ASSUME NEW c \in Conns, ConnectionClosed(c) PROVE Once'
  BY <1>9 DEF ConnectionClosed
<1>10. ASSUME NEW c \in Conns, TryLock(c) PROVE Once'
  BY <1>10 DEF TryLock
<1>11. ASSUME NEW c \in Conns, RejectUnlock(c) PROVE Once'
  BY <1>11 DEF RejectUnlock
<1>12. ASSUME NEW c \in Conns, RejectSend(c) PROVE Once'
  BY <1>12 DEF RejectSend
<1>13. ASSUME NEW c \in Conns, Begin(c) PROVE Once'
  BY <1>13 DEF Begin
<1>14. ASSUME NEW c \in Conns, CheckCancel(c) PROVE Once'
  BY <1>14 DEF CheckCancel
<1>15. ASSUME NEW c \in Conns, End(c) PROVE Once'
  BY <1>15 DEF End
<1>16. ASSUME NEW c \in Conns, Respond(c) PROVE Once'
  BY <1>16 DEF Respond
<1>17. ASSUME NEW c \in Conns, Unlock(c) PROVE Once'
  BY <1>17 DEF Unlock
<1>18. ASSUME NEW c \in Conns, Cancel(c) PROVE Once'
  BY <1>18 DEF Cancel
<1>19. ASSUME NEW c \in Conns, CancelMatched(c) PROVE Once'
  BY <1>19 DEF CancelMatched
<1>20. ASSUME NEW c \in Conns, EmitToken(c) PROVE Once'
  BY <1>20 DEF EmitToken
<1>21. ASSUME NEW c \in Conns, GenerationEnds(c) PROVE Once'
  BY <1>21 DEF GenerationEnds
<1>22. ASSUME CheckRunning PROVE Once'
  BY <1>22 DEF CheckRunning
<1>23. ASSUME AcceptFails PROVE Once'
  BY <1>23 DEF AcceptFails
<1>24. ASSUME StartServer PROVE Once'
  BY <1>24 DEF StartServer
<1>25. ASSUME TestFlag PROVE Once'
  BY <1>25 DEF TestFlag
<1>26. ASSUME Pause PROVE Once'
  BY <1>26 DEF Pause
<1>27. ASSUME Signal PROVE Once'
  BY <1>27 DEF Signal
<1>28. ASSUME StopRunning PROVE Once'
  BY <1>28 DEF StopRunning
<1>29. ASSUME ShutdownSocket PROVE Once'
  BY <1>29 DEF ShutdownSocket
<1>30. ASSUME CloseSocket PROVE Once'
  BY <1>30 DEF CloseSocket
<1>31. ASSUME JoinListener PROVE Once'
  BY <1>31 DEF JoinListener
<1>32. ASSUME FreeModel PROVE Once'
  BY <1>32 DEF FreeModel
<1>33. ASSUME Exit PROVE Once'
  BY <1>33 DEF Exit
<1>34. ASSUME UNCHANGED vars PROVE Once'
  BY <1>34 DEF vars
<1>35. QED
  BY <1>1, <1>2, <1>3, <1>4, <1>5, <1>6, <1>7, <1>8, <1>9, <1>10, <1>11,
     <1>12, <1>13, <1>14, <1>15, <1>16, <1>17, <1>18, <1>19, <1>20, <1>21,
     <1>22, <1>23, <1>24, <1>25, <1>26, <1>27, <1>28, <1>29, <1>30, <1>31,
     <1>32, <1>33, <1>34
  DEF Next, MainStep, ListenerStep, ConnStep, GenerateStep


(* No connection generates twice, and none leaves the registry before its  *)
(* generation has stopped.                                                 *)
THEOREM GeneratesOnce == Spec => []Once
<1>1. Init => Once
  BY DEF Init, Once
<1>2. TypeOK /\ Once /\ [Next]_vars => Once'
  BY OnceStep
<1>3. QED
  BY <1>1, <1>2, TypeCorrect, PTL DEF Spec

(* The request the registry names. *)
Busy == IF reg.active THEN reg.id ELSE None

(* Every step is one of the abstract model, or leaves it alone. *)
LEMMA GenerationsStep ==
  ASSUME IInv, Once, [Next]_vars
  PROVE  [Gens!Next]_(Gens!vars)
<1> DEFINE Goal == [Gens!Next]_(Gens!vars)
<1>t. /\ pc \in [Conns -> PcStates] /\ reg \in Registry
      /\ late \in [Conns -> -1 .. MaxTokens]
      /\ emitted \in [Conns -> 0 .. MaxTokens]
      /\ ended \in [Conns -> {"no", "itself", "cancelled"}]
      /\ GenerationExclusive /\ RegistryFollowsGeneration /\ Matched
  BY DEF IInv, TypeOK, Registry
<1>s. UNCHANGED <<reg, emitted, late, ended>> => Goal
  BY DEF Gens!vars
<1>u. ASSUME NEW c \in Conns, pc[c] \in Generating
      PROVE  reg.active /\ reg.id = c /\ Busy = c
  BY <1>t, <1>u DEF RegistryFollowsGeneration, Busy
<1>n. ASSUME NEW c \in Conns,
             Gens!Start(c) \/ Gens!Emit(c) \/ Gens!Ask(c) \/ Gens!Stop(c)
               \/ Gens!Leave(c)
      PROVE  Goal
  BY <1>n DEF Gens!Next
<1> USE DEF Goto, MainGoto, proc, front, hist, UnchangedByMain
<1>1. ASSUME NEW c \in Conns, Accept(c) PROVE Goal
  BY <1>1, <1>s DEF Accept
<1>2. ASSUME NEW c \in Conns, Spawn(c) PROVE Goal
  BY <1>2, <1>s DEF Spawn
<1>3. ASSUME NEW c \in Conns, ConnectionOpened(c) PROVE Goal
  BY <1>3, <1>s DEF ConnectionOpened
<1>4. ASSUME NEW c \in Conns, ReceiveUncounted(c) PROVE Goal
  BY <1>4, <1>s DEF ReceiveUncounted
<1>5. ASSUME NEW c \in Conns, ReceivePlain(c) PROVE Goal
  BY <1>5, <1>s DEF ReceivePlain
<1>6. ASSUME NEW c \in Conns, ReceiveChat(c) PROVE Goal
  BY <1>6, <1>s DEF ReceiveChat
<1>7. ASSUME NEW c \in Conns, ReceiveCancel(c) PROVE Goal
  BY <1>7, <1>s DEF ReceiveCancel
<1>8. ASSUME NEW c \in Conns, Record(c) PROVE Goal
  BY <1>8, <1>s DEF Record
<1>9. ASSUME NEW c \in Conns, ConnectionClosed(c) PROVE Goal
  BY <1>9, <1>s DEF ConnectionClosed
<1>10. ASSUME NEW c \in Conns, TryLock(c) PROVE Goal
  BY <1>10, <1>s DEF TryLock
<1>11. ASSUME NEW c \in Conns, RejectUnlock(c) PROVE Goal
  BY <1>11, <1>s DEF RejectUnlock
<1>12. ASSUME NEW c \in Conns, RejectSend(c) PROVE Goal
  BY <1>12, <1>s DEF RejectSend
<1>13. ASSUME NEW c \in Conns, Begin(c) PROVE Goal
  <2>1. pc[c] = "parse" /\ emitted[c] = 0 /\ ended[c] = "no" /\ late[c] = -1
    BY <1>13, <1>t DEF Begin, Once, Matched, Generating, After
  <2>2. ~reg.active
    <3>1. reg.active => reg.id \in Conns /\ pc[reg.id] \in Generating
      BY <1>t DEF RegistryFollowsGeneration
    <3>2. reg.active => gen = reg.id
      BY <1>t, <3>1 DEF GenerationExclusive, Holding
    <3>3. gen = c
      BY <1>t, <2>1 DEF GenerationExclusive, Holding
    <3>4. QED
      BY <2>1, <3>1, <3>2, <3>3 DEF Generating
  <2>3. Busy = None /\ Busy' = c
    BY <1>13, <2>2 DEF Begin, Busy
  <2>4. Gens!Start(c)
    BY <1>13, <2>1, <2>3 DEF Begin, Gens!Start, Busy
  <2>5. QED
    BY <2>4, <1>n
<1>14. ASSUME NEW c \in Conns, CheckCancel(c) PROVE Goal
  <2>1. pc[c] = "check" /\ Busy = c /\ ended[c] = "no"
    BY <1>14, <1>u DEF CheckCancel, Generating, Once
  <2>2. CASE reg.active /\ reg.requested /\ reg.id = c
    <3>1. late[c] >= 0
      BY <1>t, <2>2 DEF RegistryFollowsGeneration
    <3>2. ended' = [ended EXCEPT ![c] = "cancelled"]
      BY <1>14, <2>2 DEF CheckCancel
    <3>3. Gens!Stop(c)
      BY <1>14, <2>1, <3>1, <3>2 DEF CheckCancel, Gens!Stop, Gens!Runs, Busy
    <3>4. QED
      BY <3>3, <1>n
  <2>3. CASE ~(reg.active /\ reg.requested /\ reg.id = c)
    <3>1. ended' = ended
      BY <1>14, <1>t, <2>3 DEF CheckCancel
    <3>2. QED
      BY <1>14, <3>1, <1>s DEF CheckCancel
  <2>4. QED
    BY <2>2, <2>3
<1>15. ASSUME NEW c \in Conns, End(c) PROVE Goal
  <2>1. Busy = c /\ ended[c] # "no"
    BY <1>15, <1>u DEF End, Generating, Once
  <2>2. Busy' = None
    BY <1>15 DEF End, NoReg, Busy
  <2>3. Gens!Leave(c)
    BY <1>15, <2>1, <2>2 DEF End, Gens!Leave, Busy
  <2>4. QED
    BY <2>3, <1>n
<1>16. ASSUME NEW c \in Conns, Respond(c) PROVE Goal
  BY <1>16, <1>s DEF Respond
<1>17. ASSUME NEW c \in Conns, Unlock(c) PROVE Goal
  BY <1>17, <1>s DEF Unlock
<1>18. ASSUME NEW c \in Conns, Cancel(c) PROVE Goal
  <2>1. CASE reg.active /\ reg.id = target[c]
    <3>1. target[c] \in Conns /\ Busy = target[c]
      BY <1>t, <2>1 DEF RegistryFollowsGeneration, Busy
    <3>2. Busy' = Busy
      BY <1>18, <1>t, <2>1 DEF Cancel, Busy, Registry
    <3>3. Gens!Ask(target[c])
      BY <1>18, <2>1, <3>1, <3>2 DEF Cancel, Gens!Ask, Busy
    <3>4. QED
      BY <3>1, <3>3, <1>n
  <2>2. CASE ~(reg.active /\ reg.id = target[c])
    BY <1>18, <2>2, <1>s DEF Cancel
  <2>3. QED
    BY <2>1, <2>2
<1>19. ASSUME NEW c \in Conns, CancelMatched(c) PROVE Goal
  BY <1>19, <1>s DEF CancelMatched
<1>20. ASSUME NEW c \in Conns, EmitToken(c) PROVE Goal
  <2>1. pc[c] = "generate" /\ Busy = c /\ ended[c] = "no"
    BY <1>20, <1>u DEF EmitToken, Generating, Once
  <2>2. late[c] = -1 \/ late[c] = 0
    BY <1>t, <2>1, TokensAssumption DEF Matched
  <2>3. late' = [late EXCEPT ![c] = IF @ = 0 THEN 1 ELSE @]
    <3>1. (IF late[c] >= 0 THEN late[c] + 1 ELSE late[c])
             = (IF late[c] = 0 THEN 1 ELSE late[c])
      BY <2>2
    <3>2. late' = [late EXCEPT ![c] = IF late[c] >= 0 THEN late[c] + 1
                                      ELSE late[c]]
      BY <1>20 DEF EmitToken
    <3>3. QED
      BY <3>1, <3>2, Zenon
  <2>4. /\ emitted[c] < MaxTokens /\ emitted' = [emitted EXCEPT ![c] = @ + 1]
        /\ Busy' = Busy /\ ended' = ended
    BY <1>20 DEF EmitToken, Busy
  <2>5. late[c] < 1
    BY <2>2
  <2>6. Gens!Emit(c)
    BY <2>1, <2>3, <2>4, <2>5 DEF Gens!Emit, Gens!Runs, Busy
  <2>7. QED
    BY <2>6, <1>n
<1>21. ASSUME NEW c \in Conns, GenerationEnds(c) PROVE Goal
  <2>1. Busy = c /\ ended[c] = "no"
    BY <1>21, <1>u DEF GenerationEnds, Generating, Once
  <2>2. Gens!Stop(c)
    BY <1>21, <2>1 DEF GenerationEnds, Gens!Stop, Gens!Runs, Busy
  <2>3. QED
    BY <2>2, <1>n
<1>22. ASSUME CheckRunning PROVE Goal
  BY <1>22, <1>s DEF CheckRunning
<1>23. ASSUME AcceptFails PROVE Goal
  BY <1>23, <1>s DEF AcceptFails
<1>24. ASSUME StartServer PROVE Goal
  BY <1>24, <1>s DEF StartServer
<1>25. ASSUME TestFlag PROVE Goal
  BY <1>25, <1>s DEF TestFlag
<1>26. ASSUME Pause PROVE Goal
  BY <1>26, <1>s DEF Pause
<1>27. ASSUME Signal PROVE Goal
  BY <1>27, <1>s DEF Signal
<1>28. ASSUME StopRunning PROVE Goal
  BY <1>28, <1>s DEF StopRunning
<1>29. ASSUME ShutdownSocket PROVE Goal
  BY <1>29, <1>s DEF ShutdownSocket
<1>30. ASSUME CloseSocket PROVE Goal
  BY <1>30, <1>s DEF CloseSocket
<1>31. ASSUME JoinListener PROVE Goal
  BY <1>31, <1>s DEF JoinListener
<1>32. ASSUME FreeModel PROVE Goal
  BY <1>32, <1>s DEF FreeModel
<1>33. ASSUME Exit PROVE Goal
  BY <1>33, <1>s DEF Exit
<1>34. ASSUME UNCHANGED vars PROVE Goal
  BY <1>34, <1>s DEF vars
<1>35. QED
  BY <1>1, <1>2, <1>3, <1>4, <1>5, <1>6, <1>7, <1>8, <1>9, <1>10, <1>11,
     <1>12, <1>13, <1>14, <1>15, <1>16, <1>17, <1>18, <1>19, <1>20, <1>21,
     <1>22, <1>23, <1>24, <1>25, <1>26, <1>27, <1>28, <1>29, <1>30, <1>31,
     <1>32, <1>33, <1>34
  DEF Next, MainStep, ListenerStep, ConnStep, GenerateStep

(* Whatever the threads of the server do, seen through the registry they   *)
(* are one model that generates for one request at a time.                 *)
THEOREM RefinesGenerations == Spec => ImplementsGenerations
<1>1. Init => Gens!Init
  BY DEF Init, NoReg, Gens!Init
<1>2. IInv /\ Once /\ [Next]_vars => [Gens!Next]_(Gens!vars)
  BY GenerationsStep
<1>3. QED
  BY <1>1, <1>2, Invariance, GeneratesOnce, PTL
     DEF Spec, ImplementsGenerations, Gens!Spec

=============================================================================
