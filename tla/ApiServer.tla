----------------------------- MODULE ApiServer ------------------------------
(***************************************************************************)
(* The HTTP API server: src/src/api/http_server.c, cancel.c and metrics.c, *)
(* and the server mode of src/src/cli/main.c that starts and stops it.     *)
(*                                                                         *)
(* A listener thread hands each accepted connection to a detached thread.  *)
(* A chat completion runs under generation_mutex, taken with trylock (429  *)
(* when it is held), and registers itself with the cancel registry, which  *)
(* another connection may use to stop it.  The main thread waits for a     *)
(* signal, stops the listener, frees the model and returns.                *)
(*                                                                         *)
(* A connection serves one request, so `c` names the thread, the request   *)
(* and the id make_id() gives its generation.  An operator whose name ends *)
(* in _Mut is a mutation of the definition that follows it; no behaviour   *)
(* uses it.                                                                *)
(***************************************************************************)
EXTENDS Integers, FiniteSets

CONSTANTS
  Conns,      \* bound: the connections clients open
  None,       \* no holder, no id
  MaxTokens   \* bound: tokens one generation can emit

ASSUME ConnsAssumption == IsFiniteSet(Conns) /\ None \notin Conns
ASSUME TokensAssumption == MaxTokens \in Nat

VARIABLES
  main,      \* where the main thread stands
  flag,      \* g_shutdown_requested
  freed,     \* the run state, weights, mapping and pool have been freed
  listener,  \* where the listener thread stands
  running,   \* ctx->running
  sock,      \* the listening socket: "open", "shut" or "closed"
  pc,        \* pc[c]: where the thread of connection c stands
  gen,       \* holder of generation_mutex
  reg,       \* ctx->cancel: [id, active, requested]
  target,    \* target[c]: the id a cancel request names
  emitted,   \* emitted[c]: st.tokens_emitted of c's generation
  metrics,   \* ctx->metrics: [active, ok, bad, err, tokens, cancelled]
  answer,    \* history: the status c's client was sent, 0 before that
  ended,     \* history: why c's generation ended, "no" while it has not
  late       \* history: tokens c emitted after a cancel request matched it,
             \* -1 when none did

proc  == <<main, flag, freed>>
front == <<listener, running, sock>>
hist  == <<answer, ended, late>>
vars  == <<proc, front, pc, gen, reg, target, emitted, metrics, hist>>

NoReg == [id |-> None, active |-> FALSE, requested |-> FALSE]

Init ==
  /\ main = "start" /\ flag = FALSE /\ freed = FALSE
  /\ listener = "unborn" /\ running = FALSE /\ sock = "closed"
  /\ pc = [c \in Conns |-> "unborn"]
  /\ gen = None
  /\ reg = NoReg
  /\ target = [c \in Conns |-> None]
  /\ emitted = [c \in Conns |-> 0]
  /\ metrics = [active |-> 0, ok |-> 0, bad |-> 0, err |-> 0, tokens |-> 0,
                cancelled |-> 0]
  /\ answer = [c \in Conns |-> 0]
  /\ ended = [c \in Conns |-> "no"]
  /\ late = [c \in Conns |-> -1]

Alive == main # "exited"

Goto(c, from, to) == /\ Alive
                     /\ pc[c] = from
                     /\ pc' = [pc EXCEPT ![c] = to]

(* metrics_record_request(): a status is counted in its class.             *)
RecordRequest(status) ==
  IF status \in 200 .. 299 THEN [metrics EXCEPT !.ok = @ + 1]
  ELSE IF status \in 400 .. 499 THEN [metrics EXCEPT !.bad = @ + 1]
  ELSE IF status >= 500 THEN [metrics EXCEPT !.err = @ + 1]
  ELSE metrics

Send(c, status) == answer' = [answer EXCEPT ![c] = status]

-----------------------------------------------------------------------------
(* The listener: listener_thread_fn().                                     *)

CheckRunning ==
  /\ Alive
  /\ listener = "loop"
  /\ listener' = IF running THEN "accept" ELSE "exited"
  /\ UNCHANGED <<proc, running, sock, pc, gen, reg, target, emitted, metrics,
                 hist>>

Accept(c) ==
  /\ listener = "accept" /\ sock = "open"
  /\ Goto(c, "unborn", "accepted")
  /\ listener' = "spawn"
  /\ UNCHANGED <<proc, running, sock, gen, reg, target, emitted, metrics,
                 hist>>

(* The connection gets a thread, or allocation or pthread_create() fails   *)
(* and it is closed.                                                       *)
Spawn(c) ==
  /\ listener = "spawn"
  /\ \/ Goto(c, "accepted", "opened")
     \/ Goto(c, "accepted", "refused")
  /\ listener' = "loop"
  /\ UNCHANGED <<proc, running, sock, gen, reg, target, emitted, metrics,
                 hist>>

(* accept() fails once the socket is shut down or closed.                  *)
AcceptFails ==
  /\ Alive
  /\ listener = "accept" /\ sock # "open"
  /\ listener' = IF running THEN "loop" ELSE "exited"
  /\ UNCHANGED <<proc, running, sock, pc, gen, reg, target, emitted, metrics,
                 hist>>

-----------------------------------------------------------------------------
(* A connection: connection_thread_fn() and handle_connection().           *)

ConnectionOpened(c) ==
  /\ Goto(c, "opened", "recv")
  /\ metrics' = [metrics EXCEPT !.active = @ + 1]
  /\ UNCHANGED <<proc, front, gen, reg, target, emitted, hist>>

(* A request that cannot be read, is too large or malformed, and a CORS    *)
(* preflight: answered, if at all, without touching the request counters.  *)
ReceiveUncounted(c) ==
  /\ Goto(c, "recv", "close")
  /\ \E status \in {0, 204, 400, 413} : Send(c, status)
  /\ UNCHANGED <<proc, front, gen, reg, target, emitted, metrics, ended, late>>

(* 401 before the route is looked at; then every route that neither        *)
(* generates nor cancels.                                                  *)
ReceivePlain(c) ==
  /\ Goto(c, "recv", "close")
  /\ \E status \in {200, 401, 404} :
       Send(c, status) /\ metrics' = RecordRequest(status)
  /\ UNCHANGED <<proc, front, gen, reg, target, emitted, ended, late>>

ReceiveChat(c) ==
  /\ Goto(c, "recv", "trylock")
  /\ UNCHANGED <<proc, front, gen, reg, target, emitted, metrics, hist>>

(* POST .../cancel with an id, or without one that can be read (400/500).  *)
ReceiveCancel(c) ==
  /\ \/ /\ Goto(c, "recv", "cancel")
        /\ \E id \in Conns : target' = [target EXCEPT ![c] = id]
        /\ UNCHANGED answer
     \/ /\ Goto(c, "recv", "record")
        /\ \E status \in {400, 500} : Send(c, status)
        /\ UNCHANGED target
  /\ UNCHANGED <<proc, front, gen, reg, emitted, metrics, ended, late>>

(* After the route handler: `status` is still 200 for a chat or a cancel   *)
(* request, whatever the handler sent.                                     *)
Record(c) ==
  /\ Goto(c, "record", "close")
  /\ metrics' = RecordRequest(200)
  /\ UNCHANGED <<proc, front, gen, reg, target, emitted, hist>>

(* close(fd), metrics_connection_closed(), and the thread returns.         *)
ConnectionClosed(c) ==
  /\ Goto(c, "close", "gone")
  /\ metrics' = [metrics EXCEPT !.active = @ - 1]
  /\ UNCHANGED <<proc, front, gen, reg, target, emitted, hist>>

-----------------------------------------------------------------------------
(* POST /v1/chat/completions: handle_chat_completions().                   *)

(* Mutation: the handler waits for the mutex.                              *)
TryLockWaits_Mut(c) ==
  /\ gen = None
  /\ Goto(c, "trylock", "parse")
  /\ gen' = c
  /\ UNCHANGED <<proc, front, reg, target, emitted, metrics, hist>>

TryLock(c) ==
  /\ \/ /\ gen # None
        /\ Goto(c, "trylock", "record")
        /\ Send(c, 429)
        /\ UNCHANGED gen
     \/ /\ gen = None
        /\ Goto(c, "trylock", "parse")
        /\ gen' = c
        /\ UNCHANGED answer
  /\ UNCHANGED <<proc, front, reg, target, emitted, metrics, ended, late>>

(* Mutation: the error path forgets to unlock.                             *)
RejectUnlock_Mut(c) ==
  /\ Goto(c, "parse", "reject")
  /\ UNCHANGED <<proc, front, gen, reg, target, emitted, metrics, hist>>

(* Out of memory, bad JSON, no messages, prompt compilation failed: the    *)
(* mutex is given up first ...                                             *)
RejectUnlock(c) ==
  /\ Goto(c, "parse", "reject")
  /\ gen' = None
  /\ UNCHANGED <<proc, front, reg, target, emitted, metrics, hist>>

(* ... and the error is sent afterwards.                                   *)
RejectSend(c) ==
  /\ Goto(c, "reject", "record")
  /\ \E status \in {400, 500} : Send(c, status)
  /\ UNCHANGED <<proc, front, gen, reg, target, emitted, metrics, ended, late>>

(* make_id(), the SSE header, cancel_registry_begin().                     *)
Begin(c) ==
  /\ Goto(c, "parse", "generate")
  /\ reg' = [id |-> c, active |-> TRUE, requested |-> FALSE]
  /\ UNCHANGED <<proc, front, gen, target, emitted, metrics, hist>>

(* Mutation: the loop does not stop at max_tokens.                         *)
EmitToken_Mut(c) ==
  /\ Goto(c, "generate", "check")
  /\ emitted' = [emitted EXCEPT ![c] = @ + 1]
  /\ late' = [late EXCEPT ![c] = IF @ >= 0 THEN @ + 1 ELSE @]
  /\ UNCHANGED <<proc, front, gen, reg, target, metrics, answer, ended>>

(* generate_with_callback() computes one more token and hands it to        *)
(* streaming_token_callback(), which sends or stores it ...                *)
EmitToken(c) ==
  /\ Goto(c, "generate", "check")
  /\ emitted[c] < MaxTokens
  /\ emitted' = [emitted EXCEPT ![c] = @ + 1]
  /\ late' = [late EXCEPT ![c] = IF @ >= 0 THEN @ + 1 ELSE @]
  /\ UNCHANGED <<proc, front, gen, reg, target, metrics, answer, ended>>

(* Mutation: the id is not compared.                                       *)
CheckCancel_Mut(c) ==
  /\ \/ /\ reg.active
        /\ Goto(c, "check", "end")
        /\ ended' = [ended EXCEPT ![c] = "cancelled"]
     \/ /\ ~reg.active
        /\ Goto(c, "check", "generate")
        /\ UNCHANGED ended
  /\ UNCHANGED <<proc, front, gen, reg, target, emitted, metrics, answer,
                 late>>

(* Mutation: the callback does not ask the registry.                       *)
CheckCancelNever_Mut(c) ==
  /\ Goto(c, "check", "generate")
  /\ UNCHANGED <<proc, front, gen, reg, target, emitted, metrics, hist>>

(* ... and asks cancel_registry_check() whether to stop.                   *)
CheckCancel(c) ==
  LET stop == reg.active /\ reg.requested /\ reg.id = c
  IN /\ Goto(c, "check", IF stop THEN "end" ELSE "generate")
     /\ ended' = [ended EXCEPT ![c] = IF stop THEN "cancelled" ELSE @]
     /\ UNCHANGED <<proc, front, gen, reg, target, emitted, metrics, answer,
                    late>>

(* The generation ends by itself: EOS, the token limit, the end of the     *)
(* context, an early return, or no memory for the token.                   *)
GenerationEnds(c) ==
  /\ Goto(c, "generate", "end")
  /\ ended' = [ended EXCEPT ![c] = "itself"]
  /\ UNCHANGED <<proc, front, gen, reg, target, emitted, metrics, answer,
                 late>>

(* Mutation: the generation does not leave the registry.                   *)
End_Mut(c) ==
  /\ Goto(c, "end", "respond")
  /\ metrics' = [metrics EXCEPT !.tokens = @ + emitted[c]]
  /\ UNCHANGED <<proc, front, gen, reg, target, emitted, hist>>

(* cancel_registry_end(), metrics_add_tokens().                            *)
End(c) ==
  /\ Goto(c, "end", "respond")
  /\ reg' = NoReg
  /\ metrics' = [metrics EXCEPT !.tokens = @ + emitted[c]]
  /\ UNCHANGED <<proc, front, gen, target, emitted, hist>>

(* The end of the stream, or the whole response.                           *)
Respond(c) ==
  /\ Goto(c, "respond", "unlock")
  /\ Send(c, 200)
  /\ UNCHANGED <<proc, front, gen, reg, target, emitted, metrics, ended, late>>

Unlock(c) ==
  /\ Goto(c, "unlock", "record")
  /\ gen' = None
  /\ UNCHANGED <<proc, front, reg, target, emitted, metrics, hist>>

-----------------------------------------------------------------------------
(* POST /v1/chat/completions/cancel: handle_cancel().                      *)

(* cancel_registry_request(): matched, or 404.                             *)
Cancel(c) ==
  /\ \/ /\ reg.active /\ reg.id = target[c]
        /\ Goto(c, "cancel", "count")
        /\ reg' = [reg EXCEPT !.requested = TRUE]
        /\ late' = [late EXCEPT ![target[c]] = IF @ = -1 THEN 0 ELSE @]
        /\ UNCHANGED answer
     \/ /\ ~(reg.active /\ reg.id = target[c])
        /\ Goto(c, "cancel", "record")
        /\ Send(c, 404)
        /\ UNCHANGED <<reg, late>>
  /\ UNCHANGED <<proc, front, gen, target, emitted, metrics, ended>>

(* metrics_record_cancel() and the 200.                                    *)
CancelMatched(c) ==
  /\ Goto(c, "count", "record")
  /\ metrics' = [metrics EXCEPT !.cancelled = @ + 1]
  /\ Send(c, 200)
  /\ UNCHANGED <<proc, front, gen, reg, target, emitted, ended, late>>

-----------------------------------------------------------------------------
(* The main thread in server mode: main() and api_server_stop().           *)

MainGoto(from, to) == /\ main = from
                      /\ main' = to

UnchangedByMain == <<freed, listener, pc, gen, reg, target, emitted, metrics,
                     hist>>

(* api_server_start(): the listener thread runs, or the socket, bind,      *)
(* listen, allocation or thread creation fails, all is undone and the main *)
(* thread goes on to its cleanup.  The signal handler is installed next.   *)
StartServer ==
  /\ \/ /\ MainGoto("start", "test")
        /\ running' = TRUE /\ sock' = "open" /\ listener' = "loop"
     \/ /\ MainGoto("start", "free")
        /\ UNCHANGED front
  /\ UNCHANGED <<flag, freed, pc, gen, reg, target, emitted, metrics, hist>>

(* `while (!g_shutdown_requested)` ...                                     *)
TestFlag ==
  /\ MainGoto("test", IF flag THEN "stop" ELSE "pause")
  /\ UNCHANGED <<flag, running, sock, UnchangedByMain>>

(* ... `pause();`: sleeps until a signal handler has run.                  *)
Pause ==
  /\ MainGoto("pause", "paused")
  /\ UNCHANGED <<flag, running, sock, UnchangedByMain>>

(* SIGINT or SIGTERM, sent once by the user after the server has started:  *)
(* the handler sets the flag and pause(), if the main thread is in it,     *)
(* returns.                                                                *)
Signal ==
  /\ listener # "unborn" /\ Alive /\ ~flag
  /\ flag' = TRUE
  /\ main' = IF main = "paused" THEN "test" ELSE main
  /\ UNCHANGED <<running, sock, UnchangedByMain>>

StopRunning ==
  /\ MainGoto("stop", "shut")
  /\ running' = FALSE
  /\ UNCHANGED <<flag, sock, UnchangedByMain>>

(* Mutation: only close() is called, which does not wake accept().         *)
ShutdownSocket_Mut ==
  /\ MainGoto("shut", "join")
  /\ UNCHANGED <<flag, running, sock, UnchangedByMain>>

(* shutdown(SHUT_RDWR) wakes a blocked accept().                           *)
ShutdownSocket ==
  /\ MainGoto("shut", "close")
  /\ sock' = "shut"
  /\ UNCHANGED <<flag, running, UnchangedByMain>>

CloseSocket ==
  /\ MainGoto("close", "join")
  /\ sock' = "closed"
  /\ UNCHANGED <<flag, running, UnchangedByMain>>

(* Mutation: the listener is not joined.                                   *)
JoinListener_Mut ==
  /\ MainGoto("join", "free")
  /\ UNCHANGED <<flag, running, sock, UnchangedByMain>>

JoinListener ==
  /\ MainGoto("join", "free")
  /\ listener = "exited"
  /\ UNCHANGED <<flag, running, sock, UnchangedByMain>>

(* tokenizer_free() .. threadpool_destroy(): the connection threads are    *)
(* detached, nobody waits for them.                                        *)
FreeModel ==
  /\ MainGoto("free", "return")
  /\ freed' = TRUE
  /\ UNCHANGED <<flag, front, pc, gen, reg, target, emitted, metrics, hist>>

(* main() returns: every thread is gone.                                   *)
Exit ==
  /\ MainGoto("return", "exited")
  /\ UNCHANGED <<flag, running, sock, UnchangedByMain>>

-----------------------------------------------------------------------------
MainStep == \/ StartServer \/ TestFlag \/ Pause \/ StopRunning
            \/ ShutdownSocket \/ CloseSocket \/ JoinListener
            \/ FreeModel \/ Exit

ListenerStep == CheckRunning \/ AcceptFails \/ \E c \in Conns : Spawn(c)

(* What a connection thread does without waiting for its generation.       *)
ConnStep(c) ==
  \/ ConnectionOpened(c)
  \/ ReceiveUncounted(c) \/ ReceivePlain(c)
  \/ ReceiveChat(c) \/ ReceiveCancel(c)
  \/ Record(c) \/ ConnectionClosed(c)
  \/ TryLock(c) \/ RejectUnlock(c) \/ RejectSend(c) \/ Begin(c)
  \/ CheckCancel(c) \/ End(c) \/ Respond(c) \/ Unlock(c)
  \/ Cancel(c) \/ CancelMatched(c)

(* The model computes: it may take any time.                               *)
GenerateStep(c) == EmitToken(c) \/ GenerationEnds(c)

Next ==
  \/ MainStep \/ Signal
  \/ ListenerStep \/ \E c \in Conns : Accept(c)
  \/ \E c \in Conns : ConnStep(c) \/ GenerateStep(c)

(* Every runnable thread runs and every client sends its request; nothing  *)
(* is assumed of clients connecting, of the user sending a signal, or of   *)
(* the model ever finishing a token.                                       *)
Fairness == /\ WF_vars(MainStep)
            /\ WF_vars(ListenerStep)
            /\ \A c \in Conns : WF_vars(ConnStep(c))

Spec     == Init /\ [][Next]_vars
FairSpec == Spec /\ Fairness
=============================================================================
