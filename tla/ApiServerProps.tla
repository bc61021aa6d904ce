--------------------------- MODULE ApiServerProps ---------------------------
(* What the API server is for, stated over ApiServer.                      *)
EXTENDS ApiServer

Generating == {"generate", "check", "end"}
Holding    == Generating \cup {"parse", "respond", "unlock"}
PcStates   == Holding \cup {"unborn", "accepted", "refused", "opened", "recv",
                            "trylock", "reject", "cancel", "count", "record",
                            "close", "gone"}
MainStates == {"start", "test", "pause", "paused", "stop", "shut", "close",
               "join", "free", "return", "exited"}
Statuses   == {0, 200, 204, 400, 401, 404, 413, 429, 500}

(* Every variable has the type its declaration gives it.                   *)
TypeOK ==
  /\ main \in MainStates
  /\ flag \in BOOLEAN /\ freed \in BOOLEAN /\ running \in BOOLEAN
  /\ listener \in {"unborn", "loop", "accept", "spawn", "exited"}
  /\ sock \in {"open", "shut", "closed"}
  /\ pc \in [Conns -> PcStates]
  /\ gen \in Conns \cup {None}
  /\ reg \in [id : Conns \cup {None}, active : BOOLEAN, requested : BOOLEAN]
  /\ target \in [Conns -> Conns \cup {None}]
  /\ emitted \in [Conns -> 0 .. MaxTokens]
  /\ metrics \in [active : Int, ok : Nat, bad : Nat, err : Nat, tokens : Nat,
                  cancelled : Nat]
  /\ answer \in [Conns -> Statuses]
  /\ ended \in [Conns -> {"no", "itself", "cancelled"}]
  /\ late \in [Conns -> -1 .. MaxTokens]

(* generation_mutex serialises the code between trylock and unlock, and    *)
(* every path through handle_chat_completions() gives it up: it is held by *)
(* exactly the thread that is inside.                                      *)
GenerationExclusive ==
  \A c \in Conns : pc[c] \in Holding <=> gen = c

(* The cancel registry names exactly the generation that is running, and a *)
(* request flag in it was set for that generation.                         *)
RegistryFollowsGeneration ==
  /\ \A c \in Conns : pc[c] \in Generating <=> reg.active /\ reg.id = c
  /\ reg.active => reg.id \in Conns
  /\ reg.requested => reg.active /\ late[reg.id] >= 0

(* A generation is stopped by a cancel request only if a client named that *)
(* generation: no request leaks into a later generation and none hits      *)
(* another one.                                                            *)
CancelHitsOnlyItsTarget ==
  \A c \in Conns : ended[c] = "cancelled" =>
    \E d \in Conns : target[d] = c /\ pc[d] \notin {"recv", "cancel"}

(* After a cancel request was matched a generation emits at most one more  *)
(* token, the one whose check is still to come.                            *)
CancelIsPrompt == \A c \in Conns : late[c] <= 1

(* The server implements one model that generates for one request at a     *)
(* time, whatever its threads do between mutex, registry and callback: the *)
(* mutex is taken before the registry is entered and given up after it is  *)
(* left, and the flag in it belongs to the generation that reads it.       *)
Gens == INSTANCE Generations WITH
          Requests <- Conns,
          busy <- IF reg.active THEN reg.id ELSE None,
          tokens <- emitted, since <- late, why <- ended
ImplementsGenerations == Gens!Spec

(* A cancel request that was answered 200 found its generation running.    *)
CancelConfirmed ==
  \A d \in Conns : target[d] # None /\ answer[d] = 200 => late[target[d]] >= 0

(* api_server_stop() returns only when the listener can neither accept a   *)
(* connection nor start the thread of one it had accepted before.          *)
NoThreadAfterStop ==
  [][\A c \in Conns : pc[c] \in {"unborn", "accepted"} /\ pc'[c] # pc[c] =>
       main \notin {"free", "return", "exited"}]_vars

(* No request waits for a generation in flight: each is answered or starts *)
(* its own generation, even if the one in flight never ends.               *)
NeverBlocked ==
  \A c \in Conns :
    pc[c] = "recv" ~> pc[c] \in {"gone", "generate"} \/ main = "exited"

(* api_server_stop() wakes the listener out of accept() and the process    *)
(* ends, whatever the connection threads do.                               *)
StopReturns == main = "stop" ~> main = "exited"

-----------------------------------------------------------------------------
(* A claim of the sources that the code does not keep.                     *)

(* api_server_stop() leaves its resources alone because detached threads   *)
(* may still use them, "rather than risking a use-after-free race": no     *)
(* thread is in a generation once the model it computes with is freed.     *)
NoUseAfterFree ==
  freed /\ main # "exited" => \A c \in Conns : pc[c] # "generate"
=============================================================================
