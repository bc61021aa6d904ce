---------------------------- MODULE Generations -----------------------------
(***************************************************************************)
(* What the server promises about its one model: requests generate with it *)
(* one after the other, each at most once and within its budget.  A        *)
(* generation stops by itself, or since somebody asked that very one to    *)
(* stop; once asked it emits one more token at the most.                   *)
(***************************************************************************)
EXTENDS Integers

CONSTANTS Requests,   \* those that may generate
          None,       \* no request
          MaxTokens   \* the budget of a generation

VARIABLES busy,       \* the request the model works for, or None
          tokens,     \* tokens[r]: emitted for r
          since,      \* since[r]: those emitted since r was asked to stop, -1
                      \* if it was not
          why         \* why[r]: why r's generation stopped, "no" before that

vars == <<busy, tokens, since, why>>

Init ==
  /\ busy = None
  /\ tokens = [r \in Requests |-> 0]
  /\ since = [r \in Requests |-> -1]
  /\ why = [r \in Requests |-> "no"]

Runs(r) == busy = r /\ why[r] = "no"

Start(r) ==
  /\ busy = None /\ busy' = r
  /\ tokens[r] = 0 /\ since[r] = -1 /\ why[r] = "no"
  /\ UNCHANGED <<tokens, since, why>>

Emit(r) ==
  /\ Runs(r) /\ tokens[r] < MaxTokens /\ since[r] < 1
  /\ tokens' = [tokens EXCEPT ![r] = @ + 1]
  /\ since' = [since EXCEPT ![r] = IF @ = 0 THEN 1 ELSE @]
  /\ UNCHANGED <<busy, why>>

Ask(r) ==
  /\ busy = r
  /\ since' = [since EXCEPT ![r] = IF @ = -1 THEN 0 ELSE @]
  /\ UNCHANGED <<busy, tokens, why>>

Stop(r) ==
  /\ Runs(r)
  /\ \/ since[r] >= 0 /\ why' = [why EXCEPT ![r] = "cancelled"]
     \/ why' = [why EXCEPT ![r] = "itself"]
  /\ UNCHANGED <<busy, tokens, since>>

Leave(r) ==
  /\ busy = r /\ why[r] # "no"
  /\ busy' = None
  /\ UNCHANGED <<tokens, since, why>>

Next ==
  \E r \in Requests :
    Start(r) \/ Emit(r) \/ Ask(r) \/ Stop(r) \/ Leave(r)

Spec == Init /\ [][Next]_vars
=============================================================================
