---------------------------- MODULE DurableList ----------------------------
(***************************************************************************)
(* What a database of memories promises to those who save in it: a list,   *)
(* longer by one entry with every save that is acknowledged, that each     *)
(* later open shows again.  Accidents limit the promise.  After one kill   *)
(* an open still shows the whole list, until something is saved again;     *)
(* after anything else it shows at least the entries acknowledged before   *)
(* the first accident, each at its place.                                  *)
(***************************************************************************)
EXTENDS Integers, SequencesExt

CONSTANTS Memories,  \* what is saved
          Nothing    \* no memory

VARIABLES list,      \* the saves that were acknowledged
          kept,      \* those that no accident can take away
          view,      \* what the process that has it open is shown
          phase,     \* "closed", "open", or "useless" since unreadable
          pending,   \* the save that is running, or Nothing
          trouble    \* accidents so far: "none", "killed" once, "more"

vars == <<list, kept, view, phase, pending, trouble>>

Init ==
  /\ list = <<>> /\ kept = <<>> /\ view = <<>>
  /\ phase = "closed" /\ pending = Nothing /\ trouble = "none"

\* A step may be disturbed, noticed or not.
Disturbed == trouble' = "more"
Smooth == trouble' = trouble

Open ==
  /\ phase = "closed" /\ phase' = "open"
  /\ IsPrefix(kept, view')
  /\ trouble # "more" => view' = list
  /\ UNCHANGED <<list, kept, pending, trouble>>

\* Only a file that something happened to can be unreadable, and one kill
\* does so only before anything was saved.
Unreadable ==
  /\ phase = "closed" /\ phase' = "useless"
  /\ trouble # "none" /\ (trouble = "killed" => list = <<>>)
  /\ UNCHANGED <<list, kept, view, pending, trouble>>

Begin(m) ==
  /\ phase = "open" /\ pending = Nothing /\ pending' = m
  /\ \A i \in DOMAIN view : view[i] # m
  /\ view' = Append(view, m)
  /\ UNCHANGED <<list, kept, phase, trouble>>

Acknowledge ==
  /\ phase = "open" /\ pending # Nothing /\ pending' = Nothing
  /\ list' = Append(list, pending)
  /\ \/ trouble = "none" /\ Smooth /\ kept' = list'
     \/ Disturbed /\ UNCHANGED kept
  /\ UNCHANGED <<view, phase>>

\* An error is reported only when there was one.
Refuse ==
  /\ pending # Nothing /\ pending' = Nothing
  /\ Disturbed
  /\ UNCHANGED <<list, kept, view, phase>>

Mishap == Disturbed /\ UNCHANGED <<list, kept, view, phase, pending>>

Close ==
  /\ phase # "closed" /\ phase' = "closed" /\ pending = Nothing
  /\ view' = <<>>
  /\ Smooth \/ Disturbed
  /\ UNCHANGED <<list, kept, pending>>

Kill ==
  /\ phase # "closed" /\ phase' = "closed" /\ pending' = Nothing
  /\ view' = <<>>
  /\ trouble' = IF trouble = "none" THEN "killed" ELSE "more"
  /\ UNCHANGED <<list, kept>>

Next ==
  \/ Open \/ Unreadable \/ \E m \in Memories : Begin(m)
  \/ Acknowledge \/ Refuse \/ Mishap \/ Close \/ Kill

Spec == Init /\ [][Next]_vars
=============================================================================
