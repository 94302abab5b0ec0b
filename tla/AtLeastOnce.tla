---------------------------- MODULE AtLeastOnce ----------------------------
(***************************************************************************)
(* What the durable update inbox promises: an update is finished only      *)
(* after it was answered, at least once, and an update that is finished or *)
(* given up stays so.                                                      *)
(***************************************************************************)
CONSTANT Updates

VARIABLES accepted, answered, finished, dead

avars == <<accepted, answered, finished, dead>>

AInit == accepted = {} /\ answered = {} /\ finished = {} /\ dead = {}

Open == accepted \ (finished \cup dead)

Accept(u) ==
  /\ u \notin accepted
  /\ accepted' = accepted \cup {u}
  /\ UNCHANGED <<answered, finished, dead>>

(* Also of a settled update: a slow consumer may still have it in its batch. *)
Answer(u) ==
  /\ u \in accepted
  /\ answered' = answered \cup {u}
  /\ UNCHANGED <<accepted, finished, dead>>

Finish(u) ==
  /\ u \in Open \cap answered
  /\ finished' = finished \cup {u}
  /\ UNCHANGED <<accepted, answered, dead>>

GiveUp(u) ==
  /\ u \in Open
  /\ dead' = dead \cup {u}
  /\ UNCHANGED <<accepted, answered, finished>>

ANext == \E u \in Updates : Accept(u) \/ Answer(u) \/ Finish(u) \/ GiveUp(u)

AtLeastOnceSpec == AInit /\ [][ANext]_avars
=============================================================================
