----------------------------- MODULE IDRegistry -----------------------------
(***************************************************************************)
(* What stream.Manager and poll.Engine promise their callers about the IDs *)
(* of listeners and polls, without connections or goroutines: an ID is     *)
(* free or held by exactly one registration, an ID that is held cannot be  *)
(* taken, and a registration that has left the registry never comes back.  *)
(* StreamManager and PollEngine implement this module (RefinesRegistry).   *)
(***************************************************************************)
CONSTANTS IDs,            \* listener or poll IDs
          Registrations,  \* one value for each successful Register
          Free            \* the holder of an ID that nobody holds

VARIABLES holder,  \* holder[id]: the registration that holds id, or Free
          issued   \* registrations that have ever held an ID

vars == <<holder, issued>>

Init == /\ holder = [id \in IDs |-> Free]
        /\ issued = {}

\* Register: a new registration takes an ID that is free.
Claim(id) == \E r \in Registrations \ issued :
                /\ holder[id] = Free
                /\ holder' = [holder EXCEPT ![id] = r]
                /\ issued' = issued \cup {r}

\* Unregister, natural completion, or a Register that failed.
Release(id) == /\ holder[id] # Free
               /\ holder' = [holder EXCEPT ![id] = Free]
               /\ UNCHANGED issued

\* Close of the manager.
ReleaseAll == /\ holder' = [id \in IDs |-> Free]
              /\ UNCHANGED issued

Next == \/ \E id \in IDs : Claim(id) \/ Release(id)
        \/ ReleaseAll

Spec == Init /\ [][Next]_vars
=============================================================================
