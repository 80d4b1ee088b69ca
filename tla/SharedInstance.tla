---------------------------- MODULE SharedInstance ----------------------------
(***************************************************************************)
(* What the callers of getInstance and releaseInstance may rely on: all    *)
(* who have an instance share one, the last release destroys it, and until *)
(* it is gone nobody gets it or another one.  How the client does it (the  *)
(* global pointer, the counter, the steps of the destructor) is the        *)
(* business of InstanceLifecycle, which implements this module when calls  *)
(* do not overlap.                                                         *)
(***************************************************************************)
CONSTANTS
    Caller,         \* who may call
    Instance,       \* the instances that may be made
    Null            \* none

VARIABLES
    instance,       \* the one that is not destroyed
    has,            \* the one that each caller has, or is about to get
    made            \* all that were ever made

sharedVars == <<instance, has, made>>

Users == {c \in Caller : has[c] # Null}

SharedInit ==
    /\ instance = Null
    /\ has = [c \in Caller |-> Null]
    /\ made = {}

(* Without a living instance a caller gets one that nobody had before.       *)
GetFirst(c) ==
    /\ instance = Null
    /\ Users = {}
    /\ \E i \in Instance \ made :
        /\ instance' = i
        /\ has' = [has EXCEPT ![c] = i]
        /\ made' = made \cup {i}

(* While others have one it gets the same.                                   *)
GetShared(c) ==
    /\ has[c] = Null
    /\ Users # {}
    /\ has' = [has EXCEPT ![c] = instance]
    /\ UNCHANGED <<instance, made>>

Release(c) ==
    /\ has[c] # Null
    /\ has' = [has EXCEPT ![c] = Null]
    /\ UNCHANGED <<instance, made>>

(* Nobody has it any more.                                                   *)
Destroy ==
    /\ instance # Null
    /\ Users = {}
    /\ instance' = Null
    /\ UNCHANGED <<has, made>>

SharedNext ==
    \/ \E c \in Caller : GetFirst(c) \/ GetShared(c) \/ Release(c)
    \/ Destroy

SharedSpec == SharedInit /\ [][SharedNext]_sharedVars
=============================================================================
