-------------------------------- MODULE Keeper --------------------------------
(***************************************************************************)
(* The keeper: every poll interval it lists the locked pacts whose time    *)
(* lock has expired and cranks auto_release on them one by one, each       *)
(* failure caught and logged.  A dry run, which only logs, is left out.    *)
(*                                                                         *)
(* The two client methods it calls, listAutoReleaseCandidates and          *)
(* autoRelease, are declared in a shim beside the keeper and are in no     *)
(* source of the SDK it depends on.  SdkHasCrank = FALSE is the code as it *)
(* is: the first of them throws in every cycle.  SdkHasCrank = TRUE is the *)
(* same loop over the client it is typed against: a listing of locked      *)
(* pacts, at most a limit of them, and one auto_release transaction.       *)
(***************************************************************************)
EXTENDS Escrow

CONSTANTS
    MaxCandidatesPerPoll,   \* config.maxCandidatesPerPoll
    SdkHasCrank             \* FALSE in the repository, see above

ASSUME KeeperAssumption ==
    /\ MaxCandidatesPerPoll \in Nat \ {0}
    /\ SdkHasCrank \in BOOLEAN

VARIABLE keeper     \* the expired candidates of this cycle not cranked yet

IsExpired(e) == now > escrow[e].time_lock_expires_at

KeeperInit == keeper = {}

(* What a listing may return.  One that throws, as every listing does when *)
(* the method is missing, is caught: a cycle that found none.              *)
Listings ==
    IF SdkHasCrank
    THEN {candidates \in SUBSET {e \in EscrowIds : Status(e) = "Locked"} :
            Cardinality(candidates) <= MaxCandidatesPerPoll}
    ELSE {{}}

(* The poll cycle: of what is listed, the expired pacts are kept.          *)
Poll ==
    /\ keeper = {}
    /\ \E candidates \in Listings : keeper' = {e \in candidates : IsExpired(e)}
    /\ UNCHANGED vars

(* autoRelease(candidate) landed, whether the keeper learns of it or not.  *)
CrankLands(e) ==
    /\ e \in keeper
    /\ keeper' = keeper \ {e}
    /\ AutoRelease(e)

(* ... or threw: refused, for the pact moved on since it was listed, or    *)
(* lost on the way.  The loop goes on with the next candidate.             *)
CrankFails(e) ==
    /\ e \in keeper
    /\ keeper' = keeper \ {e}
    /\ UNCHANGED vars

KeeperStep ==
    \/ Poll
    \/ \E e \in EscrowIds : CrankLands(e) \/ CrankFails(e)
================================================================================
