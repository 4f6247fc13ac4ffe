-------------------------------- MODULE Clients --------------------------------
(***************************************************************************)
(* The escrow program with an application that calls the SDK (or the       *)
(* wizard), the keeper, and the rest of the world, whose transactions are  *)
(* Escrow actions that come at any time.                                   *)
(***************************************************************************)
EXTENDS SdkCalls, Keeper

allVars == <<vars, calls, pacts, keeper>>

ClientsInit == Init /\ SdkInit /\ KeeperInit

ClientsNext ==
    \/ Next /\ CountPacts /\ UNCHANGED <<calls, keeper>>
    \/ (\E c \in CallIds : SdkStep(c)) /\ UNCHANGED keeper
    \/ KeeperStep /\ UNCHANGED <<calls, pacts>>

(* The clock advances; an RPC answers, or fails, in the end; the keeper    *)
(* keeps polling.  Where its client has a listing and a crank, every       *)
(* locked pact is listed from time to time, and a crank that is sent again *)
(* and again while it is due lands at last; with SdkHasCrank = FALSE no    *)
(* poll lists anything and those two conditions ask for nothing.           *)
ClientsFairness ==
    /\ WF_allVars(Tick /\ UNCHANGED <<calls, pacts, keeper>>)
    /\ \A c \in CallIds : WF_allVars(Proceed(c) /\ UNCHANGED <<vars, pacts, keeper>>)
    /\ \A e \in EscrowIds :
         /\ SF_allVars(Poll /\ e \in keeper' /\ UNCHANGED <<calls, pacts>>)
         /\ WF_allVars((CrankLands(e) \/ CrankFails(e)) /\ UNCHANGED <<calls, pacts>>)
         /\ SF_allVars(CrankLands(e) /\ UNCHANGED <<calls, pacts>>)

ClientsSpec == ClientsInit /\ [][ClientsNext]_allVars /\ ClientsFairness

--------------------------------------------------------------------------------
ClientsTypeOK ==
    /\ TypeOK
    /\ calls \in [CallIds -> Call]
    /\ pacts \in [EscrowIds -> Nat]
    /\ keeper \subseteq EscrowIds

(* However often the SDK resends a transaction it was told is lost, and    *)
(* the plugin a call, what was asked for happens to a pact at most once: a *)
(* deposit, a stake or a dispute is never taken twice from one pact, even  *)
(* when several attempts are on their way together.  (An attempt that      *)
(* lands after its pact was closed and its id taken again acts on the new  *)
(* pact: nothing in the transaction says which one was meant.)             *)
RetriesTakeEffectOnce ==
    \A c \in CallIds :
        \A i, k \in DOMAIN calls[c].effects :
            calls[c].effects[i] = calls[c].effects[k] => i = k

(* Where a pact must have got to for an operation on it to have succeeded. *)
Achieved(op, e) ==
    CASE op = "depositEscrow"    -> Status(e) # "Pending"
      [] op = "stakeBeneficiary" -> escrow[e].beneficiary_staked
      [] op = "lockEscrow"       -> Status(e) \notin {"Pending", "Funded"}
      [] op = "releasePact"      -> Status(e) \notin {"Pending", "Funded", "Locked"}
      [] op = "openDispute"      -> dispute[e].created_at > 0
      [] op = "createPact"       -> TRUE
      [] OTHER                   -> FALSE

(* A call of the SDK that returned a signature has had its effect, and a   *)
(* pact it had it on is still past it or closed, whatever others did       *)
(* meanwhile; the calls the program always refuses never return one.       *)
SuccessStaysTrue ==
    \A c \in CallIds :
        LET e == Req(c).id
            effects == calls[c].effects
        IN  calls[c].outcome = "ok" /\ Req(c).op # "handleSubmit" =>
                /\ effects # <<>>
                /\ \A k \in DOMAIN effects :
                     \/ effects[k] < pacts[e]
                     \/ Status(e) = "Absent" \/ Achieved(Req(c).op, e)

(* Every call returns: the retry loop ends.                                *)
CallsReturn ==
    \A c \in CallIds : InPhase(c, "reading") ~> InPhase(c, "returned")

(* A locked pact whose time lock ran out does not stay locked, though the  *)
(* keeper's list is stale when it cranks and any single crank may fail:    *)
(* what sak-integration-guide.md:215 promises of timed pacts.  The         *)
(* keeper's loop keeps it over a client with the two methods it calls; the *)
(* SDK of the repository has neither, every poll throws, and it fails.     *)
ExpiredLeaveLocked ==
    \A e \in EscrowIds : Status(e) = "Locked" /\ IsExpired(e) ~> Status(e) # "Locked"
================================================================================
