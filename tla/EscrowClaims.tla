----------------------------- MODULE EscrowClaims -----------------------------
(***************************************************************************)
(* What a comment of the SDK says of the escrow program and the program    *)
(* does not do: a run of its own finds the behaviour that contradicts it.  *)
(***************************************************************************)
EXTENDS Escrow

(* sdk/src/types.ts: a timed pact's "Funds auto-release to beneficiary     *)
(* when timeLockExpiresAt is reached".  The refund crank does not look at  *)
(* auto_release_on_expiry: past the time lock whoever cranks first decides. *)
TimedPactsRelease ==
    [][\A e \in EscrowIds :
         Status(e) = "Locked" /\ Pact(e).auto_release_on_expiry
           /\ escrow'[e].status = "Refunded" => CountsAsDispute(e)]_vars
================================================================================
