------------------------------ MODULE Library -------------------------------
(***************************************************************************)
(* The parts of the library that share no state with each other, side by   *)
(* side: the portable contexts, the multi-hash streams, the AES modes GCM, *)
(* XTS and CBC, the rolling hash, the dispatch of the managers and the     *)
(* checked entry points.  A behaviour is one of these machines; the others *)
(* keep their initial state.                                               *)
(***************************************************************************)
EXTENDS BaseCtx, MultiHash, GcmStream, XtsSector, CbcChain, RollingHash, Dispatch, CheckedApi

CONSTANT Parts      \* the machines to run

VARIABLE part       \* the machine that runs

vars == <<part, baseVars, mhVars, gcmVars, xtsVars, cbcVars, rhVars, dispVars, apiVars>>

(* A machine that does not run rests in one of its initial states.         *)
Some(S) == CHOOSE x \in S : TRUE

RhAtRest ==
    /\ rhMask = Some(RhTriggers)
    /\ rhLoop = Some(RhLoops)
    /\ rh.w = Some(RhWindows)
    /\ rh.history = [i \in 1 .. rh.w |-> Some(RhByte)]

DispAtRest ==
    /\ machine = Some(Machines)
    /\ family = Some(Families)

ApiAtRest ==
    /\ ~apiFips /\ apiPass
    /\ apiUses = Some(ApiPrograms)

Init ==
    /\ part \in Parts
    /\ BaseInit /\ (part = "base" \/ baseHash = Some(BaseHashes))
    /\ MhInit   /\ (part = "mh" \/ mhKind = Some(MhKinds))
    /\ GcmInit  /\ (part = "gcm" \/ gcmDir = "ENC")
    /\ XtsInit  /\ CbcInit
    /\ RhInit   /\ (part = "rolling" \/ RhAtRest)
    /\ DispInit /\ (part = "dispatch" \/ DispAtRest)
    /\ ApiInit  /\ (part = "api" \/ ApiAtRest)

BaseStep ==
    /\ part = "base" /\ BaseNext
    /\ UNCHANGED <<part, mhVars, gcmVars, xtsVars, cbcVars, rhVars, dispVars, apiVars>>

MhStep ==
    /\ part = "mh" /\ MhNext
    /\ UNCHANGED <<part, baseVars, gcmVars, xtsVars, cbcVars, rhVars, dispVars, apiVars>>

GcmStep ==
    /\ part = "gcm" /\ GcmNext
    /\ UNCHANGED <<part, baseVars, mhVars, xtsVars, cbcVars, rhVars, dispVars, apiVars>>

XtsStep ==
    /\ part = "xts" /\ XtsNext
    /\ UNCHANGED <<part, baseVars, mhVars, gcmVars, cbcVars, rhVars, dispVars, apiVars>>

CbcStep ==
    /\ part = "cbc" /\ CbcNext
    /\ UNCHANGED <<part, baseVars, mhVars, gcmVars, xtsVars, rhVars, dispVars, apiVars>>

RollingStep ==
    /\ part = "rolling" /\ RhNext
    /\ UNCHANGED <<part, baseVars, mhVars, gcmVars, xtsVars, cbcVars, dispVars, apiVars>>

DispatchStep ==
    /\ part = "dispatch" /\ DispNext
    /\ UNCHANGED <<part, baseVars, mhVars, gcmVars, xtsVars, cbcVars, rhVars, apiVars>>

ApiStep ==
    /\ part = "api" /\ ApiNext
    /\ UNCHANGED <<part, baseVars, mhVars, gcmVars, xtsVars, cbcVars, rhVars, dispVars>>

Next ==
    \/ BaseStep
    \/ MhStep
    \/ GcmStep
    \/ XtsStep
    \/ CbcStep
    \/ RollingStep
    \/ DispatchStep
    \/ ApiStep

Spec == Init /\ [][Next]_vars

-----------------------------------------------------------------------------
(* Every machine keeps its state in the shape its code reads it in: the    *)
(* partial blocks never reach a block, the counters and modes stay in      *)
(* their ranges.                                                           *)
TypeOK ==
    /\ part \in Parts
    /\ BaseTypeOK /\ MhTypeOK /\ GcmTypeOK /\ XtsTypeOK /\ CbcTypeOK
    /\ RhTypeOK /\ DispTypeOK /\ ApiTypeOK
=============================================================================
