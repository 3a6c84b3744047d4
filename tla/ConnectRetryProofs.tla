-------------------------- MODULE ConnectRetryProofs --------------------------
(* Proofs about ConnectRetry for every bound on the settings.               *)
EXTENDS ConnectRetry, TLAPS

(* A sleep is always followed by an attempt that max_retries allows, and    *)
(* only a transient error leads to one.                                     *)
IInv ==
    /\ TypeOK /\ AttemptsRight /\ ConnectIsOneAttempt
    /\ phase = "sleeping" => attempt < max_retries
    /\ attempt > 1 \/ phase = "sleeping" => body = "raw"

USE DEF Bodies, Transient, Raisable, Errors, Peers, Trying, Ended

(* The initial states satisfy the inductive invariant.                      *)
LEMMA InitEstablishes == Init => IInv
BY BoundsAssumption
   DEF Init, IInv, TypeOK, AttemptsRight, ConnectIsOneAttempt

(* Each sleep is a natural number of units.                                 *)
LEMMA NextWaitNat == TypeOK => NextWait \in Nat
BY BoundsAssumption DEF TypeOK, NextWait

(* Every step preserves the inductive invariant.                            *)
LEMMA StepPreserves == IInv /\ [Next]_vars => IInv'
<1> SUFFICES ASSUME IInv, [Next]_vars PROVE IInv'
  OBVIOUS
<1> USE BoundsAssumption
<1>0. TypeOK /\ NextWait \in Nat
  BY NextWaitNat DEF IInv
<1>1. CASE Dialled \/ Succeeds
  BY <1>1 DEF IInv, Dialled, Succeeds, TypeOK, AttemptsRight,
              ConnectIsOneAttempt, settings
<1>2. ASSUME NEW exc \in Raisable, Fails(exc)
      PROVE  IInv'
  <2>1. CASE error' \in Transient /\ ~LastAttempt
    <3>1. body = "raw"
      BY <1>0, <1>2, <2>1 DEF Fails, BodyRaises, TypeOK
    <3> QED
      BY <1>0, <1>2, <2>1, <3>1
         DEF Fails, GivesUp, BodyRaises, LastAttempt, IInv, TypeOK,
             AttemptsRight, ConnectIsOneAttempt, settings
  <2>2. CASE ~(error' \in Transient /\ ~LastAttempt)
    BY <1>0, <1>2, <2>2
       DEF Fails, GivesUp, BodyRaises, LastAttempt, IInv, TypeOK,
           AttemptsRight, ConnectIsOneAttempt, settings
  <2> QED BY <2>1, <2>2
<1>3. CASE Wakes
  BY <1>3 DEF IInv, Wakes, TypeOK, AttemptsRight, ConnectIsOneAttempt, settings
<1>4. CASE BrokerChanges
  BY <1>4 DEF IInv, BrokerChanges, TypeOK, AttemptsRight, ConnectIsOneAttempt,
              settings
<1>5. CASE UNCHANGED vars
  BY <1>5 DEF IInv, TypeOK, AttemptsRight, ConnectIsOneAttempt, vars, settings
<1> QED BY <1>1, <1>2, <1>3, <1>4, <1>5 DEF Next, Loop

(* The inductive invariant holds in every reachable state.                  *)
LEMMA Invariance == Spec => []IInv
BY InitEstablishes, StepPreserves, PTL DEF Spec

(* connect() makes a single attempt and never sleeps.                       *)
THEOREM OneAttempt == Spec => []ConnectIsOneAttempt
<1>1. IInv => ConnectIsOneAttempt
  BY DEF IInv
<1> QED BY <1>1, Invariance, PTL

(* The loop respects max_retries and gives up early only for an error that  *)
(* is not transient.                                                        *)
THEOREM AttemptsCorrect == Spec => []AttemptsRight
<1>1. IInv => AttemptsRight
  BY DEF IInv
<1> QED BY <1>1, Invariance, PTL

(* The variables have their types.                                          *)
THEOREM TypeCorrect == Spec => []TypeOK
<1>1. IInv => TypeOK
  BY DEF IInv
<1> QED BY <1>1, Invariance, PTL

-----------------------------------------------------------------------------
(* How long the loop sleeps *)

Cap == 8 * retry_delay

(* WaitsBounded for every phase: a sleep counts when it begins.             *)
WInv ==
    /\ attempt > 1 \/ phase = "sleeping" => retry_delay <= wait /\ wait <= Cap
    /\ waited <= Cap * (IF phase = "sleeping" THEN attempt ELSE attempt - 1)

(* The next sleep is within the bounds.                                     *)
LEMMA NextWaitBounds ==
    ASSUME IInv, WInv
    PROVE  NextWait \in Nat /\ retry_delay <= NextWait /\ NextWait <= Cap
BY BoundsAssumption DEF IInv, TypeOK, WInv, NextWait, Cap

(* Every step keeps the sleeps within their bounds.                         *)
LEMMA WaitsStep ==
    ASSUME IInv, WInv, [Next]_vars
    PROVE  WInv'
<1>0. TypeOK /\ Cap \in Nat /\ attempt \in Nat \ {0} /\ retry_delay \in Nat
  BY BoundsAssumption DEF IInv, TypeOK, Cap
<1>1. CASE Dialled \/ Succeeds
  BY <1>0, <1>1 DEF WInv, Dialled, Succeeds, Cap, settings
<1>2. ASSUME NEW exc \in Raisable, Fails(exc)
      PROVE  WInv'
  <2>1. CASE phase' = "sleeping"
    <3>1. /\ phase \in Trying /\ wait' = NextWait
          /\ waited' = waited + NextWait
          /\ attempt' = attempt /\ retry_delay' = retry_delay
      BY <1>2, <2>1 DEF Fails, GivesUp, settings
    <3>2. waited <= Cap * (attempt - 1)
      BY <3>1 DEF WInv
    <3>3. Cap * attempt = Cap * (attempt - 1) + Cap
      BY <1>0
    <3>4. Cap * attempt \in Nat /\ Cap * (attempt - 1) \in Nat
      BY <1>0
    <3>5. waited + NextWait <= Cap * attempt
      <4> DEFINE p == Cap * (attempt - 1)
                 q == Cap * attempt
      <4>1. waited \in Nat /\ p \in Nat /\ q = p + Cap /\ waited <= p
        BY <1>0, <3>2, <3>3, <3>4 DEF TypeOK
      <4> HIDE DEF p, q
      <4>2. waited + NextWait <= q
        BY <1>0, <4>1, NextWaitBounds
      <4> QED BY <4>2 DEF q
    <3>6. Cap' = Cap
      BY <3>1 DEF Cap
    <3> QED BY <2>1, <3>1, <3>5, <3>6, NextWaitBounds DEF WInv
  <2>2. CASE phase' # "sleeping"
    BY <1>0, <1>2, <2>2 DEF Fails, GivesUp, WInv, Cap, settings
  <2> QED BY <2>1, <2>2
<1>3. CASE Wakes
  <2>1. /\ phase = "sleeping" /\ phase' = "dialling"
        /\ attempt' = attempt + 1 /\ attempt' - 1 = attempt
        /\ wait' = wait /\ waited' = waited /\ retry_delay' = retry_delay
    BY <1>0, <1>3 DEF Wakes, settings
  <2> QED BY <2>1 DEF WInv, Cap
<1>4. CASE BrokerChanges \/ UNCHANGED vars
  BY <1>4 DEF BrokerChanges, WInv, Cap, vars, settings
<1> QED BY <1>1, <1>2, <1>3, <1>4 DEF Next, Loop

(* Every sleep lasts between retry_delay and 8 times that, for every value  *)
(* of both settings.                                                        *)
THEOREM WaitsAreBounded == Spec => []WaitsBounded
<1>1. Init => WInv
  BY BoundsAssumption DEF Init, WInv, Cap
<1>2. IInv /\ WInv /\ [Next]_vars => WInv'
  BY WaitsStep
<1>3. IInv /\ WInv => WaitsBounded
  BY DEF WInv, Cap, WaitsBounded
<1> QED BY <1>1, <1>2, <1>3, Invariance, PTL DEF Spec
=============================================================================
