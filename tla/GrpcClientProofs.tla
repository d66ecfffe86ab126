-------------------------- MODULE GrpcClientProofs --------------------------
(***************************************************************************)
(* Proofs about GrpcClient, for any number of endpoints, tasks and changes *)
(* of what the endpoints serve.                                            *)
(***************************************************************************)
EXTENDS GrpcClient, TLAPS

\* A query under way has not tried all endpoints; none that it tried has served
\* throughout, and those that did serve now.
QueryProgress ==
    \A t \in Tasks :
        call[t].pc = "query" =>
            /\ call[t].tried < EndpointCount
            /\ call[t].steady \subseteq answers
            /\ \A n \in 0..(call[t].tried - 1) : Ring(call[t].start, n) \notin call[t].steady

IInv == TypeOK /\ QueryProgress /\ FailsOnlyUnserved

\* Walking the ring stays in it.
LEMMA RingStays ==
    ASSUME NEW start \in Eps, NEW n \in Nat
    PROVE  Ring(start, n) \in Eps
BY EndpointAssumption DEF Ring, Eps

\* From any start, the ring comes past every endpoint within one round.
LEMMA RingCovers ==
    ASSUME NEW start \in Eps, NEW e \in Eps
    PROVE  \E n \in 0..(EndpointCount - 1) : Ring(start, n) = e
<1>1. CASE start <= e
  <2>1. e - start \in 0..(EndpointCount - 1) /\ start + (e - start) = e
    BY <1>1, EndpointAssumption DEF Eps
  <2>2. e % EndpointCount = e
    BY EndpointAssumption DEF Eps
  <2> QED
    BY <2>1, <2>2 DEF Ring
<1>2. CASE e < start
  <2>1. (e + EndpointCount) - start \in 0..(EndpointCount - 1)
        /\ start + ((e + EndpointCount) - start) = e + EndpointCount
    BY <1>2, EndpointAssumption DEF Eps
  <2>2. (e + EndpointCount) % EndpointCount = e
    BY EndpointAssumption DEF Eps
  <2> QED
    BY <2>1, <2>2 DEF Ring
<1> QED
  BY <1>1, <1>2, EndpointAssumption DEF Eps

\* No call is under way at the start.
LEMMA InitIInv == Init => IInv
BY EndpointAssumption, FlipAssumption
   DEF Init, IInv, TypeOK, QueryProgress, FailsOnlyUnserved, NoCall, CallState, Eps

\* The steps of a task keep the invariant.
LEMMA TaskStep ==
    ASSUME IInv, NEW t \in Tasks, Return(t) \/ Step(t)
    PROVE  IInv'
<1> USE EndpointAssumption DEF IInv, TypeOK, QueryProgress, FailsOnlyUnserved, CallState
<1>0. 0 \in Eps /\ Trying(t) \in Eps
  <2>1. call[t].start \in Eps /\ call[t].tried \in Nat
    OBVIOUS
  <2>2. Trying(t) \in Eps
    BY <2>1, RingStays DEF Trying
  <2>3. 0 \in Eps
    BY DEF Eps
  <2> QED
    BY <2>2, <2>3
<1>1. ASSUME NEW what \in {"balance", "fee"}, StartQuery(t, what) PROVE IInv'
  BY <1>1 DEF StartQuery
<1>2. CASE QueryAnswered(t)
  BY <1>0, <1>2 DEF QueryAnswered, Prefer
<1>3. CASE QueryRefused(t)
  <2>1. Trying(t) \notin call[t].steady
    BY <1>3 DEF QueryRefused
  <2>2. \A n \in 0..call[t].tried : Ring(call[t].start, n) \notin call[t].steady
    <3> SUFFICES ASSUME NEW n \in 0..call[t].tried
                 PROVE  Ring(call[t].start, n) \notin call[t].steady
      OBVIOUS
    <3>1. CASE n = call[t].tried
      BY <2>1, <3>1 DEF Trying
    <3>2. CASE n # call[t].tried
      <4>1. n \in 0..(call[t].tried - 1)
        BY <3>2
      <4> QED
        BY <1>3, <4>1 DEF QueryRefused
    <3> QED
      BY <3>1, <3>2
  <2>3. CASE call[t].tried + 1 = EndpointCount
    <3>1. call[t].steady = {}
      BY <2>2, <2>3, RingCovers
    <3> QED
      BY <1>3, <2>3, <3>1 DEF QueryRefused
  <2>4. CASE call[t].tried + 1 # EndpointCount
    <3>1. call' = [call EXCEPT ![t].tried = call[t].tried + 1, ![t].pc = "query"]
      BY <1>3, <2>4 DEF QueryRefused
    <3>2. call[t].tried + 1 \in 0..EndpointCount /\ call[t].tried + 1 < EndpointCount
      BY <1>3, <2>4 DEF QueryRefused
    <3>3. call[t].pc = "query" /\ UNCHANGED <<current, answers, accepts, flips>>
      BY <1>3 DEF QueryRefused
    <3>4. TypeOK'
      BY <3>1, <3>2, <3>3, ZenonT(60)
    <3>5. QueryProgress' /\ FailsOnlyUnserved'
      BY <2>2, <3>1, <3>2, <3>3
    <3> QED
      BY <3>4, <3>5
  <2> QED
    BY <2>3, <2>4
<1>4. CASE SubmitForward(t)
  BY <1>0, <1>4 DEF SubmitForward
<1>5. CASE Leave(t)
  BY <1>0, <1>5 DEF Leave, NoCall
<1>6. CASE SubmitAccepted(t)
  BY <1>0, <1>6 DEF SubmitAccepted, NoCall
<1>7. CASE SubmitFailed(t)
  <2>1. Ring(call[t].start, 1) \in Eps
    BY RingStays
  <2> QED
    BY <1>0, <1>7, <2>1 DEF SubmitFailed, NoCall
<1> QED
  BY <1>1, <1>2, <1>3, <1>4, <1>5, <1>6, <1>7 DEF Return, Step, QueryBalance, QueryFee

\* A change of what an endpoint serves keeps the invariant.
LEMMA FlipStep ==
    ASSUME IInv, NEW e \in Eps, Flip(e)
    PROVE  IInv'
<1>1. answers' \subseteq Eps /\ accepts' \subseteq Eps /\ flips' \in 0..MaxFlips
  BY FlipAssumption DEF IInv, TypeOK, Flip, Toggle
<1>2. ASSUME NEW t \in Tasks
      PROVE  /\ call[t] \in CallState
             /\ call'[t] = [call[t] EXCEPT !.steady = call[t].steady \cap answers']
  BY DEF IInv, TypeOK, Flip
<1>3. ASSUME NEW t \in Tasks
      PROVE  /\ call'[t] \in CallState
             /\ call'[t].pc = call[t].pc /\ call'[t].start = call[t].start
             /\ call'[t].tried = call[t].tried
             /\ call'[t].steady = call[t].steady \cap answers'
  <2> DEFINE steady == call[t].steady \cap answers'
  <2>1. call'[t] = [call[t] EXCEPT !.steady = steady] /\ call[t] \in CallState
    BY <1>2
  <2>2. steady \subseteq Eps
    BY <2>1 DEF CallState
  <2> HIDE DEF steady
  <2>3. /\ call'[t] \in CallState
        /\ call'[t].pc = call[t].pc /\ call'[t].start = call[t].start
        /\ call'[t].tried = call[t].tried /\ call'[t].steady = steady
    BY <2>1, <2>2 DEF CallState
  <2> QED
    BY <2>3 DEF steady
<1>4. TypeOK'
  <2>1. call' \in [Tasks -> CallState]
    BY <1>3 DEF Flip
  <2> QED
    BY <1>1, <2>1 DEF IInv, TypeOK, Flip
<1>5. QueryProgress'
  BY <1>3 DEF IInv, QueryProgress
<1>6. FailsOnlyUnserved'
  BY <1>3 DEF IInv, FailsOnlyUnserved
<1> QED
  BY <1>4, <1>5, <1>6 DEF IInv

\* Every step keeps the invariant.
LEMMA IInvStep == IInv /\ [Next]_vars => IInv'
<1> SUFFICES ASSUME IInv, [Next]_vars PROVE IInv'
  OBVIOUS
<1>1. CASE UNCHANGED vars
  BY <1>1 DEF vars, IInv, TypeOK, QueryProgress, FailsOnlyUnserved
<1> QED
  BY <1>1, TaskStep, FlipStep DEF Next

\* The client's state keeps its types; the preference is always an endpoint.
THEOREM TypeCorrect == Spec => []TypeOK
<1>1. IInv => TypeOK
  BY DEF IInv
<1> QED
  BY InitIInv, IInvStep, <1>1, PTL DEF Spec

\* A query fails only if no endpoint served queries all along it, however the
\* preference it started from was moved by others meanwhile.
THEOREM FailoverIsComplete == Spec => []FailsOnlyUnserved
<1>1. IInv => FailsOnlyUnserved
  BY DEF IInv
<1> QED
  BY InitIInv, IInvStep, <1>1, PTL DEF Spec
=============================================================================
