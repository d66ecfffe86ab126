--------------------------- MODULE ScannerProofs ---------------------------
(***************************************************************************)
(* Proofs about Scanner, for every number of endpoints, chain length,      *)
(* confirmation depth, timeout, set of corrupt heights, and whatever fails:*)
(* the cursor never leaves a gap, and never skips without evidence.        *)
(***************************************************************************)
EXTENDS Scanner, TLAPS

\* A session never aims past what its endpoint has confirmed: with the depth at
\* least the indexing lag, every block it fetches has been indexed.
TargetConfirmed ==
    pc = "scan" => target = 0 \/ target + Depth <= latest[current]

\* What an endpoint said of its retention is still true: it only prunes more.
EvidenceHolds == \A w \in evidence : w.earliest <= earliest[w.ep]

IInv == TypeOK /\ NoGap /\ TargetConfirmed /\ EvidenceHolds

USE DEF Eps, Heights, None, MaxOutages, StoreMayFail

\* saturating_sub stays a natural and within its argument, and what it leaves
\* is a full depth below.
LEMMA ConfirmedBounds ==
    ASSUME NEW h \in Nat
    PROVE  /\ Confirmed(h) \in 0..h
           /\ Confirmed(h) = 0 \/ Confirmed(h) + Depth <= h
BY NumberAssumption DEF Confirmed

\* The scanner starts with nothing to account for.
LEMMA InitIInv == Init => IInv
<1> SUFFICES ASSUME Init PROVE IInv
    OBVIOUS
<1>1. TypeOK
  <2>1. stuck \in [height : Nat \cup {None}, elapsed : 0..Timeout]
        BY NumberAssumption DEF Init, NotStuck
  <2>2. late \in BOOLEAN /\ seenBad \in BOOLEAN
        BY Zenon DEF Init
  <2>3. /\ tip \in Heights /\ outages \in 0..MaxOutages
        /\ target \in 0..MaxHeight /\ current \in Eps /\ asked \in 0..Endpoints
        /\ cursor \in Nat /\ persisted \in Nat \cup {None} /\ base \in Nat
        BY EndpointAssumption, NumberAssumption, ModeAssumption DEF Init
  <2>4. /\ up \subseteq Eps /\ evidence \subseteq Testimony
        /\ earliest \in [Eps -> 1..(MaxHeight + 1)] /\ latest \in [Eps -> 0..MaxHeight]
        /\ fate \in [Heights -> {"unread", "read", "missed", "pruned", "unservable"}]
        BY NumberAssumption DEF Init
  <2> QED BY <2>1, <2>2, <2>3, <2>4 DEF Init, TypeOK
<1>2. NoGap /\ TargetConfirmed /\ EvidenceHolds
    BY DEF Init, NoGap, TargetConfirmed, EvidenceHolds
<1> QED BY <1>1, <1>2 DEF IInv

\* The world outside touches neither the cursor nor what became of a height; what
\* a node has only grows, what it retains only shrinks.
LEMMA OutsideStep == IInv /\ Outside => IInv'
<1> SUFFICES ASSUME IInv, Outside PROVE IInv'
    OBVIOUS
<1> USE EndpointAssumption, NumberAssumption DEF IInv, Machine, chain, session, history
<1>1. CASE Grow
  <2>1. TypeOK' BY <1>1 DEF Grow, TypeOK
  <2>2. (NoGap /\ TargetConfirmed /\ EvidenceHolds)'
        BY <1>1 DEF Grow, NoGap, TargetConfirmed, EvidenceHolds
  <2> QED BY <2>1, <2>2
<1>2. CASE Advance
  <2>1. stuck' \in [height : Nat \cup {None}, elapsed : 0..Timeout]
    <3>1. /\ stuck \in [height : Nat \cup {None}, elapsed : 0..Timeout]
          /\ stuck.elapsed < Timeout
          /\ stuck' = [stuck EXCEPT !.elapsed = stuck.elapsed + 1]
          BY <1>2 DEF Advance, TypeOK
    <3>2. stuck.elapsed + 1 \in 0..Timeout
          BY <3>1
    <3> QED BY <3>1, <3>2
  <2>2. TypeOK' BY <1>2, <2>1 DEF Advance, TypeOK
  <2>3. (NoGap /\ TargetConfirmed /\ EvidenceHolds)'
        BY <1>2 DEF Advance, NoGap, TargetConfirmed, EvidenceHolds
  <2> QED BY <2>2, <2>3
<1>3. ASSUME NEW e \in Eps, Sync(e) PROVE IInv'
  <2>1. TypeOK' BY <1>3, SMTT(30) DEF Sync, TypeOK
  <2>2. TargetConfirmed' BY <1>3, SMTT(30) DEF Sync, TypeOK, TargetConfirmed
  <2>3. (NoGap /\ EvidenceHolds)' BY <1>3 DEF Sync, NoGap, EvidenceHolds
  <2> QED BY <2>1, <2>2, <2>3
<1>4. ASSUME NEW e \in Eps, Prune(e) PROVE IInv'
  <2>1. TypeOK' BY <1>4, SMTT(30) DEF Prune, TypeOK
  <2>2. EvidenceHolds' BY <1>4, SMTT(30) DEF Prune, TypeOK, Testimony, EvidenceHolds
  <2>3. (NoGap /\ TargetConfirmed)' BY <1>4 DEF Prune, NoGap, TargetConfirmed
  <2> QED BY <2>1, <2>2, <2>3
<1>5. ASSUME NEW e \in Eps, GoDown(e) \/ ComeUp(e) PROVE IInv'
  <2>1. outages \in 0..MaxOutages /\ up \subseteq Eps
        BY DEF TypeOK
  <2>2. /\ outages' = outages \/ (outages < MaxOutages /\ outages' = outages + 1)
        /\ up' = up \ {e} \/ up' = up \cup {e}
        BY <1>5 DEF GoDown, ComeUp
  <2>3. outages' \in 0..MaxOutages
        BY <2>1, <2>2, ModeAssumption DEF TypeOK
  <2>4. up' \subseteq Eps
        BY <2>1, <2>2
  <2>5. TypeOK' BY <1>5, <2>3, <2>4 DEF GoDown, ComeUp, TypeOK
  <2>6. (NoGap /\ TargetConfirmed /\ EvidenceHolds)'
        BY <1>5 DEF GoDown, ComeUp, NoGap, TargetConfirmed, EvidenceHolds
  <2> QED BY <2>5, <2>6
<1> QED BY <1>1, <1>2, <1>3, <1>4, <1>5 DEF Outside

\* A cursor that is not the store's own establishes a new base.
LEMMA BootstrapStep ==
    ASSUME NEW h \in Nat, IInv, pc = "boot", Bootstrap(h)
    PROVE  IInv'
<1> USE DEF IInv, Bootstrap, chain, session, recovery
<1>1. TypeOK' BY DEF TypeOK, store_height
<1>2. NoGap' BY DEF TypeOK, NoGap, store_height
<1>3. (TargetConfirmed /\ EvidenceHolds)' BY DEF TargetConfirmed, EvidenceHolds
<1> QED BY <1>1, <1>2, <1>3

\* Where the cursor starts: the store's own cursor inherits what was done up to it.
LEMMA BootStep ==
    IInv /\ (BootPersisted \/ BootStart \/ BootExit \/ \E e \in Eps : BootTip(e)) => IInv'
<1> SUFFICES ASSUME IInv, BootPersisted \/ BootStart \/ BootExit \/ \E e \in Eps : BootTip(e)
             PROVE  IInv'
    OBVIOUS
<1>1. CASE BootPersisted
  <2> USE <1>1 DEF IInv, BootPersisted, chain, session, recovery, history
  <2>1. TypeOK' BY DEF TypeOK
  <2>2. NoGap' BY DEF TypeOK, NoGap
  <2>3. (TargetConfirmed /\ EvidenceHolds)' BY DEF TargetConfirmed, EvidenceHolds
  <2> QED BY <2>1, <2>2, <2>3
<1>2. CASE BootStart
  <2>1. StartHeight \in Nat
        BY ModeAssumption DEF StartHeight, IInv, TypeOK
  <2> QED BY <1>2, <2>1, BootstrapStep DEF BootStart
<1>3. CASE BootExit
  <2> USE <1>3 DEF IInv, BootExit, chain, session, recovery, history
  <2>1. TypeOK' BY DEF TypeOK
  <2>2. (NoGap /\ TargetConfirmed /\ EvidenceHolds)'
        BY DEF NoGap, TargetConfirmed, EvidenceHolds
  <2> QED BY <2>1, <2>2
<1>4. ASSUME NEW e \in Eps, BootTip(e) PROVE IInv'
  <2>1. latest[e] \in Nat BY NumberAssumption, SMTT(30) DEF IInv, TypeOK
  <2> QED BY <1>4, <2>1, BootstrapStep DEF BootTip
<1> QED BY <1>1, <1>2, <1>3, <1>4

\* A session reads block after block, always one its node has indexed.
LEMMA SessionStep ==
    IInv /\ (Connect \/ FetchBlock \/ NewBlock \/ SessionEnds \/ SessionFails) => IInv'
<1> SUFFICES ASSUME IInv, Connect \/ FetchBlock \/ NewBlock \/ SessionEnds \/ SessionFails
             PROVE  IInv'
    OBVIOUS
<1> USE EndpointAssumption, NumberAssumption
    DEF IInv, chain, session, recovery, history
<1>0. latest[current] \in 0..MaxHeight
    BY DEF TypeOK
<1>1. CASE Connect
  <2>1. /\ target' \in 0..MaxHeight
        /\ target' = 0 \/ target' + Depth <= latest[current]
        BY <1>0, <1>1, ConfirmedBounds DEF Connect
  <2>2. TypeOK' BY <1>1, <2>1 DEF Connect, TypeOK
  <2>3. TargetConfirmed' BY <1>1, <2>1 DEF Connect, TargetConfirmed
  <2>4. (NoGap /\ EvidenceHolds)' BY <1>1 DEF Connect, NoGap, EvidenceHolds
  <2> QED BY <2>2, <2>3, <2>4
<1>2. CASE FetchBlock
  <2>1. cursor \in Nat /\ target \in 0..MaxHeight /\ cursor < target
        BY <1>2 DEF FetchBlock, TypeOK
  <2>2. cursor + 1 \in Heights
        BY <2>1
  <2>3. cursor + 1 + IndexLag <= latest[current]
        BY <1>0, <1>2, <2>1, DepthAssumption DEF FetchBlock, TargetConfirmed
  <2>4. /\ fate' = [fate EXCEPT ![cursor + 1] = "read"]
        /\ cursor' = cursor + 1
        /\ persisted' \in {persisted, cursor + 1}
        BY <1>2, <2>3 DEF FetchBlock, store_height
  <2>5. TypeOK'
    <3>1. /\ fate' \in [Heights -> {"unread", "read", "missed", "pruned", "unservable"}]
          /\ cursor' \in Nat /\ persisted' \in Nat \cup {None}
          BY <2>1, <2>2, <2>4 DEF TypeOK
    <3>2. seenBad' \in BOOLEAN
          BY <1>2, Zenon DEF FetchBlock
    <3> QED BY <1>2, <3>1, <3>2 DEF FetchBlock, TypeOK
  <2>6. NoGap' BY <1>2, <2>1, <2>2, <2>4 DEF FetchBlock, TypeOK, NoGap
  <2>7. (TargetConfirmed /\ EvidenceHolds)'
        BY <1>2 DEF FetchBlock, TargetConfirmed, EvidenceHolds
  <2> QED BY <2>5, <2>6, <2>7
<1>3. CASE NewBlock
  <2>1. /\ target' \in 0..MaxHeight
        /\ target' = 0 \/ target' + Depth <= latest[current]
    <3>1. PICK h \in 1..latest[current] : target' = Confirmed(h)
          BY <1>3 DEF NewBlock
    <3> QED BY <1>0, <3>1, ConfirmedBounds
  <2>2. TypeOK' BY <1>3, <2>1 DEF NewBlock, TypeOK
  <2>3. TargetConfirmed' BY <1>3, <2>1 DEF NewBlock, TargetConfirmed
  <2>4. (NoGap /\ EvidenceHolds)' BY <1>3 DEF NewBlock, NoGap, EvidenceHolds
  <2> QED BY <2>2, <2>3, <2>4
<1>4. CASE SessionEnds
  <2>1. stuck' \in [height : Nat \cup {None}, elapsed : 0..Timeout]
        BY <1>4 DEF SessionEnds, NotStuck
  <2>2. TypeOK' BY <1>4, <2>1 DEF SessionEnds, TypeOK
  <2>3. (NoGap /\ TargetConfirmed /\ EvidenceHolds)'
        BY <1>4 DEF SessionEnds, NoGap, TargetConfirmed, EvidenceHolds
  <2> QED BY <2>2, <2>3
<1>5. CASE SessionFails
  <2>1. stuck' \in [height : Nat \cup {None}, elapsed : 0..Timeout]
        BY <1>5 DEF SessionFails, TypeOK
  <2>2. current' \in Eps
        BY <1>5 DEF SessionFails, TypeOK
  <2>3. late' \in BOOLEAN
        BY <1>5 DEF SessionFails
  <2>4. TypeOK' BY <1>5, <2>1, <2>2, <2>3 DEF SessionFails, TypeOK
  <2>5. (NoGap /\ TargetConfirmed /\ EvidenceHolds)'
        BY <1>5 DEF SessionFails, NoGap, TargetConfirmed, EvidenceHolds
  <2> QED BY <2>4, <2>5
<1> QED BY <1>1, <1>2, <1>3, <1>4, <1>5

\* Gathering evidence leaves the cursor alone and records what is true.
LEMMA AskingStep == IInv /\ (AskInVain \/ AskStatus \/ AskProbe) => IInv'
<1> SUFFICES ASSUME IInv, AskInVain \/ AskStatus \/ AskProbe PROVE IInv'
    OBVIOUS
<1> USE EndpointAssumption, NumberAssumption
    DEF IInv, Asking, chain, session, history
<1>0. UNCHANGED Asking
    BY DEF AskInVain, AskStatus, AskProbe
<1>1. /\ evidence' \subseteq Testimony
      /\ asked' \in 0..Endpoints
      /\ EvidenceHolds'
  <2>1. CASE AskInVain
        BY <2>1 DEF AskInVain, TypeOK, EvidenceHolds
  <2>2. CASE AskStatus
    <3>1. asked + 1 \in Eps /\ earliest[asked + 1] \in 1..(MaxHeight + 1)
          BY <2>2 DEF AskStatus, TypeOK
    <3>2. PICK probe \in {"todo", "none"} :
              evidence' = evidence \cup {[ep |-> asked + 1, earliest |-> earliest[asked + 1],
                                          probe |-> probe]}
          BY <2>2 DEF AskStatus
    <3>3. [ep |-> asked + 1, earliest |-> earliest[asked + 1], probe |-> probe] \in Testimony
          BY <3>1 DEF Testimony
    <3>4. evidence' \subseteq Testimony
          BY <3>2, <3>3 DEF TypeOK
    <3>5. asked' \in 0..Endpoints
          BY <2>2, <3>1 DEF AskStatus, TypeOK
    <3>6. EvidenceHolds'
          BY <1>0, <3>1, <3>2 DEF EvidenceHolds
    <3> QED BY <3>4, <3>5, <3>6
  <2>3. CASE AskProbe
    <3>1. PICK w \in evidence :
              /\ \E answer \in {"ok", "failed"} :
                    evidence' = (evidence \ {w}) \cup {[w EXCEPT !.probe = answer]}
              /\ asked' = w.ep
          BY <2>3 DEF AskProbe
    <3>2. PICK answer \in {"ok", "failed"} :
              evidence' = (evidence \ {w}) \cup {[w EXCEPT !.probe = answer]}
          BY <3>1
    <3>3. w \in Testimony
          BY DEF TypeOK
    <3>4. /\ [w EXCEPT !.probe = answer] \in Testimony
          /\ [w EXCEPT !.probe = answer].ep = w.ep
          /\ [w EXCEPT !.probe = answer].earliest = w.earliest
          /\ w.ep \in Eps
          BY <3>3 DEF Testimony
    <3>5. evidence' \subseteq Testimony
          BY <3>2, <3>4 DEF TypeOK
    <3>6. asked' \in 0..Endpoints
          BY <3>1, <3>4
    <3>7. EvidenceHolds'
          BY <1>0, <3>2, <3>4 DEF EvidenceHolds
    <3> QED BY <3>5, <3>6, <3>7
  <2> QED BY <2>1, <2>2, <2>3
<1>2. TypeOK' BY <1>0, <1>1 DEF TypeOK
<1>3. (NoGap /\ TargetConfirmed)' BY <1>0 DEF NoGap, TargetConfirmed
<1> QED BY <1>1, <1>2, <1>3

\* What a skip does, whatever the reason: it accounts for every height it passes.
LEMMA SkipStep ==
    ASSUME IInv, NEW h \in Nat, NEW why \in {"pruned", "unservable"},
           advance_cursor(h, why), UNCHANGED base
    PROVE  /\ cursor' \in Nat /\ persisted' \in Nat \cup {None}
           /\ stuck' \in [height : Nat \cup {None}, elapsed : 0..Timeout]
           /\ seenBad' \in BOOLEAN
           /\ fate' \in [Heights -> {"unread", "read", "missed", "pruned", "unservable"}]
           /\ NoGap'
<1> USE DEF IInv, advance_cursor
<1>1. cursor' \in Nat /\ persisted' \in Nat \cup {None}
    BY DEF TypeOK, store_height
<1>2. stuck' \in [height : Nat \cup {None}, elapsed : 0..Timeout]
    BY NumberAssumption DEF NotStuck
<1>3. seenBad' \in BOOLEAN
    BY Zenon
<1>4. fate' \in [Heights -> {"unread", "read", "missed", "pruned", "unservable"}]
    BY DEF TypeOK
<1>5. NoGap'
    BY DEF TypeOK, NoGap, store_height
<1> QED BY <1>1, <1>2, <1>3, <1>4, <1>5

\* The verdict is acted on: stay, or skip.
LEMMA AssessStep == IInv /\ Assess => IInv'
<1> SUFFICES ASSUME IInv, Assess PROVE IInv'
    OBVIOUS
<1>0. UNCHANGED base
    BY DEF Assess
<1>1. /\ cursor' \in Nat /\ persisted' \in Nat \cup {None}
      /\ stuck' \in [height : Nat \cup {None}, elapsed : 0..Timeout]
      /\ seenBad' \in BOOLEAN
      /\ fate' \in [Heights -> {"unread", "read", "missed", "pruned", "unservable"}]
      /\ NoGap'
  <2>1. CASE Stay(TRUE) \/ Stay(FALSE)
    <3>1. seenBad' \in BOOLEAN
          BY <2>1, Zenon DEF Stay
    <3>2. UNCHANGED <<cursor, persisted, fate, stuck>>
          BY <2>1 DEF Stay
    <3> QED BY <1>0, <3>1, <3>2 DEF IInv, TypeOK, NoGap
  <2>2. CASE \E w \in evidence : advance_cursor(w.earliest - 1, "pruned")
    <3>1. PICK w \in evidence : advance_cursor(w.earliest - 1, "pruned")
          BY <2>2
    <3>2. w.earliest - 1 \in Nat
          BY NumberAssumption DEF IInv, TypeOK, Testimony
    <3> QED BY <1>0, <3>1, <3>2, SkipStep
  <2>3. CASE advance_cursor(cursor + 1, "unservable")
    <3>1. cursor + 1 \in Nat
          BY DEF IInv, TypeOK
    <3> QED BY <1>0, <2>3, <3>1, SkipStep
  <2> QED BY <2>1, <2>2, <2>3 DEF Assess
<1>2. /\ UNCHANGED <<chain, session>>
      /\ pc' = "connect" /\ asked' = 0 /\ evidence' = {}
    BY DEF Assess
<1>3. late' \in BOOLEAN
    BY Zenon DEF Assess
<1>4. base' \in Nat
    BY DEF Assess, IInv, TypeOK
<1>5. TypeOK'
    BY <1>1, <1>2, <1>3, <1>4, EndpointAssumption DEF IInv, TypeOK, chain, session
<1>6. (TargetConfirmed /\ EvidenceHolds)'
    BY <1>2 DEF TargetConfirmed, EvidenceHolds
<1> QED BY <1>1, <1>5, <1>6 DEF IInv

\* A crash loses everything but the store, whose cursor is already accounted for.
LEMMA CrashStep == IInv /\ Crash => IInv'
<1> SUFFICES ASSUME IInv, Crash PROVE IInv'
    OBVIOUS
<1> USE EndpointAssumption, NumberAssumption DEF IInv, Crash, chain
<1>1. late' \in BOOLEAN /\ seenBad' \in BOOLEAN
    BY Zenon
<1>2. stuck' \in [height : Nat \cup {None}, elapsed : 0..Timeout]
    BY DEF NotStuck
<1>3. TypeOK'
    BY <1>1, <1>2 DEF TypeOK
<1>4. (NoGap /\ TargetConfirmed /\ EvidenceHolds)'
    BY DEF NoGap, TargetConfirmed, EvidenceHolds
<1> QED BY <1>3, <1>4

\* Every step keeps the inductive invariant.
LEMMA IInvStep == IInv /\ [Next]_vars => IInv'
<1> SUFFICES ASSUME IInv, [Next]_vars PROVE IInv'
    OBVIOUS
<1>1. CASE UNCHANGED vars
    BY <1>1 DEF IInv, TypeOK, NoGap, TargetConfirmed, EvidenceHolds, vars, chain,
                session, recovery, history
<1> QED BY <1>1, OutsideStep, BootStep, SessionStep, AskingStep, AssessStep, CrashStep
        DEF Next, Scanning

\* The inductive invariant holds throughout.
LEMMA Invariance == Spec => []IInv
BY InitIInv, IInvStep, PTL DEF Spec

\* Type correctness: heights, endpoints, targets and the tracker's clock stay in
\* range, the round-robin index and the saturating subtraction included.
THEOREM TypeCorrect == Spec => []TypeOK
<1>1. IInv => TypeOK
    BY DEF IInv
<1> QED BY Invariance, <1>1, PTL

\* The cursor, in memory and in the store, never leaves a height behind unread
\* without evidence, through failovers, crashes and failed writes.
THEOREM CursorLeavesNoGap == Spec => []NoGap
<1>1. IInv => NoGap
    BY DEF IInv
<1> QED BY Invariance, <1>1, PTL

\* A height is given up as pruned only when every endpoint has pruned it or the
\* timeout has passed, as unservable only after the timeout: evidence gathered
\* endpoint by endpoint is still true when it is acted on.
THEOREM NoSkipWithoutEvidence == Spec => SkipsNeedEvidence
<1> DEFINE Justified(h) ==
         /\ fate[h] # "pruned" /\ fate'[h] = "pruned"
            => late \/ \A e \in Eps : earliest[e] > h
         /\ fate[h] # "unservable" /\ fate'[h] = "unservable"
            => late /\ h = cursor + 1
<1>1. ASSUME IInv, [Next]_vars PROVE \A h \in Heights : Justified(h)
  <2> SUFFICES ASSUME NEW h \in Heights PROVE Justified(h)
      OBVIOUS
  <2>1. CASE UNCHANGED fate
        BY <2>1
  <2>2. CASE FetchBlock
    <3>1. \E what \in {"read", "missed"} : fate' = [fate EXCEPT ![cursor + 1] = what]
          BY <2>2 DEF FetchBlock
    <3>2. fate'[h] = fate[h] \/ fate'[h] \in {"read", "missed"}
          BY <1>1, <3>1 DEF IInv, TypeOK
    <3> QED BY <3>2
  <2>3. CASE Assess
    <3>1. CASE \E w \in evidence : /\ IsLowest(w)
                                   /\ advance_cursor(w.earliest - 1, "pruned")
                                   /\ Unanimous \/ late
      <4>1. PICK w \in evidence : /\ IsLowest(w)
                                  /\ advance_cursor(w.earliest - 1, "pruned")
                                  /\ Unanimous \/ late
            BY <3>1
      <4>2. fate'[h] = fate[h] \/ (fate'[h] = "pruned" /\ h <= w.earliest - 1)
            BY <4>1 DEF advance_cursor
      <4>3. ASSUME Unanimous, h <= w.earliest - 1, NEW e \in Eps PROVE earliest[e] > h
        <5>1. PICK v \in evidence : v.ep = e
              BY <4>3 DEF Unanimous
        <5>2. w.earliest \in Nat /\ v.earliest \in Nat /\ earliest[e] \in Nat
              BY <1>1, <4>1, <5>1, NumberAssumption, SMTT(30) DEF IInv, TypeOK, Testimony
        <5>3. w.earliest <= v.earliest /\ v.earliest <= earliest[e]
              BY <1>1, <4>1, <5>1 DEF IsLowest, IInv, EvidenceHolds
        <5> QED BY <4>3, <5>2, <5>3
      <4> QED BY <4>1, <4>2, <4>3
    <3>2. CASE advance_cursor(cursor + 1, "unservable") /\ late
      <4>1. fate'[h] = fate[h] \/ (fate'[h] = "unservable" /\ cursor < h /\ h <= cursor + 1)
            BY <3>2 DEF advance_cursor
      <4>2. cursor < h /\ h <= cursor + 1 => h = cursor + 1
            BY <1>1 DEF IInv, TypeOK
      <4> QED BY <3>2, <4>1, <4>2
    <3>3. CASE Stay(TRUE) \/ Stay(FALSE)
          BY <3>3 DEF Stay
    <3> QED BY <2>3, <3>1, <3>2, <3>3 DEF Assess
  <2>4. FetchBlock \/ Assess \/ UNCHANGED fate
        BY <1>1 DEF Next, Scanning, Outside, vars, history, Machine, Asking, Grow, Sync,
                    Prune, GoDown, ComeUp, Advance, BootPersisted, BootStart, BootTip,
                    BootExit, Bootstrap, Connect, NewBlock, SessionEnds, SessionFails,
                    AskInVain, AskStatus, AskProbe, Crash
  <2> QED BY <2>1, <2>2, <2>3, <2>4
<1> QED BY Invariance, <1>1, PTL DEF Spec, SkipsNeedEvidence
=============================================================================
