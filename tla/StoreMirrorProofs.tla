------------------------- MODULE StoreMirrorProofs -------------------------
(***************************************************************************)
(* Proofs about StoreMirror, for every set of addresses and any number of  *)
(* crashes.                                                                *)
(***************************************************************************)
EXTENDS StoreMirror, TLAPS

\* What a forward between the two sections of an operation knows of the other copy:
\* the store has what it is about to put into the map, or the tick has taken it
\* away; the map has nothing of what it is about to clear in the store.
ForwardShape ==
    \A a \in Addrs :
        LET w == worker[a]
            t == worker[a].table
        IN  /\ w.next \in {"idle", "submit", "record"}
            /\ w.pc = "put2" => \/ db[t][a] = w.value
                                \/ db[t][a] = Absent /\ <<t, a>> \in cut
            /\ w.pc = "clear2" => mem[t][a] = Absent

IInv == TypeOK /\ ForwardShape /\ NoGhostRows /\ LostOnlyByRetirement

\* new is old with the value v for one address of one table.
Writes(new, old, t, a, v) ==
    /\ new \in [Tables -> [Addrs -> Values]]
    /\ \A s \in Tables, b \in Addrs : new[s][b] = IF s = t /\ b = a THEN v ELSE old[s][b]

\* The critical sections of an operation, spelled out.
LEMMA Sections ==
    ASSUME TypeOK, NEW t \in Tables, NEW a \in Addrs, NEW v \in Values
    PROVE  /\ Set(WriteOrder[1], t, a, v) => mem' = mem /\ Writes(db', db, t, a, v)
           /\ Set(WriteOrder[2], t, a, v) => db' = db /\ Writes(mem', mem, t, a, v)
           /\ Set(ClearOrder[1], t, a, v) => db' = db /\ Writes(mem', mem, t, a, v)
           /\ Set(ClearOrder[2], t, a, v) => mem' = mem /\ Writes(db', db, t, a, v)
<1>1. ASSUME NEW old \in [Tables -> [Addrs -> Values]]
      PROVE  Writes([old EXCEPT ![t][a] = v], old, t, a, v)
  BY DEF Writes
<1>2. Writes([mem EXCEPT ![t][a] = v], mem, t, a, v)
  BY <1>1 DEF TypeOK
<1>3. Writes([db EXCEPT ![t][a] = v], db, t, a, v)
  BY <1>1 DEF TypeOK
<1> QED
  BY <1>2, <1>3 DEF Set, WriteOrder, ClearOrder

\* The type of the tick's record.
TickState ==
    [pc : TickPc, requests : SUBSET Addrs, retire : SUBSET Addrs, kept : SUBSET Addrs,
     addr : Addrs \cup {NoAddr}, table : Tables]

\* Nothing is recorded at the start.
LEMMA InitIInv == Init => IInv
BY ValueAssumption, NoAddrAssumption
   DEF Init, IInv, TypeOK, ForwardShape, NoGhostRows, LostOnlyByRetirement, Idle, At,
       Sleeping, WorkerState, WorkerPc, TickPc, Tables, Values, Absent

-----------------------------------------------------------------------------
\* The steps of a forward keep the invariant.
LEMMA RunStep ==
    ASSUME IInv, NEW a \in Addrs, Begin(a) \/ Run(a)
    PROVE  IInv'
<1> USE ValueAssumption
    DEF IInv, TypeOK, ForwardShape, NoGhostRows, LostOnlyByRetirement, AtRest,
        ForwardBusy, TickBusy, WorkerState, WorkerPc, Tables, Values, Absent
<1>1. CASE Begin(a)
  BY <1>1 DEF Begin, Goto, ForwardOnly, At
<1>2. CASE Fail(a)
  BY <1>2 DEF Fail, Put, ForwardOnly
<1>3. CASE Record(a)
  BY <1>3 DEF Record, Put, ForwardOnly
<1>4. CASE Clear(a)
  BY <1>4 DEF Clear, ForwardOnly
<1>5. CASE Put1(a)
  <2>1. mem' = mem /\ Writes(db', db, worker[a].table, a, worker[a].value)
    BY <1>5, Sections DEF Put1
  <2> QED
    BY <1>5, <2>1, SMTT(30) DEF Put1, Writes
<1>6. CASE Put2(a)
  <2>0. db' = db /\ Writes(mem', mem, worker[a].table, a, worker[a].value)
    BY <1>6, Sections DEF Put2
  <2>5. worker' = [worker EXCEPT ![a] = [pc |-> worker[a].next, table |-> "retry",
                                          value |-> 0, next |-> "idle"]]
    BY <1>6 DEF Put2, Goto, At
  <2>6. ~ ForwardBusy(worker[a].table, a)' /\ worker'[a].next = "idle"
        /\ worker'[a].pc \notin {"put2", "clear2"}
    BY <2>5, ZenonT(60)
  <2>1. TypeOK'
    BY <1>6, <2>0, <2>5, <2>6 DEF Put2, Writes
  <2>2. ForwardShape'
    BY <1>6, <2>0, <2>5, <2>6 DEF Put2, Writes
  <2>3. NoGhostRows'
    <3> SUFFICES ASSUME NEW t \in Tables, NEW b \in Addrs, AtRest(t, b)', db'[t][b] # Absent
                 PROVE  mem'[t][b] = db'[t][b]
      OBVIOUS
    <3>1. CASE b = a /\ t = worker[a].table
      BY <1>6, <2>0, <3>1, ZenonT(60) DEF Put2, Writes
    <3>2. CASE ~ (b = a /\ t = worker[a].table)
      <4>1. AtRest(t, b) /\ mem'[t][b] = mem[t][b] /\ db'[t][b] = db[t][b]
        BY <1>6, <2>0, <2>5, <3>2 DEF Put2, Writes
      <4> QED
        BY <4>1
    <3> QED
      BY <3>1, <3>2
  <2>4. LostOnlyByRetirement'
    BY <1>6, <2>0, <2>5, <2>6 DEF Put2, Writes
  <2> QED
    BY <2>1, <2>2, <2>3, <2>4
<1>7. CASE Clear1(a)
  <2>0. db' = db /\ Writes(mem', mem, worker[a].table, a, Absent)
    BY <1>7, Sections, SMTT(30) DEF Clear1
  <2>1. TypeOK'
    BY <1>7, <2>0 DEF Clear1, Writes
  <2>2. ForwardShape'
    BY <1>7, <2>0 DEF Clear1, Writes
  <2>3. NoGhostRows'
    BY <1>7, <2>0 DEF Clear1, Writes
  <2>4. LostOnlyByRetirement'
    BY <1>7, <2>0 DEF Clear1, Writes
  <2> QED
    BY <2>1, <2>2, <2>3, <2>4
<1>8. CASE Clear2(a)
  <2>0. mem' = mem /\ Writes(db', db, worker[a].table, a, Absent)
    BY <1>8, Sections DEF Clear2
  <2>5. worker' = [worker EXCEPT ![a] = [pc |-> worker[a].next, table |-> "retry",
                                          value |-> 0, next |-> "idle"]]
    BY <1>8 DEF Clear2, Goto, At
  <2>6. ~ ForwardBusy(worker[a].table, a)' /\ worker'[a].next = "idle"
        /\ worker'[a].pc \notin {"put2", "clear2"}
    BY <2>5, ZenonT(60)
  <2>1. TypeOK'
    BY <1>8, <2>0, <2>5, <2>6 DEF Clear2, Writes
  <2>2. ForwardShape'
    BY <1>8, <2>0, <2>5, <2>6 DEF Clear2, Writes
  <2>3. NoGhostRows'
    BY <1>8, <2>0, <2>5, <2>6 DEF Clear2, Writes
  <2>4. LostOnlyByRetirement'
    BY <1>8, <2>0, <2>5, <2>6 DEF Clear2, Writes
  <2> QED
    BY <2>1, <2>2, <2>3, <2>4
<1> QED
  BY <1>1, <1>2, <1>3, <1>4, <1>5, <1>6, <1>7, <1>8 DEF Run

\* The steps of the tick keep the invariant.
LEMMA TickStep ==
    ASSUME IInv, Tick
    PROVE  IInv'
<1> USE ValueAssumption, NoAddrAssumption
    DEF IInv, TypeOK, ForwardShape, NoGhostRows, LostOnlyByRetirement, AtRest,
        ForwardBusy, TickBusy, WorkerState, WorkerPc, TickPc, Tables, Values, Absent
<1>1. CASE TickFetch
  <2>1. TypeOK'
    BY <1>1 DEF TickFetch, TickOnly, Sleeping
  <2>2. ForwardShape'
    BY <1>1 DEF TickFetch, TickOnly, Sleeping
  <2>3. NoGhostRows'
    BY <1>1 DEF TickFetch, TickOnly, Sleeping
  <2>4. LostOnlyByRetirement'
    BY <1>1 DEF TickFetch, TickOnly, Sleeping
  <2> QED
    BY <2>1, <2>2, <2>3, <2>4
<1>2. CASE TickDecide
  <2>1. TypeOK'
    <3>1. tick' \in TickState
      <4>1. PICK retired \in SUBSET tick.requests :
              tick' = [Sleeping EXCEPT !.pc = "next", !.retire = retired,
                                       !.kept = tick.requests \ retired]
        BY <1>2 DEF TickDecide
      <4>2. retired \in SUBSET Addrs /\ tick.requests \ retired \in SUBSET Addrs
        OBVIOUS
      <4> QED
        BY <4>1, <4>2 DEF Sleeping, TickState
    <3>2. tick'.pc \in {"clear1", "clear2", "delete"} => tick'.addr \in Addrs
      BY <1>2 DEF TickDecide, Sleeping
    <3> QED
      BY <1>2, <3>1, <3>2 DEF TickDecide, TickOnly, TickState
  <2>2. ForwardShape'
    BY <1>2 DEF TickDecide, TickOnly, Sleeping
  <2>3. NoGhostRows'
    BY <1>2 DEF TickDecide, TickOnly, Sleeping
  <2>4. LostOnlyByRetirement'
    BY <1>2 DEF TickDecide, TickOnly, Sleeping
  <2> QED
    BY <2>1, <2>2, <2>3, <2>4
<1>3. CASE TickNext
  <2>1. ASSUME NEW a \in tick.retire, tick.pc = "next",
               tick' = [tick EXCEPT !.pc = "clear1", !.addr = a, !.retire = @ \ {a}]
        PROVE  IInv'
    <3>1. a \in Addrs /\ tick.retire \ {a} \in SUBSET Addrs
      BY <2>1
    <3>2. tick' \in TickState /\ tick'.pc = "clear1" /\ tick'.addr \in Addrs
          /\ tick'.kept = tick.kept
      BY <2>1, <3>1 DEF TickState
    <3>5. UNCHANGED <<registered, live, mem, db, worker, crashes, cut>>
      BY <1>3 DEF TickNext, TickOnly
    <3>6. TypeOK'
      BY <3>2, <3>5 DEF TickState
    <3>7. ForwardShape'
      BY <3>5
    <3>8. \A t \in Tables, b \in Addrs : AtRest(t, b)' => AtRest(t, b)
      BY <2>1, <3>5
    <3> QED
      BY <3>5, <3>6, <3>7, <3>8
  <2>2. ASSUME tick.pc = "next", tick' = [tick EXCEPT !.pc = "prune"]
        PROVE  IInv'
    <3>1. tick' \in TickState /\ tick'.pc = "prune" /\ tick'.kept = tick.kept
      BY <2>2 DEF TickState
    <3>5. UNCHANGED <<registered, live, mem, db, worker, crashes, cut>>
      BY <1>3 DEF TickNext, TickOnly
    <3>6. TypeOK'
      BY <3>1, <3>5 DEF TickState
    <3>7. ForwardShape'
      BY <3>5
    <3>8. \A t \in Tables, b \in Addrs : AtRest(t, b)' => AtRest(t, b)
      BY <2>2, <3>5
    <3> QED
      BY <3>5, <3>6, <3>7, <3>8
  <2> QED
    BY <1>3, <2>1, <2>2 DEF TickNext
<1>4. CASE TickClear1
  <2>0. db' = db /\ Writes(mem', mem, tick.table, tick.addr, Absent)
    BY <1>4, Sections DEF TickClear1
  <2>1. TypeOK'
    BY <1>4, <2>0 DEF TickClear1, Writes
  <2>2. ForwardShape'
    BY <1>4, <2>0 DEF TickClear1, Writes
  <2>3. NoGhostRows'
    BY <1>4, <2>0 DEF TickClear1, Writes
  <2>4. LostOnlyByRetirement'
    BY <1>4, <2>0 DEF TickClear1, Writes
  <2> QED
    BY <2>1, <2>2, <2>3, <2>4
<1>5. CASE TickClear2
  <2>0. mem' = mem /\ Writes(db', db, tick.table, tick.addr, Absent)
    BY <1>5, Sections DEF TickClear2
  <2>1. TypeOK'
    <3>1. tick' \in TickState
      BY <1>5 DEF TickClear2, Sleeping, TickState
    <3>2. tick'.pc \in {"clear1", "clear2", "delete"} => tick'.addr \in Addrs
      BY <1>5 DEF TickClear2, Sleeping
    <3> QED
      BY <1>5, <2>0, <3>1, <3>2 DEF TickClear2, Remembered, Writes, TickState
  <2>2. ForwardShape'
    BY <1>5, <2>0 DEF TickClear2, Remembered, Writes
  <2>3. NoGhostRows'
    BY <1>5, <2>0 DEF TickClear2, Remembered, Writes
  <2>4. LostOnlyByRetirement'
    BY <1>5, <2>0 DEF TickClear2, Remembered, Writes
  <2> QED
    BY <2>1, <2>2, <2>3, <2>4
<1>6. CASE TickDelete
  <2>1. TypeOK'
    BY <1>6 DEF TickDelete
  <2>2. ForwardShape'
    BY <1>6 DEF TickDelete
  <2>3. NoGhostRows'
    BY <1>6 DEF TickDelete
  <2>4. LostOnlyByRetirement'
    BY <1>6 DEF TickDelete
  <2> QED
    BY <2>1, <2>2, <2>3, <2>4
<1>7. CASE TickPrune
  <2>1. TypeOK'
    <3>1. tick' \in TickState
      BY <1>7 DEF TickPrune, Sleeping, TickState
    <3>2. tick'.pc \in {"clear1", "clear2", "delete"} => tick'.addr \in Addrs
      BY <1>7 DEF TickPrune, Sleeping
    <3> QED
      BY <1>7, <3>1, <3>2 DEF TickPrune, Retained, TickState
  <2>2. ForwardShape'
    BY <1>7 DEF TickPrune, Retained
  <2>3. NoGhostRows'
    BY <1>7 DEF TickPrune, Retained
  <2>4. LostOnlyByRetirement'
    BY <1>7 DEF TickPrune, Retained
  <2> QED
    BY <2>1, <2>2, <2>3, <2>4
<1>8. CASE TickPruneDb
  BY <1>8, SMTT(30) DEF TickPruneDb, Remembered, Retained
<1>9. CASE TickSwap
  BY <1>9 DEF TickSwap, Sleeping
<1> QED
  BY <1>1, <1>2, <1>3, <1>4, <1>5, <1>6, <1>7, <1>8, <1>9 DEF Tick

\* Every step keeps the invariant.
LEMMA IInvStep == IInv /\ [Next]_vars => IInv'
<1> SUFFICES ASSUME IInv, [Next]_vars PROVE IInv'
  OBVIOUS
<1> USE DEF IInv, TypeOK, ForwardShape, NoGhostRows, LostOnlyByRetirement, AtRest,
            ForwardBusy, TickBusy
<1>1. ASSUME NEW a \in Addrs, Register(a) PROVE IInv'
  BY <1>1 DEF Register
<1>2. CASE Restart
  BY <1>2, ValueAssumption, NoAddrAssumption
     DEF Restart, Idle, At, Sleeping, WorkerState, WorkerPc, TickPc, Tables, Values, Absent
<1>3. CASE UNCHANGED vars
  BY <1>3 DEF vars
<1> QED
  BY <1>1, <1>2, <1>3, RunStep, TickStep DEF Next

\* The state of forwards, tick, maps and store keeps its types.
THEOREM TypeCorrect == Spec => []TypeOK
<1>1. IInv => TypeOK
  BY DEF IInv
<1> QED
  BY InitIInv, IInvStep, <1>1, PTL DEF Spec

\* A restart resurrects nothing: because writers go to the store first and clearers
\* to the map first, no interleaving leaves a row that memory does not have.
THEOREM RestartResurrectsNothing == Spec => []NoGhostRows
<1>1. IInv => NoGhostRows
  BY DEF IInv
<1> QED
  BY InitIInv, IInvStep, <1>1, PTL DEF Spec

\* A restart forgets only what the tick cleared or pruned under a running forward.
THEOREM RestartForgetsOnlyRetired == Spec => []LostOnlyByRetirement
<1>1. IInv => LostOnlyByRetirement
  BY DEF IInv
<1> QED
  BY InitIInv, IInvStep, <1>1, PTL DEF Spec
=============================================================================
