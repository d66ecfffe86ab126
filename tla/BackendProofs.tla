---------------------------- MODULE BackendProofs ----------------------------
(***************************************************************************)
(* Proofs about AddressDerivation and Backend, for any width, byte strings *)
(* and requests, and any number of clients.                                *)
(***************************************************************************)
EXTENDS Backend, FiniteSetTheorems, SequenceTheorems, TLAPS

\* Two concatenations are the same only if their parts are, when the first parts
\* have one length.
LEMMA SplitPrefix ==
    ASSUME NEW S, NEW a \in Seq(S), NEW b \in Seq(S), NEW c \in Seq(S), NEW d \in Seq(S),
           Len(a) = Len(c), a \o b = c \o d
    PROVE  a = c /\ b = d
<1>1. Len(b) = Len(d)
  <2>1. Len(a \o b) = Len(a) + Len(b) /\ Len(c \o d) = Len(c) + Len(d)
    BY ConcatProperties
  <2>2. Len(a) \in Nat /\ Len(b) \in Nat /\ Len(d) \in Nat
    OBVIOUS
  <2> QED
    BY <2>1, <2>2
<1>2. ASSUME NEW i \in 1..Len(a) PROVE a[i] = c[i]
  <2>1. (a \o b)[i] = a[i] /\ (c \o d)[i] = c[i]
    OBVIOUS
  <2> QED
    BY <2>1
<1>3. ASSUME NEW i \in 1..Len(b) PROVE b[i] = d[i]
  <2>1. /\ Len(a) \in Nat /\ Len(b) \in Nat
        /\ Len(a) + i \in 1..Len(a) + Len(b)
        /\ ~ Len(a) + i <= Len(a) /\ (Len(a) + i) - Len(a) = i
    OBVIOUS
  <2>2. (a \o b)[Len(a) + i] = b[i]
    BY <2>1, ConcatProperties
  <2>3. (c \o d)[Len(a) + i] = d[i]
    BY <1>1, <2>1, ConcatProperties
  <2> QED
    BY <2>2, <2>3
<1>4. a = c
  BY <1>2
<1>5. b = d
  <2>1. DOMAIN b = 1..Len(b) /\ DOMAIN d = 1..Len(b)
    BY <1>1
  <2> QED
    BY <1>3, <2>1
<1> QED
  BY <1>4, <1>5

\* When the first part of one is shorter, it is the beginning of the other first part,
\* and what is behind it is not empty.
LEMMA ShorterPrefix ==
    ASSUME NEW S, NEW a \in Seq(S), NEW b \in Seq(S), NEW c \in Seq(S), NEW d \in Seq(S),
           Len(a) < Len(c), a \o b = c \o d
    PROVE  SubSeq(c, 1, Len(a)) = a /\ b # <<>>
<1>1. Len(a) \in Nat /\ Len(b) \in Nat /\ Len(c) \in Nat /\ Len(d) \in Nat
  OBVIOUS
<1>2. b # <<>>
  <2>1. Len(a \o b) = Len(a) + Len(b) /\ Len(c \o d) = Len(c) + Len(d)
    BY ConcatProperties
  <2>2. Len(b) # 0
    BY <1>1, <2>1
  <2> QED
    BY <2>2
<1>3. ASSUME NEW i \in 1..Len(a) PROVE c[i] = a[i]
  <2>1. i \in 1..Len(c)
    BY <1>1
  <2>2. (a \o b)[i] = a[i] /\ (c \o d)[i] = c[i]
    BY <2>1
  <2> QED
    BY <2>2
<1>4. SubSeq(c, 1, Len(a)) = a
  <2>1. /\ SubSeq(c, 1, Len(a)) \in Seq(S) /\ Len(SubSeq(c, 1, Len(a))) = Len(a)
        /\ \A i \in 1..Len(a) : SubSeq(c, 1, Len(a))[i] = c[i]
    BY <1>1
  <2> QED
    BY <1>3, <2>1
<1> QED
  BY <1>2, <1>4

\* The length of a concatenation.
LEMMA ConcatLength ==
    ASSUME NEW S, NEW a \in Seq(S), NEW b \in Seq(S)
    PROVE  a \o b \in Seq(S) /\ Len(a \o b) = Len(a) + Len(b)
BY ConcatProperties

\* The parts of a valid request, with their widths.
LEMMA Parts ==
    ASSUME NEW r \in Requests, Valid(r)
    PROVE  /\ r.dest_domain \in Seq(Bytes) /\ Len(r.dest_domain) = Width
           /\ r.dest_recipient.bytes \in Seq(Bytes) /\ Len(r.dest_recipient.bytes) = Width
           /\ r.token_id.bytes \in Seq(Bytes) 
           /\ HookBytes(r) \in Seq(Bytes)
           /\ HookBytes(r) # <<>> => Len(HookBytes(r)) = Width /\ HookBytes(r) # Zeros
           /\ MetadataBytes(r) \in Seq(Bytes)
           /\ HookBlock(r) \in Seq(Bytes) /\ Len(HookBlock(r)) = Width
<1>1. Zeros \in Seq(Bytes) /\ Len(Zeros) = Width
  BY ByteAssumption, WidthAssumption DEF Zeros
<1>2. <<>> \in Seq(Bytes)
  OBVIOUS
<1>3. r.dest_domain \in Seq(Bytes) /\ Len(r.dest_domain) = Width
  BY RequestAssumption
<1>4. r.dest_recipient.bytes \in Seq(Bytes) /\ Len(r.dest_recipient.bytes) = Width
  BY RequestAssumption DEF Given, Texts, Valid
<1>5. r.token_id.bytes \in Seq(Bytes)
  BY RequestAssumption DEF Given, Texts
<1>6. r.custom_hook_id.bytes \in Seq(Bytes) /\ r.custom_hook_metadata.bytes \in Seq(Bytes)
  BY RequestAssumption DEF Texts
<1>7. HookBytes(r) \in Seq(Bytes)
      /\ (HookBytes(r) # <<>> => Len(HookBytes(r)) = Width /\ HookBytes(r) # Zeros)
  BY <1>2, <1>6 DEF HookBytes, Valid
<1>8. MetadataBytes(r) \in Seq(Bytes)
  BY <1>2, <1>6 DEF MetadataBytes
<1>9. HookBlock(r) \in Seq(Bytes) /\ Len(HookBlock(r)) = Width
  BY <1>1, <1>7 DEF HookBlock
<1> QED
  BY <1>3, <1>4, <1>5, <1>7, <1>8, <1>9

\* What a binding adds to the preimage.
Binding(r) == IF Bound(r) THEN HookBlock(r) \o MetadataBytes(r) ELSE <<>>

\* It tells the hook and the metadata.
LEMMA BindingTells ==
    ASSUME NEW r \in Requests, NEW s \in Requests, Valid(r), Valid(s), Binding(r) = Binding(s)
    PROVE  HookBytes(r) = HookBytes(s) /\ MetadataBytes(r) = MetadataBytes(s)
<1>1. Bound(r) => Len(Binding(r)) >= Width
  BY Parts, WidthAssumption DEF Binding
<1>2. Bound(s) => Len(Binding(s)) >= Width
  BY Parts, WidthAssumption DEF Binding
<1>3. Bound(r) <=> Bound(s)
  <2>1. Len(<<>>) = 0 /\ Width > 0
    BY WidthAssumption
  <2>2. ~ Bound(r) => Binding(r) = <<>>
    BY DEF Binding
  <2>3. ~ Bound(s) => Binding(s) = <<>>
    BY DEF Binding
  <2>4. Width \in Nat
    BY WidthAssumption
  <2> QED
    BY <1>1, <1>2, <2>1, <2>2, <2>3, <2>4
<1>4. CASE Bound(r)
  <2>1. HookBlock(r) = HookBlock(s) /\ MetadataBytes(r) = MetadataBytes(s)
    <3>1. HookBlock(r) \o MetadataBytes(r) = HookBlock(s) \o MetadataBytes(s)
      BY <1>3, <1>4 DEF Binding
    <3>2. /\ HookBlock(r) \in Seq(Bytes) /\ MetadataBytes(r) \in Seq(Bytes)
          /\ HookBlock(s) \in Seq(Bytes) /\ MetadataBytes(s) \in Seq(Bytes)
          /\ Len(HookBlock(r)) = Len(HookBlock(s))
      BY Parts
    <3> QED
      BY <3>1, <3>2, SplitPrefix
  <2>2. HookBytes(r) = HookBytes(s)
    BY <2>1, Parts DEF HookBlock
  <2> QED
    BY <2>1, <2>2
<1>5. CASE ~ Bound(r)
  BY <1>3, <1>5 DEF Bound
<1> QED
  BY <1>4, <1>5

\* The hook and the metadata that the code reads are those the client means: what is
\* normalised on the way is what the chain takes for the default.
LEMMA MeaningRead ==
    ASSUME NEW r \in Requests
    PROVE  Meaning(r) = [dest_domain |-> r.dest_domain,
                         dest_recipient |-> r.dest_recipient.bytes,
                         token_id |-> r.token_id.bytes,
                         hook |-> HookBytes(r),
                         metadata |-> MetadataBytes(r)]
<1>1. r.custom_hook_id \in Texts /\ r.custom_hook_metadata \in Texts
  BY RequestAssumption
<1>2. /\ Empty(r.custom_hook_id) => r.custom_hook_id.bytes = <<>>
      /\ Empty(r.custom_hook_metadata) => r.custom_hook_metadata.bytes = <<>>
  BY <1>1 DEF Empty, Texts
<1>3. HookBytes(r) = IF r.custom_hook_id.bytes = Zeros THEN <<>> ELSE r.custom_hook_id.bytes
  BY <1>2 DEF HookBytes
<1>4. MetadataBytes(r) = r.custom_hook_metadata.bytes
  BY <1>2 DEF MetadataBytes
<1> QED
  BY <1>3, <1>4 DEF Meaning

\* An address commits to everything the client means, for token ids of any length:
\* requests that derive to one address mean the same, or the token id of the one goes
\* on where the binding of the other begins.
THEOREM AddressesBind ==
    ASSUME NEW r \in Requests, NEW s \in Requests, Valid(r), Valid(s),
           derive_forwarding_address(r) = derive_forwarding_address(s)
    PROVE  Meaning(r) = Meaning(s) \/ Ambiguous(r, s) \/ Ambiguous(s, r)
<1> DEFINE Domain(q) == q.dest_domain
           Recipient(q) == q.dest_recipient.bytes
           Token(q) == q.token_id.bytes
           Lead(q) == Domain(q) \o Recipient(q)
<1>1. (Lead(r) \o Token(r)) \o Binding(r) = (Lead(s) \o Token(s)) \o Binding(s)
  BY DEF derive_forwarding_address, Preimage, Binding
<1>2. ASSUME NEW q \in Requests, Valid(q)
      PROVE  /\ Domain(q) \in Seq(Bytes) /\ Len(Domain(q)) = Width
             /\ Recipient(q) \in Seq(Bytes) /\ Len(Recipient(q)) = Width
             /\ Token(q) \in Seq(Bytes)
             /\ Binding(q) \in Seq(Bytes)
  BY <1>2, Parts DEF Binding
<1>3. /\ Domain(r) = Domain(s) /\ Recipient(r) = Recipient(s) /\ Token(r) = Token(s)
      /\ HookBytes(r) = HookBytes(s) /\ MetadataBytes(r) = MetadataBytes(s)
      => Meaning(r) = Meaning(s)
  BY MeaningRead
<1>4. ASSUME NEW p \in Requests, NEW q \in Requests, Bound(p), Len(Token(p)) < Len(Token(q)),
             SubSeq(Token(q), 1, Len(Token(p))) = Token(p)
      PROVE  Ambiguous(p, q)
  BY <1>4 DEF Ambiguous
<1> HIDE DEF Domain, Recipient, Token
<1>5. ASSUME NEW q \in Requests, Valid(q)
      PROVE  /\ Lead(q) \in Seq(Bytes)
             /\ Len(Lead(q)) = Len(Domain(q)) + Len(Recipient(q))
  BY <1>2, <1>5, ConcatLength, Zenon
<1>6. Lead(r) = Lead(s) => Domain(r) = Domain(s) /\ Recipient(r) = Recipient(s)
  BY <1>2, SplitPrefix
<1> HIDE DEF Lead
<1>7. ASSUME NEW q \in Requests, Valid(q)
      PROVE  /\ Token(q) \o Binding(q) \in Seq(Bytes)
             /\ (Lead(q) \o Token(q)) \o Binding(q) = Lead(q) \o (Token(q) \o Binding(q))
  <2>1. Token(q) \in Seq(Bytes) /\ Binding(q) \in Seq(Bytes) /\ Lead(q) \in Seq(Bytes)
    BY <1>2, <1>5, <1>7, Zenon
  <2>2. Token(q) \o Binding(q) \in Seq(Bytes)
    BY <2>1, ConcatLength, Zenon
  <2>3. (Lead(q) \o Token(q)) \o Binding(q) = Lead(q) \o (Token(q) \o Binding(q))
    BY <2>1, ConcatAssociative
  <2> QED
    BY <2>2, <2>3
<1>8. Lead(r) = Lead(s) /\ Token(r) \o Binding(r) = Token(s) \o Binding(s)
  <2>1. /\ Lead(r) \in Seq(Bytes) /\ Token(r) \o Binding(r) \in Seq(Bytes)
        /\ Lead(s) \in Seq(Bytes) /\ Token(s) \o Binding(s) \in Seq(Bytes)
    BY <1>5, <1>7
  <2>2. Len(Lead(r)) = Len(Lead(s))
    BY <1>2, <1>5
  <2>3. Lead(r) \o (Token(r) \o Binding(r)) = Lead(s) \o (Token(s) \o Binding(s))
    BY <1>1, <1>7, Zenon
  <2> QED
    BY <2>1, <2>2, <2>3, SplitPrefix
<1>9. /\ Token(r) \in Seq(Bytes) /\ Binding(r) \in Seq(Bytes)
      /\ Token(s) \in Seq(Bytes) /\ Binding(s) \in Seq(Bytes)
  BY <1>2
<1>10. CASE Len(Token(r)) = Len(Token(s))
  <2>1. Token(r) = Token(s) /\ Binding(r) = Binding(s)
    BY <1>8, <1>9, <1>10, SplitPrefix
  <2> QED
    BY <1>3, <1>6, <1>8, <2>1, BindingTells
<1>11. CASE Len(Token(r)) < Len(Token(s))
  <2>1. SubSeq(Token(s), 1, Len(Token(r))) = Token(r) /\ Binding(r) # <<>>
    BY <1>8, <1>9, <1>11, ShorterPrefix
  <2>2. Bound(r)
    BY <2>1 DEF Binding
  <2> QED
    BY <1>4, <1>11, <2>1, <2>2
<1>12. CASE Len(Token(s)) < Len(Token(r))
  <2>1. SubSeq(Token(r), 1, Len(Token(s))) = Token(s) /\ Binding(s) # <<>>
    BY <1>8, <1>9, <1>12, ShorterPrefix
  <2>2. Bound(s)
    BY <2>1 DEF Binding
  <2> QED
    BY <1>4, <1>12, <2>1, <2>2
<1>13. Len(Token(r)) \in Nat /\ Len(Token(s)) \in Nat
  BY <1>9
<1> QED
  BY <1>10, <1>11, <1>12, <1>13

\* The converse: an address commits to nothing else, so that requests which mean the
\* same, with the default hook left out, empty or spelled as zeros, with the metadata
\* left out or empty, derive to one address.
THEOREM SpellingIrrelevant ==
    ASSUME NEW r \in Requests, NEW s \in Requests, Valid(r), Valid(s),
           Meaning(r) = Meaning(s)
    PROVE  derive_forwarding_address(r) = derive_forwarding_address(s)
<1>1. /\ r.dest_domain = s.dest_domain
      /\ r.dest_recipient.bytes = s.dest_recipient.bytes
      /\ r.token_id.bytes = s.token_id.bytes
      /\ HookBytes(r) = HookBytes(s) /\ MetadataBytes(r) = MetadataBytes(s)
  BY MeaningRead
<1>2. (Bound(r) <=> Bound(s)) /\ HookBlock(r) = HookBlock(s)
  BY <1>1 DEF Bound, HookBlock
<1>3. Preimage(r) = Preimage(s)
  BY <1>1, <1>2 DEF Preimage
<1> QED
  BY <1>3 DEF derive_forwarding_address

-----------------------------------------------------------------------------
\* Rows, and the rows that are being returned, are of the address they derive to.
Derived ==
    /\ \A p \in rows : /\ Valid(p.request)
                       /\ p.forward_addr = derive_forwarding_address(p.request)
    /\ \A c \in Clients : answer[c] # NoRow =>
         /\ Valid(answer[c].asked) /\ Valid(answer[c].row.request)
         /\ derive_forwarding_address(answer[c].row.request)
              = derive_forwarding_address(answer[c].asked)

\* The rows that the tick has still to delete have an address each; they are in the
\* table, or a DELETE of theirs was given up.
Decided ==
    /\ \A p, q \in tick.retire : p.forward_addr = q.forward_addr => p = q
    /\ \A p \in tick.retire : p \in rows \/ p.forward_addr \in gaveUp
    /\ tick.pc = "wait" =>
         /\ \A p \in tick.retire : p.forward_addr # tick.row.forward_addr
         /\ handler["delete"].pc = "remove"
            => tick.row \in rows \/ tick.row.forward_addr \in gaveUp
    /\ handler["late"].pc = "remove" => lateAddr \in gaveUp

IInv == TypeOK /\ IsFiniteSet(rows) /\ Derived /\ Decided

\* The table is empty at the start.
LEMMA InitIInv == Init => IInv
<1> SUFFICES ASSUME Init PROVE IInv
  OBVIOUS
<1>1. IsFiniteSet(rows)
  BY FS_EmptySet DEF Init
<1>2. TypeOK
  BY BoundAssumption DEF Init, TypeOK, Quiet, NoTick
<1>3. Derived /\ Decided
  BY DEF Init, Derived, Decided, Quiet, NoTick, Handlers
<1> QED
  BY <1>1, <1>2, <1>3 DEF IInv

\* The steps of a refresh keep the invariant.
LEMMA RefreshStep ==
    ASSUME IInv, (\E h \in Handlers : Serve(h)) \/ WakeUp
    PROVE  IInv'
<1> USE DEF IInv
<1>1. Cardinality(rows) \in Nat
  BY FS_CardinalityType
<1>2. UNCHANGED <<rows, clock, tick, lateAddr, gaveUp>>
  BY DEF Serve, Snapshot, SnapshotFails, SetGauge, WakeUp, Refreshing
<1>3. \A c \in Clients : answer'[c] \in {answer[c], NoRow}
  BY DEF Serve, Snapshot, SnapshotFails, SetGauge, WakeUp, Return, TypeOK
<1>4. answer' \in [Clients -> [asked : Requests, row : Row] \cup {NoRow}]
  BY DEF Serve, Snapshot, SnapshotFails, SetGauge, WakeUp, Return, TypeOK
<1>5. handler' \in [Handlers -> [pc : {"idle", "remove", "snapshot", "set"}, count : Nat]]
      /\ gauge' \in Nat
  BY <1>1 DEF Serve, Snapshot, SnapshotFails, SetGauge, WakeUp, Goto, Quiet, TypeOK
<1>6. \A h \in Handlers : handler'[h].pc = "remove" => handler[h].pc = "remove"
  BY DEF Serve, Snapshot, SnapshotFails, SetGauge, WakeUp, Goto, Quiet, TypeOK
<1>7. TypeOK'
  BY <1>2, <1>4, <1>5 DEF TypeOK
<1>8. Derived'
  BY <1>2, <1>3 DEF Derived
<1>9. Decided'
  BY <1>2, <1>6 DEF Decided, Handlers
<1> QED
  BY <1>2, <1>7, <1>8, <1>9

\* A POST keeps the invariant.
LEMMA PostStep ==
    ASSUME IInv, NEW c \in Clients, NEW r \in Requests, NEW claim \in Addresses,
           Insert(c, r, claim) \/ Existing(c, r, claim)
    PROVE  IInv'
<1> USE DEF IInv
<1>1. c \in Handlers /\ c \notin {"delete", "late"}
  BY ClientAssumption DEF Handlers
<1>2. UNCHANGED <<gauge, tick, lateAddr, gaveUp>>
  BY DEF Insert, Existing, Posting
<1>3. handler' = [handler EXCEPT ![c].pc = "snapshot"]
  BY DEF Insert, Existing, Goto
<1>4. handler' \in [Handlers -> [pc : {"idle", "remove", "snapshot", "set"}, count : Nat]]
  BY <1>1, <1>3 DEF TypeOK
<1>5. handler'["delete"] = handler["delete"] /\ handler'["late"] = handler["late"]
  BY <1>1, <1>3 DEF TypeOK
<1>6. Valid(r) /\ derive_forwarding_address(r) = claim
  BY DEF Insert, Existing, Accept
<1>7. CASE Insert(c, r, claim)
  <2> DEFINE row == [forward_addr |-> claim, request |-> r, created_at |-> clock + 1]
  <2>1. rows' = rows \cup {row} /\ clock' = clock + 1 /\ clock < MaxRows
        /\ answer' = [answer EXCEPT ![c] = [asked |-> r, row |-> row]]
    BY <1>7 DEF Insert, Give
  <2>2. \A p \in rows : p.forward_addr # claim
    BY <1>7 DEF Insert
  <2>3. row \in Row /\ clock' \in 0..MaxRows
    BY <2>1, BoundAssumption DEF Row, TypeOK
  <2>4. IsFiniteSet(rows')
    BY <2>1, FS_AddElement
  <2>5. TypeOK'
    BY <1>2, <1>4, <2>1, <2>2, <2>3 DEF TypeOK
  <2>6. Derived'
    BY <1>6, <2>1 DEF Derived, TypeOK
  <2>7. Decided'
    BY <1>2, <1>5, <2>1 DEF Decided
  <2> QED
    BY <2>4, <2>5, <2>6, <2>7
<1>8. CASE Existing(c, r, claim)
  <2>1. PICK row \in rows : row.forward_addr = claim
                            /\ answer' = [answer EXCEPT ![c] = [asked |-> r, row |-> row]]
    BY <1>8 DEF Existing, Give
  <2>2. UNCHANGED <<rows, clock>>
    BY <1>8 DEF Existing
  <2>3. TypeOK'
    BY <1>2, <1>4, <2>1, <2>2 DEF TypeOK
  <2>4. Derived'
    BY <1>6, <2>1, <2>2 DEF Derived, TypeOK
  <2>5. Decided'
    BY <1>2, <1>5, <2>2 DEF Decided
  <2> QED
    BY <2>2, <2>3, <2>4, <2>5
<1> QED
  BY <1>7, <1>8

\* What a DELETE takes out of the table: nothing, or the one row of the address.
LEMMA Removed ==
    ASSUME IInv, NEW h \in {"delete", "late"}, NEW addr, Remove(h, addr)
    PROVE  /\ rows' \subseteq rows /\ IsFiniteSet(rows')
           /\ \A p \in rows : p \in rows' \/ p.forward_addr = addr
           /\ handler[h].pc = "remove" /\ handler'[h].pc # "remove"
           /\ \A g \in Handlers : g # h => handler'[g] = handler[g]
           /\ handler' \in [Handlers -> [pc : {"idle", "remove", "snapshot", "set"},
                                         count : Nat]]
           /\ UNCHANGED <<clock, gauge, answer, tick, lateAddr, gaveUp>>
<1> USE DEF IInv
<1>1. h \in Handlers
  BY DEF Handlers
<1>2. rows' \subseteq rows /\ \A p \in rows : p \in rows' \/ p.forward_addr = addr
  BY DEF Remove
<1>3. IsFiniteSet(rows')
  BY <1>2, FS_Subset
<1> QED
  BY <1>1, <1>2, <1>3 DEF Remove, Goto, TypeOK

\* A DELETE keeps the invariant.
LEMMA RemoveStep ==
    ASSUME IInv, Deleting
    PROVE  IInv'
<1> USE DEF IInv
<1>1. CASE tick.pc = "wait" /\ Remove("delete", tick.row.forward_addr)
  <2>1. TypeOK'
    BY <1>1, Removed DEF TypeOK
  <2>2. Derived'
    BY <1>1, Removed DEF Derived
  <2>3. Decided'
    BY <1>1, Removed DEF Decided, Handlers
  <2> QED
    BY <1>1, <2>1, <2>2, <2>3, Removed
<1>2. CASE Remove("late", lateAddr)
  <2>1. TypeOK'
    BY <1>2, Removed DEF TypeOK
  <2>2. Derived'
    BY <1>2, Removed DEF Derived
  <2>3. lateAddr \in gaveUp
    BY <1>2, Removed DEF Decided
  <2>4. Decided'
    BY <1>2, <2>3, Removed DEF Decided, Handlers
  <2> QED
    BY <1>2, <2>1, <2>2, <2>4, Removed
<1> QED
  BY <1>1, <1>2 DEF Deleting

\* The steps of the relayer's tick keep the invariant.
LEMMA TickStep ==
    ASSUME IInv, List \/ SendDelete \/ Delivered \/ GiveUp \/ TickDone
    PROVE  IInv'
<1> USE DEF IInv
<1>1. UNCHANGED <<rows, clock, gauge, answer>>
  BY DEF List, SendDelete, Delivered, GiveUp, TickDone, Relaying
<1>2. Derived' /\ IsFiniteSet(rows')
  BY <1>1 DEF Derived
<1>3. CASE List
  <2>1. PICK retire \in SUBSET rows : tick' = [pc |-> "next", retire |-> retire, row |-> NoRow]
    BY <1>3 DEF List
  <2>2. UNCHANGED <<handler, lateAddr, gaveUp>>
    BY <1>3 DEF List
  <2>3. TypeOK'
    BY <1>1, <2>1, <2>2 DEF TypeOK
  <2>4. Decided'
    BY <1>1, <2>1, <2>2 DEF Decided, TypeOK
  <2> QED
    BY <1>2, <2>3, <2>4
<1>4. CASE SendDelete
  <2>1. PICK row \in tick.retire :
          tick' = [pc |-> "wait", retire |-> tick.retire \ {row}, row |-> row]
    BY <1>4 DEF SendDelete
  <2>2. handler' = [handler EXCEPT !["delete"].pc = "remove"]
        /\ UNCHANGED <<lateAddr, gaveUp>>
    BY <1>4 DEF SendDelete, Goto
  <2>3. TypeOK'
    BY <1>1, <2>1, <2>2 DEF TypeOK, Handlers
  <2>4. handler'["late"] = handler["late"]
    BY <2>2 DEF TypeOK, Handlers
  <2>5. Decided'
    BY <1>1, <2>1, <2>2, <2>4 DEF Decided
  <2> QED
    BY <1>2, <2>3, <2>5
<1>5. CASE Delivered
  <2>1. tick' = [tick EXCEPT !.pc = "next", !.row = NoRow]
        /\ UNCHANGED <<handler, lateAddr, gaveUp>>
    BY <1>5 DEF Delivered
  <2>2. TypeOK'
    BY <1>1, <2>1 DEF TypeOK
  <2>3. Decided'
    BY <1>1, <2>1 DEF Decided, TypeOK
  <2> QED
    BY <1>2, <2>2, <2>3
<1>6. CASE GiveUp
  <2>1. /\ tick.pc = "wait"
        /\ tick' = [tick EXCEPT !.pc = "next", !.row = NoRow]
        /\ lateAddr' = tick.row.forward_addr
        /\ gaveUp' = gaveUp \cup {tick.row.forward_addr}
        /\ handler' = [handler EXCEPT !["late"] = handler["delete"], !["delete"] = Quiet]
    BY <1>6 DEF GiveUp
  <2>2. tick.row.forward_addr \in Addresses
    BY <2>1 DEF TypeOK, Row
  <2>3. handler' \in [Handlers -> [pc : {"idle", "remove", "snapshot", "set"}, count : Nat]]
    BY <2>1 DEF TypeOK, Handlers, Quiet
  <2>4. TypeOK'
    BY <1>1, <2>1, <2>2, <2>3 DEF TypeOK
  <2>5. Decided'
    BY <1>1, <2>1 DEF Decided, TypeOK
  <2> QED
    BY <1>2, <2>4, <2>5
<1>7. CASE TickDone
  <2>1. tick' = NoTick /\ UNCHANGED <<handler, lateAddr, gaveUp>>
    BY <1>7 DEF TickDone
  <2>2. TypeOK'
    BY <1>1, <2>1 DEF TypeOK, NoTick
  <2>3. Decided'
    BY <1>1, <2>1 DEF Decided, NoTick
  <2> QED
    BY <1>2, <2>2, <2>3
<1> QED
  BY <1>3, <1>4, <1>5, <1>6, <1>7

\* Every step keeps the invariant.
LEMMA IInvStep == IInv /\ [Next]_vars => IInv'
<1> SUFFICES ASSUME IInv, [Next]_vars PROVE IInv'
  OBVIOUS
<1>1. CASE Restart
  <2>1. UNCHANGED <<rows, clock, tick, lateAddr, gaveUp>>
        /\ handler' = [h \in Handlers |-> Quiet] /\ gauge' = Cardinality(rows)
        /\ answer' = [c \in Clients |-> NoRow]
    BY <1>1 DEF Restart
  <2>2. gauge' \in Nat
    BY <2>1, FS_CardinalityType DEF IInv
  <2>3. TypeOK'
    BY <2>1, <2>2 DEF IInv, TypeOK, Quiet
  <2>4. Derived' /\ Decided'
    BY <2>1 DEF IInv, Derived, Decided, Quiet, Handlers
  <2> QED
    BY <2>1, <2>3, <2>4 DEF IInv
<1>2. CASE UNCHANGED vars
  BY <1>2 DEF vars, IInv, TypeOK, Derived, Decided
<1>3. ASSUME NEW c \in Clients, Post(c) PROVE IInv'
  BY <1>3, PostStep DEF Post
<1> QED
  BY <1>1, <1>2, <1>3, RefreshStep, RemoveStep, TickStep DEF Next

\* The backend's state keeps its types, one row per address among them.
THEOREM TypeCorrect == Spec => []TypeOK
<1>1. IInv => TypeOK
  BY DEF IInv
<1> QED
  BY InitIInv, IInvStep, <1>1, PTL DEF Spec

\* A client is given a row that is forwarded as its own request would be, or whose token
\* id and binding run together with its own: a row has the address it derives to, and
\* this is all that an address leaves open.
THEOREM RegisteredAsAsked == Spec => []AnsweredWithMine
<1>1. IInv => AnsweredWithMine
  <2> SUFFICES ASSUME IInv, NEW c \in Clients, answer[c] # NoRow
               PROVE  \/ Meaning(answer[c].row.request) = Meaning(answer[c].asked)
                      \/ Ambiguous(answer[c].row.request, answer[c].asked)
                      \/ Ambiguous(answer[c].asked, answer[c].row.request)
    BY DEF AnsweredWithMine
  <2>1. answer[c].row.request \in Requests /\ answer[c].asked \in Requests
    BY DEF IInv, TypeOK, Row
  <2>2. /\ Valid(answer[c].asked) /\ Valid(answer[c].row.request)
        /\ derive_forwarding_address(answer[c].row.request)
             = derive_forwarding_address(answer[c].asked)
    BY DEF IInv, Derived
  <2> QED
    BY <2>1, <2>2, AddressesBind
<1> QED
  BY InitIInv, IInvStep, <1>1, PTL DEF Spec

\* Requests for one forward have one row, in whatever spelling and by whichever clients
\* they are registered, deleted and registered again.
THEOREM MeaningsShareRow == Spec => []OneRowPerMeaning
<1>1. IInv => OneRowPerMeaning
  <2> SUFFICES ASSUME IInv, NEW p \in rows, NEW q \in rows,
                      Meaning(p.request) = Meaning(q.request)
               PROVE  p = q
    BY DEF OneRowPerMeaning
  <2>1. p.request \in Requests /\ q.request \in Requests
    BY DEF IInv, TypeOK, Row
  <2>2. p.forward_addr = q.forward_addr
    BY <2>1, SpellingIrrelevant DEF IInv, Derived
  <2> QED
    BY <2>2 DEF IInv, TypeOK
<1> QED
  BY InitIInv, IInvStep, <1>1, PTL DEF Spec

\* A DELETE takes away the row that the tick decided on; another row of the address
\* only after a DELETE of it was given up.
THEOREM NothingElseDeleted == Spec => DeletesDecidedRows
<1>1. ASSUME IInv, [Next]_vars
      PROVE  \A row \in rows \ rows' :
               \/ tick.pc = "wait" /\ row = tick.row
               \/ row.forward_addr \in gaveUp
  <2> SUFFICES ASSUME NEW row \in rows \ rows'
               PROVE  \/ tick.pc = "wait" /\ row = tick.row
                      \/ row.forward_addr \in gaveUp
    OBVIOUS
  <2>1. Deleting
    BY <1>1 DEF Next, vars, Serve, Snapshot, SnapshotFails, SetGauge, WakeUp, Refreshing,
                Post, Insert, Existing, List, SendDelete, Delivered, GiveUp, TickDone,
                Relaying, Restart
  <2>2. CASE tick.pc = "wait" /\ Remove("delete", tick.row.forward_addr)
    <3>1. row.forward_addr = tick.row.forward_addr /\ handler["delete"].pc = "remove"
      BY <1>1, <2>2, Removed
    <3> QED
      BY <1>1, <2>2, <3>1 DEF IInv, Decided, TypeOK
  <2>3. CASE Remove("late", lateAddr)
    <3>1. row.forward_addr = lateAddr /\ handler["late"].pc = "remove"
      BY <1>1, <2>3, Removed
    <3> QED
      BY <1>1, <3>1 DEF IInv, Decided
  <2> QED
    BY <2>1, <2>2, <2>3 DEF Deleting
<1> QED
  BY InitIInv, IInvStep, <1>1, PTL DEF Spec, DeletesDecidedRows
==============================================================================
