------------------------- MODULE AddressDerivation -------------------------
(***************************************************************************)
(* derive_forwarding_address (src/lib.rs): what of a request an address    *)
(* commits to.  The hashes take distinct byte strings to distinct results, *)
(* so that an address is the byte string the first of them is fed with.    *)
(***************************************************************************)
EXTENDS Integers, Sequences

CONSTANTS
    Bytes,       \* the values of a byte
    Width,       \* bytes of an encoded domain, a recipient and a hook id (32)
    Requests     \* requests that clients make

\* How a text field came: left out, not hex, or hex with or without the prefix 0x.
Forms == {"absent", "garbled", "plain", "prefixed"}
Texts == {t \in [form : Forms, bytes : Seq(Bytes)] : t.form = "absent" => t.bytes = <<>>}
Given == {t \in Texts : t.form # "absent"}

ASSUME ByteAssumption == 0 \in Bytes
ASSUME WidthAssumption == Width \in Nat \ {0}

\* dest_domain is a number, given by its encoding.
ASSUME RequestAssumption ==
    \A r \in Requests :
        /\ DOMAIN r = {"dest_domain", "dest_recipient", "token_id", "custom_hook_id",
                       "custom_hook_metadata"}
        /\ r.dest_domain \in Seq(Bytes) /\ Len(r.dest_domain) = Width
        /\ r.dest_recipient \in Given /\ r.token_id \in Given
        /\ r.custom_hook_id \in Texts /\ r.custom_hook_metadata \in Texts

Zeros == [i \in 1..Width |-> 0]

Hex(t) == t.form # "garbled"
Empty(t) == t.form = "absent" \/ t.bytes = <<>>

\* Fields that do not decode, and a recipient or a hook of another width than 32,
\* are errors.  The length of a token id is not looked at.
Valid(r) ==
    /\ Hex(r.dest_recipient) /\ Len(r.dest_recipient.bytes) = Width
    /\ Hex(r.token_id)
    /\ Hex(r.custom_hook_id)
    /\ Empty(r.custom_hook_id) \/ Len(r.custom_hook_id.bytes) = Width
    /\ Hex(r.custom_hook_metadata)

\* Bug variant: zeros are taken for a hook.
MutHookBytes(r) ==
    IF Empty(r.custom_hook_id) THEN <<>> ELSE r.custom_hook_id.bytes

\* Absent, empty and all zeros mean the mailbox's default hook.
HookBytes(r) ==
    IF Empty(r.custom_hook_id) \/ r.custom_hook_id.bytes = Zeros THEN <<>>
    ELSE r.custom_hook_id.bytes

MetadataBytes(r) ==
    IF Empty(r.custom_hook_metadata) THEN <<>> ELSE r.custom_hook_metadata.bytes

\* Bug variant: a default hook that is spelled out counts as a binding.
MutBound(r) == ~ Empty(r.custom_hook_id) \/ MetadataBytes(r) # <<>>

\* Whether the address commits to a hook or metadata at all.
Bound(r) == HookBytes(r) # <<>> \/ MetadataBytes(r) # <<>>

\* Bug variant: an absent hook leaves no zeros in front of the metadata.
MutHookBlock(r) == HookBytes(r)

\* The hook at its fixed width.
HookBlock(r) == IF HookBytes(r) = <<>> THEN Zeros ELSE HookBytes(r)

Preimage(r) ==
    r.dest_domain \o r.dest_recipient.bytes \o r.token_id.bytes
        \o (IF Bound(r) THEN HookBlock(r) \o MetadataBytes(r) ELSE <<>>)

Error == <<>>

derive_forwarding_address(r) == IF Valid(r) THEN Preimage(r) ELSE Error

\* What a client asks the chain for: where its tokens go, through which hook, the
\* default one (left out, empty or the zero address) or the one it names, and with
\* which metadata, all as the bytes that the text fields stand for.
Meaning(r) ==
    LET hook == r.custom_hook_id.bytes IN
      [dest_domain |-> r.dest_domain,
       dest_recipient |-> r.dest_recipient.bytes,
       token_id |-> r.token_id.bytes,
       hook |-> IF hook = Zeros THEN <<>> ELSE hook,
       metadata |-> r.custom_hook_metadata.bytes]

\* A token id that a longer one goes on from, with a binding behind it: the end of the
\* longer one and the binding are hashed at the same place.
Ambiguous(r, s) ==
    LET short == r.token_id.bytes
        long == s.token_id.bytes IN
      /\ Bound(r)
      /\ Len(short) < Len(long)
      /\ SubSeq(long, 1, Len(short)) = short
=============================================================================
