----------------------------- MODULE MCBackend -----------------------------
(* Model checking of Backend: one destination, requests that differ in     *)
(* their token, their hook and metadata, and in how they spell them.       *)
EXTENDS Backend

Absent == [form |-> "absent", bytes |-> <<>>]
Plain(bytes) == [form |-> "plain", bytes |-> bytes]
Prefixed(bytes) == [form |-> "prefixed", bytes |-> bytes]

Request(token, hook, metadata) ==
    [dest_domain |-> <<1>>, dest_recipient |-> Plain(<<1>>), token_id |-> Prefixed(token),
     custom_hook_id |-> hook, custom_hook_metadata |-> metadata]

\* A token without a binding, and one with a hook of the same bytes as its end.
LongToken == Request(<<1, 1>>, Absent, Absent)
Hooked == Request(<<1>>, Plain(<<1>>), Absent)

\* The default hook spelled out, the bytes of the hook as metadata, and a hook of the
\* wrong width.
FiveRequests ==
    {LongToken, Hooked, Request(<<1, 1>>, Prefixed(<<0>>), Plain(<<>>)),
     Request(<<1>>, Absent, Plain(<<1>>)), Request(<<1>>, Plain(<<1, 1>>), Absent)}

TwoTokens == {LongToken, Hooked}
=============================================================================
