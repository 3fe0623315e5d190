----------------------------- MODULE Dictionary -----------------------------
(***************************************************************************)
(* What a B-tree of the HFS+ library promises its callers: a map from keys *)
(* to records. addToBTree adds a record unless its key is there already,   *)
(* removeFromBTree removes the record of a key, and a call that returns    *)
(* has had its effect.                                                     *)
(***************************************************************************)
EXTENDS Integers, Functions

CONSTANTS Keys, Values

VARIABLES
    content,   \* the records, by key
    request    \* the running call

NoRequest == [op |-> "none"]
Requests ==
    {NoRequest} \cup [op : {"add"}, key : Keys, val : Values] \cup [op : {"remove"}, key : Keys]

Effect(c, r) ==
    IF r.op = "add"
    THEN [k \in DOMAIN c \cup {r.key} |-> IF k \in DOMAIN c THEN c[k] ELSE r.val]
    ELSE Restrict(c, DOMAIN c \ {r.key})

Init ==
    /\ content = <<>>
    /\ request = NoRequest

Ask ==
    /\ request = NoRequest
    /\ request' \in Requests \ {NoRequest}
    /\ UNCHANGED content

Apply ==
    /\ request # NoRequest
    /\ content' = Effect(content, request)
    /\ UNCHANGED request

Return ==
    /\ request # NoRequest
    /\ content = Effect(content, request)
    /\ request' = NoRequest
    /\ UNCHANGED content

Next == Ask \/ Apply \/ Return

Spec == Init /\ [][Next]_<<content, request>>
=============================================================================
