----------------------------- MODULE FileStore ------------------------------
(***************************************************************************)
(* What the file layer of the HFS+ library promises its callers: every     *)
(* fork is a string of bytes of its own. A call asks for a size and for a  *)
(* range of one fork to be overwritten; the fork then gets that size and   *)
(* those bytes, and nothing else ever changes a byte of any fork.          *)
(***************************************************************************)
EXTENDS Integers, Sequences

CONSTANTS Files, Bytes, Zero, BlockSize,
    MaxSize   \* bound: no call asks for a longer fork

VARIABLES
    content,   \* the bytes of each fork
    request    \* what the running call still has to do

NoRequest == [size |-> 0, from |-> 1, to |-> 0]
RoundUp(n) == ((n + BlockSize - 1) \div BlockSize) * BlockSize

Init ==
    /\ content = [f \in Files |-> <<>>]
    /\ request = NoRequest

Ask ==
    /\ request = NoRequest
    /\ \E f \in Files, n \in 0 .. MaxSize, from \in 1 .. MaxSize + 1, to \in 0 .. MaxSize, b \in Bytes :
          /\ to <= n
          /\ request' = [fork |-> f, size |-> n, from |-> from, to |-> to, byte |-> b]
    /\ UNCHANGED content

Others(f) == \A g \in Files \ {f} : content'[g] = content[g]

\* Cutting keeps the front. Growing appends zeros, except in the rest of the
\* last block the fork had already: whole new blocks only are cleared, so bytes
\* that were cut off inside a block may come back.
Resized(old, new, n) ==
    /\ Len(new) = n
    /\ \A i \in 1 .. n :
          /\ i <= Len(old) => new[i] = old[i]
          /\ i > RoundUp(Len(old)) => new[i] = Zero

Resize ==
    /\ request # NoRequest
    /\ Resized(content[request.fork], content'[request.fork], request.size)
    /\ Others(request.fork)
    /\ UNCHANGED request

Filled(old, new, from, to, b) ==
    new = [i \in DOMAIN old |-> IF from <= i /\ i <= to THEN b ELSE old[i]]

\* The range is written front to back, in as many pieces as it has extents.
Fill ==
    /\ request # NoRequest
    /\ Len(content[request.fork]) = request.size
    /\ \E k \in request.from .. request.to :
          /\ Filled(content[request.fork], content'[request.fork], request.from, k, request.byte)
          /\ request' = IF k = request.to THEN NoRequest ELSE [request EXCEPT !.from = k + 1]
    /\ Others(request.fork)

Done ==
    /\ request # NoRequest
    /\ request.from > request.to
    /\ Len(content[request.fork]) = request.size
    /\ request' = NoRequest
    /\ UNCHANGED content

Next == Ask \/ Resize \/ Fill \/ Done

Spec == Init /\ [][Next]_<<content, request>>
=============================================================================
