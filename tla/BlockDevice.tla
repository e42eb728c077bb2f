------------------------------ MODULE BlockDevice ------------------------------
(***************************************************************************)
(* What the block device adapters promise to lwext4: requests of any       *)
(* number of tasks, each over a run of blocks.  A write stores its blocks  *)
(* in any order, each at any time before it returns, and one that fails    *)
(* may have stored some of them; nothing else changes a block.  At the     *)
(* moment a read returns success its answer is what all its blocks hold,   *)
(* and at the moment a write does all of its blocks hold its data.         *)
(*                                                                         *)
(* Implemented by BdlAdapter and SdmmcAdapter.                             *)
(***************************************************************************)
EXTENDS Integers, Sequences

CONSTANT Tasks

VARIABLES content,  \* content[b]: the data of block b
          serving   \* serving[t]: [kind, from, data, ok], where kind is "none" if
                    \* no request of t is served; data is what is to be written,
                    \* or what was read so far; ok its last result

vars == <<content, serving>>

Init == \A t \in Tasks : serving[t].kind = "none"

Others(t) == \A u \in Tasks \ {t} : serving'[u] = serving[u]

(* A request comes in, or the last answer is forgotten. *)
Accept(t) ==
    /\ serving[t].kind = "none" /\ serving'[t].kind \in {"none", "read", "write"}
    /\ Others(t) /\ UNCHANGED content

(* While a request is served, a write may store some of its blocks. *)
Working(t) ==
    LET r == serving[t]
    IN  /\ r.kind # "none" /\ serving'[t].from = r.from
        /\ r.kind = "write" => serving'[t].data = r.data
        /\ DOMAIN content' = DOMAIN content
        /\ \A b \in DOMAIN content :
              \/ content'[b] = content[b]
              \/ /\ r.kind = "write" /\ b \in r.from .. r.from + Len(r.data) - 1
                 /\ content'[b] = r.data[b - r.from + 1]
        /\ Others(t)

Serve(t) == Working(t) /\ serving'[t].kind = serving[t].kind

(* The answer, with a promise about all the blocks if it is success *)
Answer(t) ==
    /\ Working(t) /\ serving'[t].kind = "none"
    /\ serving'[t].ok =>
          \A i \in 1 .. Len(serving'[t].data) :
             content'[serving'[t].from + i - 1] = serving'[t].data[i]

Next == \E t \in Tasks : Accept(t) \/ Serve(t) \/ Answer(t)

Spec == Init /\ [][Next]_vars
=============================================================================
