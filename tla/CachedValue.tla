---------------------------- MODULE CachedValue ----------------------------
(***************************************************************************)
(* What RefreshSlot promises its users (provider models, MCP tools): a     *)
(* value that is replaced as if each fetch that lands had begun and landed *)
(* in one step.  `seen` is how many replacements the producer of the value *)
(* could know of.                                                          *)
(***************************************************************************)
EXTENDS Naturals

VARIABLES
    value,      \* nothing, or where the value came from and what it is based on
    writes      \* the replacements so far

Nothing == [by |-> "nothing", seen |-> 0]

Init == value = Nothing /\ writes = 0

Replace(by) == value' = [by |-> by, seen |-> writes] /\ writes' = writes + 1

Next == Replace("insert") \/ Replace("fetch")

Spec == Init /\ [][Next]_<<value, writes>>
=============================================================================
