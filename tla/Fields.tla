-------------------------------- MODULE Fields --------------------------------
(***************************************************************************)
(* The memory under the library's structures of optional fields.           *)
(*                                                                         *)
(* Such a structure keeps, for each field, the field itself and a bit that *)
(* says whether it is initialized.  A text is a pointer to a block the     *)
(* structure owns; a number or a flag is held in place.  Nothing but the   *)
(* bit says whether a pointer is to be freed.                              *)
(*                                                                         *)
(* A slot is one field of one structure.  The operators below take a       *)
(* memory and return what the C code makes of it, so that a function is    *)
(* the composition of the functions it calls.                              *)
(***************************************************************************)
EXTENDS Integers, Sequences

CONSTANTS
    Blocks,     \* the blocks of a heap
    Texts,      \* the strings, keys and other buffers a block can hold
    NULL        \* the null pointer, and the value of a number that was never set

VARIABLES
    mem,        \* [on : slots whose bit is set, at : their pointer or value,
                \*  heap : what each block the heap has holds]
    call        \* a call that sets several fields one after the other, or Idle

ASSUME BlocksAreNoValues == NULL \notin Blocks /\ \A b \in Blocks : b \notin Int

-----------------------------------------------------------------------------
(* A block is unused or holds a text for the slot it was allocated for     *)

Unused == <<>>

\* what malloc may return; it may also fail
Spare(m) == {b \in DOMAIN m.heap : m.heap[b] = Unused}

\* free what the bits of S say is owned
Freed(m, S) ==
    LET owned == {m.at[s] : s \in S \cap m.on}
    IN  [m EXCEPT !.heap = [b \in DOMAIN m.heap |-> IF b \in owned THEN Unused ELSE m.heap[b]]]

\* the pointers become NULL
Nulled(m, S) == [m EXCEPT !.at = [s \in DOMAIN m.at |-> IF s \in S THEN NULL ELSE m.at[s]]]

\* the bits
Marked(m, S) == [m EXCEPT !.on = @ \cup S]
Unmarked(m, S) == [m EXCEPT !.on = @ \ S]

\* the pointer of s is the fresh block b, which holds t
Pointed(m, s, b, t) == [m EXCEPT !.at[s] = b, !.heap[b] = <<s, t>>]

\* a number or a flag is set in place
Placed(m, s, v) == [m EXCEPT !.at[s] = v]

\* what almost every unset function does
Unset(m, S) == Unmarked(Nulled(Freed(m, S), S), S)

-----------------------------------------------------------------------------
(* Calls.  A function that sets one field is one step: one of the outcomes *)
(* of its malloc, or what is left when the malloc fails.                   *)

Idle == [how |-> "idle", to |-> NULL, todo |-> {}, doc |-> <<>>]

NoCall == call = Idle

Either(outcomes, failed) == mem' \in outcomes \cup {failed} /\ UNCHANGED call

\* One that sets several, the fields of doc in the structure o, takes a step for each
Begin(how, o, doc) ==
    call' = IF DOMAIN doc = {} THEN Idle
            ELSE [how |-> how, to |-> o, todo |-> DOMAIN doc, doc |-> doc]

\* f is the first in the order of those that are left
InTurn(order, f) ==
    /\ f \in call.todo
    /\ \E i \in DOMAIN order : order[i] = f /\ \A j \in 1..(i - 1) : order[j] \notin call.todo

Continue(f) == call' = IF call.todo = {f} THEN Idle ELSE [call EXCEPT !.todo = @ \ {f}]

Abort == call' = Idle

\* Wrong on purpose: the failure of one field is not looked at
OneOfIgnored(f, outcomes, failed) == mem' \in outcomes \cup {failed} /\ Continue(f)

OneOf(f, outcomes, failed) ==
    (mem' \in outcomes /\ Continue(f)) \/ (mem' = failed /\ Abort)

-----------------------------------------------------------------------------
(* What a structure's user sees, and what must be true of the memory       *)

\* the value of an initialized slot
Value(m, s) == IF m.at[s] \in Blocks THEN m.heap[m.at[s]][2] ELSE m.at[s]

\* a pointer that will be freed is to a block that holds a text for that very slot
Owned(m, s) == m.at[s] \in Blocks => \E t \in Texts : m.heap[m.at[s]] = <<s, t>>

\* a block that no initialized slot points at will never be freed
Lost(m) == {b \in DOMAIN m.heap : m.heap[b] # Unused /\ \A s \in m.on : m.at[s] # b}
=============================================================================
