---------------------------- MODULE ListService ----------------------------
(***************************************************************************)
(* What a list or a queue of this repository promises its callers: a       *)
(* sequence that grows at its end and from which the first element is      *)
(* taken out and handed back, or, if it is not a queue, any given element. *)
(***************************************************************************)
EXTENDS SequencesExt

CONSTANTS Items, NULL

VARIABLES
    fifo,      \* it is a queue: only the first element is ever taken
    content,   \* the elements, first to last
    returned   \* what the last removal handed back

Init == fifo \in BOOLEAN /\ content = <<>> /\ returned = NULL

PutLast(x) ==
    /\ content' = Append(content, x)
    /\ UNCHANGED <<fifo, returned>>

TakeFirst ==
    /\ content # <<>>
    /\ content' = Tail(content) /\ returned' = Head(content)
    /\ UNCHANGED fifo

TakeOut(x) ==
    /\ ~fifo
    /\ \E i \in DOMAIN content : content[i] = x /\ content' = RemoveAt(content, i)
    /\ returned' = x
    /\ UNCHANGED fifo

Next == TakeFirst \/ \E x \in Items : PutLast(x) \/ TakeOut(x)

Spec == Init /\ [][Next]_<<fifo, content, returned>>
=============================================================================
