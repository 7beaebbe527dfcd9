---------------------------- MODULE BatchReport ----------------------------
(***************************************************************************)
(* What the desktop application promises of a batch, without threads,      *)
(* signals or message boxes: the files of the list are tried one at a      *)
(* time and in order, a file that was begun is finished before the next,   *)
(* nothing is reopened, and the card at the end sums up the rows it shows. *)
(***************************************************************************)
EXTENDS Naturals, Sequences, SequencesExt

VARIABLES
    running,    \* a batch is being processed
    rows,       \* the states shown in the list, while they belong to a batch
    card        \* the result card: hidden, or its title

vars == <<running, rows, card>>

Ends == {"Completed", "Failed", "Cancelled"}

Init == ~running /\ rows = <<>> /\ card = "hidden"

\* Every file of the list waits for its turn; the list may have become empty.
Begin ==
    /\ ~running
    /\ running'
    /\ ToSet(rows') \subseteq {"Ready"}
    /\ card' = "hidden"

\* The first file that waits, when no other one is being processed.
Start ==
    /\ running
    /\ "Processing" \notin ToSet(rows)
    /\ \E i \in DOMAIN rows :
         /\ rows[i] = "Ready"
         /\ \A j \in 1 .. i - 1 : rows[j] # "Ready"
         /\ rows' = [rows EXCEPT ![i] = "Processing"]
    /\ UNCHANGED <<running, card>>

Finish ==
    /\ running
    /\ \E i \in DOMAIN rows, end \in Ends :
         rows[i] = "Processing" /\ rows' = [rows EXCEPT ![i] = end]
    /\ UNCHANGED <<running, card>>

\* What the title claims of the rows below it.
Claims(title, states) ==
    CASE title = "complete"  -> states \subseteq {"Completed"}
      [] title = "errors"    -> "Failed" \in states /\ "Cancelled" \notin states
      [] title = "cancelled" -> TRUE

\* The files that were not begun count as cancelled.
End ==
    /\ running
    /\ "Processing" \notin ToSet(rows)
    /\ rows' = [i \in DOMAIN rows |->
                    IF rows[i] = "Ready" THEN "Cancelled" ELSE rows[i]]
    /\ card' \in {"complete", "errors", "cancelled"}
    /\ Claims(card', ToSet(rows'))
    /\ ~running'

\* The list changes, and with it the card goes.
Forget ==
    /\ ~running
    /\ rows' = <<>>
    /\ card' = "hidden"
    /\ UNCHANGED running

Next == Begin \/ Start \/ Finish \/ End \/ Forget

Spec == Init /\ [][Next]_vars

====
