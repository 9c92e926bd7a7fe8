-------------------------------- MODULE Mailbox --------------------------------
(***************************************************************************)
(* What live updates promise a page, and nothing about streams, frames or  *)
(* the hub: there is a stock of messages that changes, a page shows the    *)
(* stock as it was at some time, and whenever it falls behind it is told,  *)
(* and goes on being told until it has looked and seen the stock as it is, *)
(* or says that looking failed.  It never goes back to an older stock.  It *)
(* leaves when its access has ended, or when somebody failed to find out   *)
(* whether it has, never otherwise, and does not return.                   *)
(* Streams.tla implements this specification.                              *)
(***************************************************************************)
EXTENDS Naturals

CONSTANTS Principal

VARIABLES
    stock,      \* what each principal may see: a version
    open,       \* whether it has access
    doubted,    \* those for whom somebody failed to find out whether they have
    shown,      \* the version its page shows
    told,       \* whether the page has been told to look, and has yet to
    trouble,    \* whether it shows that it failed to look
    left        \* whether it has left

mailboxVars == <<stock, open, doubted, shown, told, trouble, left>>

TypeOK ==
    /\ stock \in [Principal -> Nat] /\ shown \in [Principal -> Nat]
    /\ \A flag \in {open, told, trouble, left} : flag \in [Principal -> BOOLEAN]
    /\ doubted \subseteq Principal

Init ==
    /\ stock = [p \in Principal |-> 0] /\ shown = [p \in Principal |-> 0]
    /\ open = [p \in Principal |-> TRUE] /\ doubted = {}
    /\ told = [p \in Principal |-> TRUE]
    /\ trouble = [p \in Principal |-> FALSE] /\ left = [p \in Principal |-> FALSE]

\* Pages are told, except that those in S may also be told no more; nobody who left is.
Telling(S) ==
    /\ told' \in [Principal -> BOOLEAN]
    /\ \A p \in Principal : told'[p] # told[p] => ~left[p] /\ (told'[p] \/ p \in S)

\* Pages may be told without need.
Tell == UNCHANGED <<stock, open, doubted, shown, trouble, left>> /\ Telling({})

\* What the principals in S may see changes, and their pages are told at once.
Change(S) ==
    /\ stock' = [p \in Principal |-> IF p \in S THEN stock[p] + 1 ELSE stock[p]]
    /\ UNCHANGED <<open, doubted, shown, trouble, left>>
    /\ Telling({}) /\ \A p \in S : told'[p] \/ left[p]

\* Access ends.
End(S) ==
    /\ \A p \in S : open[p]
    /\ open' = [p \in Principal |-> open[p] /\ p \notin S]
    /\ UNCHANGED <<stock, doubted, shown, told, trouble, left>>

\* The page of p looks: it shows a version no older than before, and needs no more
\* telling if that is the stock as it is.
Look(p) ==
    /\ told[p] /\ ~left[p]
    /\ \E seen \in shown[p]..stock[p] :
        /\ shown' = [shown EXCEPT ![p] = seen]
        /\ Telling(IF seen = stock[p] THEN {p} ELSE {})
    /\ trouble' = [trouble EXCEPT ![p] = FALSE]
    /\ UNCHANGED <<stock, open, doubted, left>>

\* The pages in S fail to look, and say so.
Fail(S) ==
    /\ \A p \in S : told[p] /\ ~left[p]
    /\ trouble' = [p \in Principal |-> trouble[p] \/ p \in S]
    /\ UNCHANGED <<stock, open, doubted, shown, left>>
    /\ Telling(S)

\* Whether p has access cannot be found out.
Doubt(p) ==
    /\ doubted' = doubted \cup {p}
    /\ UNCHANGED <<stock, open, shown, trouble, left>>
    /\ Telling({})

\* The page of p hears that its access has ended, or is held to have, and forgets what it showed.
Leave(p) ==
    /\ ~open[p] \/ p \in doubted
    /\ ~left[p]
    /\ left' = [left EXCEPT ![p] = TRUE]
    /\ shown' = [shown EXCEPT ![p] = 0]
    /\ told' = [told EXCEPT ![p] = FALSE]
    /\ trouble' = [trouble EXCEPT ![p] = FALSE]
    /\ UNCHANGED <<stock, open, doubted>>

Next ==
    \/ Tell
    \/ \E S \in SUBSET Principal : Change(S) \/ End(S) \/ Fail(S)
    \/ \E p \in Principal : Look(p) \/ Doubt(p) \/ Leave(p)

Spec == Init /\ [][Next]_mailboxVars
=============================================================================
