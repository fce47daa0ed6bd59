--------------------------- MODULE TicketFencing ---------------------------
(***************************************************************************)
(* What the run ledger promises about one ticket's lease generations,      *)
(* whatever crashes, lapses, retries and escalations do: a generation is   *)
(* issued at most once and only upwards, only the generation that owns the *)
(* ticket can have its candidate accepted, and a closed ticket issues      *)
(* nothing any more.                                                       *)
(***************************************************************************)
EXTENDS Integers

CONSTANTS Ticket, MaxGen

VARIABLES
    owner,     \* the generation that owns the ticket, 0 when nobody does
    last,      \* the last generation that was handed out or skipped
    accepted,  \* the generation whose candidate is the accepted one
    closed     \* the ticket was delivered

vars == <<owner, last, accepted, closed>>

TypeOK == /\ owner \in [Ticket -> 0..MaxGen]
          /\ last \in [Ticket -> 0..MaxGen]
          /\ accepted \in [Ticket -> 0..MaxGen]
          /\ closed \in [Ticket -> BOOLEAN]

Init == /\ owner = [t \in Ticket |-> 0]
        /\ last = [t \in Ticket |-> 0]
        /\ accepted = [t \in Ticket |-> 0]
        /\ closed = [t \in Ticket |-> FALSE]

\* The next generation takes the ticket, from nobody or from a lapsed owner.
Issue(t) == /\ ~closed[t]
            /\ last[t] < MaxGen
            /\ owner' = [owner EXCEPT ![t] = last[t] + 1]
            /\ last' = [last EXCEPT ![t] = @ + 1]
            /\ UNCHANGED <<accepted, closed>>

\* The owner's candidate is accepted and the next generation delivers it.
Accept(t) == /\ owner[t] # 0
             /\ ~closed[t]
             /\ last[t] < MaxGen
             /\ accepted' = [accepted EXCEPT ![t] = owner[t]]
             /\ owner' = [owner EXCEPT ![t] = last[t] + 1]
             /\ last' = [last EXCEPT ![t] = @ + 1]
             /\ UNCHANGED closed

Retire(t) == /\ owner[t] # 0
             /\ owner' = [owner EXCEPT ![t] = 0]
             /\ UNCHANGED <<last, accepted, closed>>

\* An exhausted ticket uses up a generation without issuing a run for it.
Skip(t) == /\ ~closed[t]
           /\ last[t] < MaxGen
           /\ owner' = [owner EXCEPT ![t] = 0]
           /\ last' = [last EXCEPT ![t] = @ + 1]
           /\ UNCHANGED <<accepted, closed>>

Close(t) == /\ ~closed[t]
            /\ accepted[t] # 0
            /\ closed' = [closed EXCEPT ![t] = TRUE]
            /\ owner' = [owner EXCEPT ![t] = 0]
            /\ UNCHANGED <<last, accepted>>

Next == \E t \in Ticket : Issue(t) \/ Accept(t) \/ Retire(t) \/ Skip(t) \/ Close(t)

Spec == Init /\ [][Next]_vars

=============================================================================
