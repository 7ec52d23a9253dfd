------------------------------ MODULE FifoSlots ------------------------------
(***************************************************************************)
(* What a gate promises for one set of keys, without goroutines, deadlines *)
(* or a mutex: a key has Slots places; a user who finds one free, and no   *)
(* one in line, takes it at once; another joins the line, if the line has  *)
(* room; a place given up goes to the first in line in the same step.      *)
(* Gate.tla is shown to implement this module.                             *)
(***************************************************************************)
EXTENDS Naturals, Sequences, FiniteSets

CONSTANTS Users,    \* those who may hold a place
          Places,   \* the keys
          Slots,    \* the places of a key
          Room      \* the longest line of a key

VARIABLES owners,   \* owners[k]: the users holding a place of k
          line      \* line[k]: the users waiting for one, first come first served

slotVars == <<owners, line>>

SlotsInit ==
    /\ owners = [k \in Places |-> {}]
    /\ line = [k \in Places |-> <<>>]

\* u finds a place of k free and no one in line.
Take(u, k) ==
    /\ u \notin owners[k]
    /\ line[k] = <<>>
    /\ Cardinality(owners[k]) < Slots
    /\ owners' = [owners EXCEPT ![k] = @ \cup {u}]
    /\ UNCHANGED line

\* u joins k's line, behind the others.
Join(u, k) ==
    /\ u \notin owners[k]
    /\ \/ line[k] # <<>>
       \/ Cardinality(owners[k]) = Slots
    /\ Len(line[k]) < Room
    /\ line' = [line EXCEPT ![k] = Append(@, u)]
    /\ UNCHANGED owners

\* The user at position i of k's line gives up; the others keep their order.
Quit(i, k) ==
    /\ i \in DOMAIN line[k]
    /\ line' = [line EXCEPT
          ![k] = [j \in 1..Len(@) - 1 |-> IF j < i THEN @[j] ELSE @[j + 1]]]
    /\ UNCHANGED owners

\* u gives k up: to the first in line, when there is one.
Give(u, k) ==
    /\ u \in owners[k]
    /\ IF line[k] = <<>>
       THEN /\ owners' = [owners EXCEPT ![k] = @ \ {u}]
            /\ UNCHANGED line
       ELSE /\ owners' = [owners EXCEPT ![k] = (@ \ {u}) \cup {Head(line[k])}]
            /\ line' = [line EXCEPT ![k] = Tail(@)]

SlotsNext ==
    \E k \in Places :
        \/ \E u \in Users : Take(u, k) \/ Join(u, k) \/ Give(u, k)
        \/ \E i \in 1..Room : Quit(i, k)

SlotsSpec == SlotsInit /\ [][SlotsNext]_slotVars
=============================================================================
