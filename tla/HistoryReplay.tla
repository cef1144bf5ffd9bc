----------------------------- MODULE HistoryReplay ---------------------------
(* What a history replay promises, without its two databases, its threads and *)
(* its crashes.  A replay of a link replaces the one before it as a whole;    *)
(* its messages are given to the outbound queue in order, each once; only a   *)
(* message without content is passed over.  A replay that is not replaced is  *)
(* taken up where it stopped, and none of its messages is lost on the way.    *)
EXTENDS Naturals, Sequences

CONSTANTS
    Links,       \* replay destinations: a slave chat in a Telegram chat or topic
    History,     \* [Links -> Seq(Kinds)], the messages of a link, oldest first
    Numbers      \* what tells replays apart

VARIABLES
    replay,      \* the current replay of each link
    pending,     \* the positions of it that have not been given yet
    given        \* how often each message of each replay has been given

promise == <<replay, pending, given>>

Positions(l) == DOMAIN History[l]
Content(l) == {p \in Positions(l) : History[l][p] # "empty"}

ReplayInit ==
    /\ replay \in [Links -> Numbers]
    /\ \A l \in Links : pending[l] \subseteq Positions(l)
    /\ given = [l \in Links |-> [g \in Numbers |-> [p \in Positions(l) |-> 0]]]

(* A new replay of l, numbered g, starts from the beginning.                  *)
Replace(l, g) ==
    /\ g # replay[l]
    /\ replay' = [replay EXCEPT ![l] = g]
    /\ pending' = [pending EXCEPT ![l] = Positions(l)]
    /\ UNCHANGED given

(* Some of the next messages are given: nothing with content is jumped.       *)
Give(l, S) ==
    /\ S # {} /\ S \subseteq pending[l]
    /\ \A p \in S, q \in (pending[l] \ S) \cap Content(l) : p < q
    /\ pending' = [pending EXCEPT ![l] = @ \ S]
    /\ given' = [given EXCEPT ![l][replay[l]] =
                    [p \in DOMAIN @ |-> @[p] + (IF p \in S THEN 1 ELSE 0)]]
    /\ UNCHANGED replay

PassOver(l, p) ==
    /\ p \in pending[l] \ Content(l)
    /\ pending' = [pending EXCEPT ![l] = @ \ {p}]
    /\ UNCHANGED <<replay, given>>

ReplayNext ==
    \E l \in Links :
        \/ \E g \in Numbers : Replace(l, g)
        \/ \E S \in SUBSET Positions(l) : Give(l, S)
        \/ \E p \in Positions(l) : PassOver(l, p)

ReplaySpec == ReplayInit /\ [][ReplayNext]_promise
==============================================================================
