------------------------------ MODULE LossyFeed ------------------------------
(***************************************************************************)
(* What core NATS between two services promises, with no mention of        *)
(* connections, queues or callbacks: messages are announced one after the  *)
(* other, and each reader is handed some of them, in that order and none   *)
(* twice.  A message may reach no reader at all.                           *)
(***************************************************************************)
EXTENDS Naturals, Sequences

CONSTANTS Message, Reader

VARIABLES
    log,   \* the messages announced
    feed   \* feed[r]: the positions in log of the messages r was handed

feedVars == <<log, feed>>

FeedTypeOK ==
    /\ log \in Seq(Message)
    /\ feed \in [Reader -> Seq(Nat \ {0})]

FeedInit ==
    /\ log = <<>>
    /\ feed = [r \in Reader |-> <<>>]

Announce(m) ==
    /\ log' = Append(log, m)
    /\ UNCHANGED feed

\* k is behind everything r was handed.
Ahead(r, k) == \A i \in DOMAIN feed[r] : feed[r][i] < k

Hand(r, k) ==
    /\ k \in DOMAIN log
    /\ Ahead(r, k)
    /\ feed' = [feed EXCEPT ![r] = Append(@, k)]
    /\ UNCHANGED log

FeedNext ==
    \/ \E m \in Message : Announce(m)
    \/ \E r \in Reader : \E k \in DOMAIN log : Hand(r, k)

FeedSpec == FeedInit /\ [][FeedNext]_feedVars

\* A reader is handed nothing twice and nothing late.
InOrderOnce ==
    \A r \in Reader : \A j \in DOMAIN feed[r] :
        \A i \in 1..(j - 1) : feed[r][i] < feed[r][j]

\* A reader is handed only what was announced.
OnlyAnnounced ==
    \A r \in Reader : \A i \in DOMAIN feed[r] : feed[r][i] \in DOMAIN log
==============================================================================
