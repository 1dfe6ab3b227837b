--------------------------- MODULE PromiseProofs ----------------------------
(***************************************************************************)
(* What the two abstract specifications guarantee, for every value of      *)
(* their constants: the stock ledger, which OrderSaga implements, and the  *)
(* lossy feed, which OrderStatus and MailJobs implement.                   *)
(***************************************************************************)
EXTENDS StockLedger, LossyFeed, TLAPS

-----------------------------------------------------------------------------
(* The stock ledger. *)

\* The part of the ledger's invariant an order placed keeps: it holds what its
\* client holds, and nobody has units placed before placing an order.
LedgerInv == OrderIsHolding /\ UnitsArePlaced

\* The values of the ledger's variables stay in their types, provided that the
\* supplier's levels are integers.
THEOREM LedgerType ==
  ASSUME Level \subseteq Int
  PROVE  LedgerSpec => []LedgerTypeOK
<1>1. LedgerInit => LedgerTypeOK
  BY DEF LedgerInit, LedgerTypeOK
<1>2. LedgerTypeOK /\ [LedgerNext]_ledgerVars => LedgerTypeOK'
  <2> SUFFICES ASSUME LedgerTypeOK, [LedgerNext]_ledgerVars
               PROVE  LedgerTypeOK'
    OBVIOUS
  <2> USE DEF LedgerTypeOK
  <2>1. ASSUME NEW p \in Product, NEW n \in Level, Supply(p, n)
        PROVE  LedgerTypeOK'
    BY <2>1 DEF Supply
  <2>2. ASSUME NEW c \in Client, NEW p \in Product, Reserve(c, p)
        PROVE  LedgerTypeOK'
    BY <2>2 DEF Reserve
  <2>3. ASSUME NEW c \in Client, Place(c)
        PROVE  LedgerTypeOK'
    BY <2>3 DEF Place, Holding
  <2>4. CASE UNCHANGED ledgerVars
    BY <2>4 DEF ledgerVars
  <2> QED
    BY <2>1, <2>2, <2>3, <2>4 DEF LedgerNext
<1> QED
  BY <1>1, <1>2, PTL DEF LedgerSpec

\* In the ledger an order holds exactly the units its client reserved, from the
\* moment it is placed on.
THEOREM LedgerSafe == LedgerSpec => []LedgerInv
<1>1. LedgerInit => LedgerInv
  BY DEF LedgerInit, LedgerInv, OrderIsHolding, UnitsArePlaced
<1>2. LedgerInv /\ [LedgerNext]_ledgerVars => LedgerInv'
  <2> SUFFICES ASSUME LedgerInv, [LedgerNext]_ledgerVars
               PROVE  LedgerInv'
    OBVIOUS
  <2> USE DEF LedgerInv, OrderIsHolding, UnitsArePlaced, Holding
  <2>1. ASSUME NEW p \in Product, NEW n \in Level, Supply(p, n)
        PROVE  LedgerInv'
    BY <2>1 DEF Supply
  <2>2. ASSUME NEW c \in Client, NEW p \in Product, Reserve(c, p)
        PROVE  LedgerInv'
    <3>1. \A d \in placed : held'[d] = held[d]
      BY <2>2 DEF Reserve
    <3> QED
      BY <2>2, <3>1 DEF Reserve
  <2>3. ASSUME NEW c \in Client, Place(c)
        PROVE  LedgerInv'
    <3>1. UnitsArePlaced'
      BY <2>3 DEF Place
    <3>2. ASSUME NEW d \in placed'
          PROVE  {u \in units' : u.order = d} = Holding(d)'
      BY <2>3, <3>2 DEF Place
    <3> QED
      BY <3>1, <3>2
  <2>4. CASE UNCHANGED ledgerVars
    BY <2>4 DEF ledgerVars
  <2> QED
    BY <2>1, <2>2, <2>3, <2>4 DEF LedgerNext
<1> QED
  BY <1>1, <1>2, PTL DEF LedgerSpec

-----------------------------------------------------------------------------
(* The lossy feed. *)

\* What every state satisfies: a reader was handed positions of the log, in order.
FeedInv == FeedTypeOK /\ InOrderOnce /\ OnlyAnnounced

\* A step of the feed keeps the order of what every reader was handed.
LEMMA FeedStep ==
  ASSUME FeedInv, [FeedNext]_feedVars
  PROVE  FeedInv'
<1> USE DEF FeedInv, FeedTypeOK, InOrderOnce, OnlyAnnounced
<1>1. ASSUME NEW m \in Message, Announce(m)
      PROVE  FeedInv'
  <2>1. DOMAIN log \subseteq DOMAIN log'
    BY <1>1 DEF Announce
  <2> QED
    BY <1>1, <2>1 DEF Announce
<1>2. ASSUME NEW r \in Reader, NEW k \in DOMAIN log, Hand(r, k)
      PROVE  FeedInv'
  <2>1. \A t \in Reader : t # r => feed'[t] = feed[t]
    BY <1>2 DEF Hand
  <2>2. feed'[r] = Append(feed[r], k) /\ k \in Nat \ {0} /\ UNCHANGED log
    BY <1>2 DEF Hand
  <2>3. \A j \in DOMAIN feed'[r] :
           /\ j \in DOMAIN feed[r] => feed'[r][j] = feed[r][j]
           /\ j \notin DOMAIN feed[r] => j = Len(feed[r]) + 1 /\ feed'[r][j] = k
    BY <2>2
  <2>4. FeedTypeOK'
    BY <1>2, <2>2 DEF Hand
  <2>5. InOrderOnce'
    <3> SUFFICES ASSUME NEW t \in Reader, NEW j \in DOMAIN feed'[t], NEW i \in 1..(j - 1)
                 PROVE  feed'[t][i] < feed'[t][j]
      OBVIOUS
    <3>1. CASE t # r
      BY <2>1, <3>1
    <3>2. CASE t = r
      <4>1. i \in DOMAIN feed[r] /\ feed'[r][i] = feed[r][i]
        BY <2>2, <2>3, <3>2
      <4> QED
        BY <1>2, <2>3, <3>2, <4>1 DEF Hand, Ahead
    <3> QED
      BY <3>1, <3>2
  <2>6. OnlyAnnounced'
    BY <1>2, <2>1, <2>2, <2>3
  <2> QED
    BY <2>4, <2>5, <2>6
<1>3. CASE UNCHANGED feedVars
  BY <1>3 DEF feedVars
<1> QED
  BY <1>1, <1>2, <1>3 DEF FeedNext

\* Whoever implements the feed hands its readers only what was announced, in
\* that order and nothing twice.
THEOREM FeedIsOrdered == FeedSpec => [](InOrderOnce /\ OnlyAnnounced)
<1>1. FeedInit => FeedInv
  BY DEF FeedInit, FeedInv, FeedTypeOK, InOrderOnce, OnlyAnnounced
<1>2. FeedInv => InOrderOnce /\ OnlyAnnounced
  BY DEF FeedInv
<1> QED
  BY <1>1, <1>2, FeedStep, PTL DEF FeedSpec
=============================================================================
