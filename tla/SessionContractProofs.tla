----------------------- MODULE SessionContractProofs -----------------------
(***************************************************************************)
(* What every implementation of SessionContract has for its refresh        *)
(* tokens, for any sessions and tokens.                                    *)
(***************************************************************************)
EXTENDS SessionContract, TLAPS

\* Only a session that was opened has exchanged tokens.
UnusedIsFresh ==
    \A e \in exchanged : status[e[1]] # "unused"

\* The token a session holds has not been exchanged.
CurrentIsFresh ==
    \A e \in exchanged : status[e[1]] = "live" => e[2] # current[e[1]]

\* A live session has a token to exchange.
LiveHasToken ==
    \A s \in SessionIDs : status[s] = "live" => current[s] \in Tokens

IInv == TypeOK /\ LiveHasToken /\ UnusedIsFresh /\ CurrentIsFresh /\ EachTokenExchangedOnce

LEMMA InitIInv == Init => IInv
  BY DEF Init, IInv, TypeOK, LiveHasToken, UnusedIsFresh, CurrentIsFresh, EachTokenExchangedOnce

\* A step that ends the live sessions of S and opens none.
LEMMA RetireStep ==
  ASSUME IInv, NEW S \in SUBSET SessionIDs, Retire(S)
  PROVE  IInv'
<1>1. TypeOK'
  BY DEF IInv, TypeOK, Retire, EndAll
<1>2. UnusedIsFresh'
  BY DEF IInv, TypeOK, UnusedIsFresh, Retire, EndAll
<1>3. CurrentIsFresh'
  BY DEF IInv, TypeOK, CurrentIsFresh, Retire, EndAll
<1>4. EachTokenExchangedOnce'
  BY DEF IInv, EachTokenExchangedOnce, Retire
<1>5. LiveHasToken'
  BY DEF IInv, TypeOK, LiveHasToken, Retire, EndAll
<1>. QED  BY <1>1, <1>2, <1>3, <1>4, <1>5 DEF IInv

\* A session id that was not used before has exchanged nothing.
LEMMA OpenStep ==
  ASSUME IInv, NEW s \in SessionIDs, NEW t \in Tokens,
         NEW S \in SUBSET SessionIDs, Open(s, t, S)
  PROVE  IInv'
<1>1. TypeOK'
  BY DEF IInv, TypeOK, Open, EndAll
<1>2. \A e \in exchanged : e[1] \in SessionIDs /\ e[1] # s
  BY DEF IInv, TypeOK, UnusedIsFresh, Open
<1>3. UnusedIsFresh'
  BY <1>2 DEF IInv, TypeOK, UnusedIsFresh, Open, EndAll
<1>4. CurrentIsFresh'
  BY <1>2 DEF IInv, TypeOK, CurrentIsFresh, Open, EndAll
<1>5. EachTokenExchangedOnce'
  BY DEF IInv, EachTokenExchangedOnce, Open
<1>6. LiveHasToken'
  BY DEF IInv, TypeOK, LiveHasToken, Open, EndAll
<1>. QED  BY <1>1, <1>3, <1>4, <1>5, <1>6 DEF IInv

\* The token that is exchanged was not exchanged before, and the one that
\* replaces it was never issued.
LEMMA ExchangeStep ==
  ASSUME IInv, NEW s \in SessionIDs, NEW t \in Tokens, Exchange(s, t)
  PROVE  IInv'
<1> DEFINE new == <<s, current[s], t>>
<1>1. /\ status[s] = "live" /\ status' = status
      /\ current' = [current EXCEPT ![s] = t]
      /\ exchanged' = exchanged \union {new}
      /\ t # current[s]
      /\ \A e \in exchanged : e[1] = s => e[2] # t
  BY DEF Exchange, Issued
<1>2. /\ current \in [SessionIDs -> Tokens \union {NoToken}]
      /\ exchanged \subseteq SessionIDs \X Tokens \X Tokens
      /\ status \in [SessionIDs -> {"unused", "live", "dead"}]
  BY DEF IInv, TypeOK
<1>3. \A e \in exchanged : e[1] = s => e[2] # current[s]
  BY <1>1 DEF IInv, CurrentIsFresh
<1>4. TypeOK'
  <2>1. new \in SessionIDs \X Tokens \X Tokens
    BY <1>1 DEF IInv, LiveHasToken
  <2>. QED  BY <1>1, <1>2, <2>1 DEF TypeOK
<1>8. LiveHasToken'
  BY <1>1, <1>2 DEF IInv, LiveHasToken
<1>5. UnusedIsFresh'
  BY <1>1 DEF IInv, UnusedIsFresh
<1>6. CurrentIsFresh'
  BY <1>1, <1>2 DEF IInv, CurrentIsFresh
<1>7. EachTokenExchangedOnce'
  BY <1>1, <1>3 DEF IInv, EachTokenExchangedOnce
<1>. QED  BY <1>4, <1>5, <1>6, <1>7, <1>8 DEF IInv

LEMMA StepIInv == IInv /\ [Next]_vars => IInv'
<1> SUFFICES ASSUME IInv, [Next]_vars PROVE IInv'
  OBVIOUS
<1>1. CASE Next
  BY <1>1, OpenStep, ExchangeStep, RetireStep DEF Next
<1>2. CASE UNCHANGED vars
  BY <1>2 DEF IInv, TypeOK, LiveHasToken, UnusedIsFresh, CurrentIsFresh,
               EachTokenExchangedOnce, vars
<1>. QED  BY <1>1, <1>2

\* Whatever store implements the contract, presenting a refresh token again
\* never yields a second successor (Service.Refresh over Rotate).
THEOREM ContractExchangesOnce == Spec => []EachTokenExchangedOnce
  BY InitIInv, StepIInv, PTL DEF Spec, IInv

-----------------------------------------------------------------------------
(* The chain of a session's tokens.                                        *)

\* Every successor was exchanged in its turn, or is the one to be exchanged, as
\* long as there is one; so a token never issued is no successor of any.
SuccessorsIssued ==
    \A e \in exchanged : status[e[1]] = "live" => e[3] \in Issued(e[1])

OnePredecessor ==
    \A d, e \in exchanged : d[1] = e[1] /\ d[3] = e[3] => d = e

ChainInv == IInv /\ SuccessorsIssued /\ OnePredecessor

LEMMA InitChainInv == Init => ChainInv
  BY InitIInv DEF ChainInv, SuccessorsIssued, OnePredecessor, Init

\* No token is exchanged: a session that is live after the step was so before,
\* with the same token, or has exchanged none.
LEMMA QuietStep ==
  ASSUME ChainInv, exchanged' = exchanged,
         \A e \in exchanged : status'[e[1]] = "live" =>
             status[e[1]] = "live" /\ current'[e[1]] = current[e[1]]
  PROVE  SuccessorsIssued' /\ OnePredecessor'
<1>1. \A e \in exchanged : status'[e[1]] = "live" => Issued(e[1])' = Issued(e[1])
  BY DEF Issued
<1>. QED  BY <1>1 DEF ChainInv, SuccessorsIssued, OnePredecessor

LEMMA ExchangeChains ==
  ASSUME ChainInv, NEW s \in SessionIDs, NEW t \in Tokens, Exchange(s, t)
  PROVE  SuccessorsIssued' /\ OnePredecessor'
<1> DEFINE new == <<s, current[s], t>>
<1>1. /\ status[s] = "live" /\ status' = status
      /\ current' = [current EXCEPT ![s] = t]
      /\ exchanged' = exchanged \union {new}
      /\ t \notin Issued(s)
  BY DEF Exchange
<1>2. current \in [SessionIDs -> Tokens \union {NoToken}]
  BY DEF ChainInv, IInv, TypeOK
<1>3. Issued(s)' = Issued(s) \union {t}
  <2>1. Spent(s)' = Spent(s) \union {current[s]}
    <3>1. {x \in exchanged' : x[1] = s} = {x \in exchanged : x[1] = s} \union {new}
      BY <1>1
    <3>2. Spent(s)' = {e[2] : e \in {x \in exchanged : x[1] = s}} \union {new[2]}
      <4>. HIDE DEF new
      <4>. QED  BY <3>1 DEF Spent
    <3>. QED  BY <3>2 DEF Spent
  <2>2. current'[s] = t
    BY <1>1, <1>2
  <2>. QED  BY <2>1, <2>2 DEF Issued, Spent
<1>4. \A x \in SessionIDs : x # s => Issued(x)' = Issued(x)
  <2> SUFFICES ASSUME NEW x \in SessionIDs, x # s
               PROVE  Issued(x)' = Issued(x)
    OBVIOUS
  <2>1. {e \in exchanged' : e[1] = x} = {e \in exchanged : e[1] = x}
    BY <1>1
  <2>2. current'[x] = current[x]
    BY <1>1, <1>2
  <2>. QED  BY <2>1, <2>2 DEF Issued
<1>5. \A e \in exchanged : e[1] = s => e[3] \in Issued(s) /\ e[3] # t
  BY <1>1 DEF ChainInv, SuccessorsIssued
<1>6. SuccessorsIssued'
  <2> SUFFICES ASSUME NEW e \in exchanged', status'[e[1]] = "live"
               PROVE  e[3] \in Issued(e[1])'
    BY DEF SuccessorsIssued
  <2>1. CASE e = new
    BY <1>3, <2>1
  <2>2. CASE e \in exchanged
    <3>1. e[1] \in SessionIDs
      BY <2>2 DEF ChainInv, IInv, TypeOK
    <3>. QED  BY <1>1, <1>3, <1>4, <2>2, <3>1 DEF ChainInv, SuccessorsIssued
  <2>. QED  BY <1>1, <2>1, <2>2
<1>7. OnePredecessor'
  BY <1>1, <1>5 DEF ChainInv, OnePredecessor
<1>. QED  BY <1>6, <1>7

LEMMA StepChainInv == ChainInv /\ [Next]_vars => ChainInv'
<1> SUFFICES ASSUME ChainInv, [Next]_vars PROVE ChainInv'
  OBVIOUS
<1>1. IInv'
  BY StepIInv DEF ChainInv
<1>2. TypeOK /\ UnusedIsFresh
  BY DEF ChainInv, IInv
<1>3. ASSUME NEW s \in SessionIDs, NEW t \in Tokens, NEW S \in SUBSET SessionIDs, Open(s, t, S)
      PROVE  SuccessorsIssued' /\ OnePredecessor'
  <2>1. \A e \in exchanged : e[1] \in SessionIDs /\ e[1] # s
    BY <1>2, <1>3 DEF TypeOK, UnusedIsFresh, Open
  <2>. QED  BY <1>2, <1>3, <2>1, QuietStep DEF TypeOK, Open, EndAll
<1>4. ASSUME NEW S \in SUBSET SessionIDs, Retire(S)
      PROVE  SuccessorsIssued' /\ OnePredecessor'
  <2>1. \A e \in exchanged : e[1] \in SessionIDs
    BY <1>2 DEF TypeOK
  <2>. QED  BY <1>2, <1>4, <2>1, QuietStep DEF TypeOK, Retire, EndAll
<1>5. ASSUME UNCHANGED vars
      PROVE  SuccessorsIssued' /\ OnePredecessor'
  BY <1>5, QuietStep DEF vars
<1>6. SuccessorsIssued' /\ OnePredecessor'
  BY <1>3, <1>4, <1>5, ExchangeChains DEF Next
<1>. QED  BY <1>1, <1>6 DEF ChainInv

\* Whatever store implements the contract, the refresh tokens of a session are one
\* chain: a stolen token and the one its owner has cannot both go on.
THEOREM ContractTokensChain == Spec => []TokensFormAChain
<1>1. ChainInv => TokensFormAChain
  BY DEF ChainInv, IInv, TypeOK, CurrentIsFresh, SuccessorsIssued, OnePredecessor, Issued, Spent,
         TokensFormAChain
<1>. QED  BY <1>1, InitChainInv, StepChainInv, PTL DEF Spec

\* Whatever store implements the contract, no session that ended is opened again.
THEOREM ContractEndsForGood == Spec => EndedForGood
<1>1. TypeOK /\ [Next]_vars => [\A s \in SessionIDs : status[s] = "dead" => status'[s] = "dead"]_vars
  BY DEF TypeOK, Next, Open, Exchange, Retire, EndAll, vars
<1>2. IInv => TypeOK
  BY DEF IInv
<1>. QED  BY <1>1, <1>2, InitIInv, StepIInv, PTL DEF Spec, EndedForGood

=============================================================================
