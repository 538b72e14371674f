-------------------------- MODULE TokenCacheProofs --------------------------
(***************************************************************************)
(* Proofs about TokenCache, for any number of callers, any timeout and any *)
(* lifetimes.  Waiting is bounded by position: the caller at place i of n  *)
(* has waited for at most n - i mints and the one in progress.             *)
(***************************************************************************)
EXTENDS TokenCache, FiniteSetTheorems, TLAPS

N == Cardinality(Callers)
T == HTTPTimeout

LEMMA Constants ==
  /\ N \in Nat /\ T \in Nat \ {0} /\ N * T \in Nat /\ QueueTime = N * T
  /\ Longest \in Lifetimes /\ Longest \in Nat /\ \A l \in Lifetimes : l \in Nat /\ 0 < l /\ l <= Longest
  /\ OldAge \in Nat /\ T <= OldAge /\ HTTPTimeout = T
  /\ QueueTime \in Nat /\ (Callers # {} => T <= QueueTime)
<1>1. N \in Nat BY TokenCacheAssumption, FS_CardinalityType DEF N
<1>2. T \in Nat \ {0} BY TokenCacheAssumption DEF T
<1>3. N * T \in Nat BY <1>1, <1>2
<1>4. Longest \in Lifetimes /\ \A l \in Lifetimes : l <= Longest
  BY TokenCacheAssumption DEF Longest
<1>5. Longest \in Nat /\ \A l \in Lifetimes : l \in Nat /\ 0 < l
  BY <1>4, TokenCacheAssumption
<1>6. OldAge \in Nat /\ T <= OldAge BY <1>2, <1>5 DEF OldAge, T
<1>7. ASSUME Callers # {} PROVE T <= N * T
  <2>1. N # 0 BY <1>7, TokenCacheAssumption, FS_EmptySet DEF N
  <2> QED BY <2>1, <1>1, <1>2
<1> QED BY <1>1, <1>2, <1>3, <1>4, <1>5, <1>6, <1>7 DEF QueueTime, N, T

\* The queue is no longer than there are callers, and shorter while one of them is idle.
LEMMA QueueLength ==
  ASSUME Typed, Queued
  PROVE  /\ Len(queue) \in Nat /\ Len(queue) <= N
         /\ (\E c \in Callers : pc[c] # "queued") => Len(queue) < N
<1> DEFINE n == Len(queue)
           f == [i \in 1..n |-> queue[i]]
<1>1. n \in Nat /\ DOMAIN queue = 1..n BY DEF Typed
<1> HIDE DEF n
<1>2. IsFiniteSet(1..n) /\ Cardinality(1..n) = n
  <2>1. Cardinality(1..n) = IF 1 > n THEN 0 ELSE n - 1 + 1 BY <1>1, FS_Interval
  <2> QED BY <1>1, <2>1, FS_Interval
<1>3. f \in Injection(1..n, Callers)
  <2>1. f \in [1..n -> Callers]
    <3>1. \A i \in 1..n : queue[i] \in Callers BY <1>1 DEF Typed
    <3> QED BY <3>1
  <2>2. \A i, j \in 1..n : f[i] = f[j] => i = j BY <1>1 DEF Queued
  <2> QED BY <2>1, <2>2 DEF Injection, IsInjective
<1>4. ASSUME NEW c \in Callers, pc[c] # "queued" PROVE f \notin Surjection(1..n, Callers)
  BY <1>1, <1>4 DEF Queued, Surjection
<1> HIDE DEF f
<1>5. n <= N /\ (n = N => f \in Surjection(1..n, Callers))
  BY <1>2, <1>3, FS_Injection, TokenCacheAssumption DEF N
<1>6. (\E c \in Callers : pc[c] # "queued") => n < N BY <1>1, <1>4, <1>5, Constants
<1> QED BY <1>1, <1>5, <1>6 DEF n

------------------------------------------------------------------------------
(* Tokens                                                                  *)

LEMMA Tokens ==
  /\ NoToken \in Token /\ NoMint \in [state : {"none", "asked", "issued"},
                                       age : 0..HTTPTimeout, token : Token]
  /\ \A token \in Token : Older(token) \in Token
  /\ \A l \in Lifetimes : [life |-> l, age |-> 0, transit |-> 0] \in Token
<1> USE Constants DEF T
<1>1. NoToken \in Token BY DEF NoToken, Token
<1>2. ASSUME NEW token \in Token PROVE Older(token) \in Token
  <2>1. token.age \in 0..OldAge BY DEF Token
  <2>2. (IF token.age < OldAge THEN token.age + 1 ELSE token.age) \in 0..OldAge BY <2>1
  <2> QED BY <2>2 DEF Older, Token
<1>3. \A l \in Lifetimes : [life |-> l, age |-> 0, transit |-> 0] \in Token BY DEF Token
<1> QED BY <1>1, <1>2, <1>3 DEF NoMint

LEMMA TokenParts ==
  ASSUME NEW token \in Token
  PROVE  token.life \in Nat /\ token.age \in Nat /\ token.transit \in Nat
<1>1. /\ token.life \in Lifetimes \union {0}
      /\ token.age \in 0..OldAge /\ token.transit \in 0..HTTPTimeout
  BY DEF Token
<1>2. token.life \in Nat
  <2>1. CASE token.life \in Lifetimes BY <2>1, TokenCacheAssumption
  <2>2. CASE token.life = 0 BY <2>2
  <2> QED BY <1>1, <2>1, <2>2
<1>3. token.age \in Nat BY <1>1
<1>4. token.transit \in Nat BY <1>1
<1> QED BY <1>2, <1>3, <1>4

\* A token that ages loses at most one unit of what is left of it, and nothing else.
LEMMA Aging ==
  ASSUME NEW token \in Token
  PROVE  /\ Left(token) \in Int /\ Left(Older(token)) >= Left(token) - 1
         /\ Older(token).life = token.life /\ Older(token).transit = token.transit
         /\ Older(token).age >= token.age /\ Older(token).age <= token.age + 1
<1>1. /\ token.life \in Nat /\ token.age \in Nat /\ token.transit \in Nat
  BY TokenParts
<1>2. /\ Older(token).life = token.life /\ Older(token).transit = token.transit
      /\ Older(token).age = IF token.age < OldAge THEN token.age + 1 ELSE token.age
  BY DEF Older, Token
<1> QED BY <1>1, <1>2, Constants DEF Left

------------------------------------------------------------------------------
(* Type correctness                                                        *)

LEMMA InitType == Init => TypeOK
<1> SUFFICES ASSUME Init PROVE TypeOK
  OBVIOUS
<1>1. Typed BY Constants, Tokens DEF Init, Typed, Outcomes, NoMint
<1>2. Queued BY DEF Init, Queued, NoMint
<1> QED BY <1>1, <1>2 DEF TypeOK

\* What the steps that leave the lock's queue alone share.
LEMMA NextTyped == TypeOK /\ [Next]_vars => Typed'
<1> SUFFICES ASSUME TypeOK, [Next]_vars PROVE Typed'
  OBVIOUS
<1> USE DEF TypeOK, Typed
<1>1. ASSUME NEW c \in Callers, Send(c) PROVE Typed'
  BY <1>1, Constants, Tokens DEF Send, Outcomes
<1>2. ASSUME NEW c \in Callers, Reuse(c) PROVE Typed'
  BY <1>2 DEF Reuse, Holds, HandOut
<1>3. ASSUME NEW c \in Callers, Mint(c) PROVE Typed'
  BY <1>3, Constants, Tokens DEF Mint, NoMint, T
<1>4. CASE Issue
  <2>1. PICK l \in Lifetimes :
          mint' = [mint EXCEPT !.state = "issued",
                               !.token = [life |-> l, age |-> 0, transit |-> 0]]
    BY <1>4 DEF Issue
  <2>2. mint'.token \in Token /\ mint'.token.age = 0 /\ mint'.age = mint.age
    BY <2>1, Tokens
  <2>3. mint.age \in 0..HTTPTimeout OBVIOUS
  <2>4. mint' \in [state : {"none", "asked", "issued"}, age : 0..HTTPTimeout, token : Token]
    BY <2>1, Tokens
  <2> QED BY <1>4, <2>2, <2>3, <2>4 DEF Issue
<1>5. ASSUME NEW c \in Callers, Minted(c) PROVE Typed'
  <2>1. [mint.token EXCEPT !.transit = mint.token.age] \in Token
    <3>1. mint.token.age \in 0..HTTPTimeout BY <1>5, Constants DEF Minted, Token, T
    <3>2. mint.token \in Token OBVIOUS
    <3> QED BY <3>1, <3>2 DEF Token
  <2> QED BY <1>5, <2>1, Tokens DEF Minted, Holds, HandOut, NoMint
<1>6. ASSUME NEW c \in Callers, MintFails(c) PROVE Typed'
  BY <1>6, Tokens DEF MintFails, Holds, EndRequest, Outcomes, NoMint
<1>7. ASSUME NEW c \in Callers, Deliver(c) PROVE Typed'
  BY <1>7 DEF Deliver, EndRequest, Outcomes
<1>8. ASSUME NEW c \in Callers, Fail(c) PROVE Typed'
  BY <1>8 DEF Fail, EndRequest, Outcomes
<1>9. CASE Tick
  <2>1. \A c \in Callers : Aged(age[c]) \in 0..(QueueTime + 1) BY Constants DEF Aged
  <2>2. age' \in [Callers -> 0..(QueueTime + 1)] BY <1>9, <2>1 DEF Tick
  <2>3. carried' \in [Callers -> Token] BY <1>9, Tokens DEF Tick
  <2>4. mint' \in [state : {"none", "asked", "issued"}, age : 0..HTTPTimeout, token : Token]
    <3>1. (IF mint.age < HTTPTimeout THEN mint.age + 1 ELSE mint.age) \in 0..HTTPTimeout
      BY Constants DEF T
    <3>2. Older(mint.token) \in Token BY Tokens
    <3> QED BY <1>9, <3>1, <3>2 DEF Tick
  <2>5. mint'.state = "issued" => mint'.token.age <= mint'.age
    <3> SUFFICES ASSUME mint'.state = "issued" PROVE mint'.token.age <= mint'.age
      OBVIOUS
    <3>1. mint.state = "issued" /\ queue # << >> BY <1>9 DEF Tick, Queued
    <3>2. mint.age < HTTPTimeout BY <1>9, <3>1 DEF Tick, MintDeadline
    <3>3. mint'.token = Older(mint.token) /\ mint'.age = mint.age + 1
      BY <1>9, <3>1, <3>2 DEF Tick
    <3>4. /\ mint.token.age <= mint.age /\ mint.age \in Int /\ mint.token.age \in Int
          /\ Older(mint.token).age \in Int
      <4>1. mint.token \in Token /\ Older(mint.token) \in Token BY Tokens
      <4>2. mint.token.age \in Int /\ Older(mint.token).age \in Int BY <4>1, TokenParts
      <4> QED BY <3>1, <4>2
    <3> QED BY <3>3, <3>4, Aging
  <2> QED BY <1>9, <2>2, <2>3, <2>4, <2>5, Tokens DEF Tick
<1>10. CASE UNCHANGED vars BY <1>10 DEF vars
<1> QED BY <1>1, <1>2, <1>3, <1>4, <1>5, <1>6, <1>7, <1>8, <1>9, <1>10 DEF Next, Step

\* What is left of a queue when its head leaves.
LEMMA TailOf ==
  ASSUME TypeOK, queue # << >>, queue' = Tail(queue)
  PROVE  /\ Len(queue) \in Nat \ {0} /\ DOMAIN queue = 1..Len(queue)
         /\ DOMAIN queue' = 1..(Len(queue) - 1)
         /\ \A i \in DOMAIN queue' : i + 1 \in DOMAIN queue /\ queue'[i] = queue[i + 1]
BY DEF TypeOK, Typed

LEMMA AppendTo ==
  ASSUME TypeOK, NEW c \in Callers, queue' = Append(queue, c)
  PROVE  /\ Len(queue) \in Nat /\ DOMAIN queue = 1..Len(queue)
         /\ DOMAIN queue' = 1..(Len(queue) + 1)
         /\ \A i \in DOMAIN queue : queue'[i] = queue[i]
         /\ queue'[Len(queue) + 1] = c
BY DEF TypeOK, Typed

\* The head leaves the queue and no longer waits.
LEMMA HeadLeaves ==
  ASSUME TypeOK, NEW c \in Callers, Holds(c), queue' = Tail(queue), mint'.state = "none",
         NEW next \in {"sent", "idle"}, pc' = [pc EXCEPT ![c] = next]
  PROVE  Queued'
<1>1. queue # << >> /\ queue[1] = c /\ 1 \in DOMAIN queue
  BY TailOf DEF Holds, TypeOK, Typed
<1>2. \A i, j \in DOMAIN queue' : i # j => queue'[i] # queue'[j]
  BY <1>1, TailOf DEF TypeOK, Queued
<1>3. ASSUME NEW d \in Callers PROVE pc'[d] = "queued" <=> \E i \in DOMAIN queue' : queue'[i] = d
  <2>1. CASE d = c
    <3>1. pc'[d] # "queued" BY <2>1 DEF TypeOK, Typed
    <3>2. ASSUME NEW i \in DOMAIN queue' PROVE queue'[i] # d
      BY <1>1, <2>1, TailOf DEF TypeOK, Queued
    <3> QED BY <3>1, <3>2
  <2>2. CASE d # c
    <3>1. pc'[d] = pc[d] BY <2>2 DEF TypeOK, Typed
    <3>2. ASSUME NEW i \in DOMAIN queue, queue[i] = d PROVE \E k \in DOMAIN queue' : queue'[k] = d
      <4>1. i - 1 \in DOMAIN queue' /\ queue'[i - 1] = queue[i]
        BY <1>1, <2>2, <3>2, TailOf
      <4> QED BY <3>2, <4>1
    <3>3. ASSUME NEW k \in DOMAIN queue', queue'[k] = d PROVE \E i \in DOMAIN queue : queue[i] = d
      BY <1>1, <3>3, TailOf
    <3> QED BY <3>1, <3>2, <3>3 DEF TypeOK, Queued
  <2> QED BY <2>1, <2>2
<1> QED BY <1>2, <1>3 DEF Queued

LEMMA NextQueued == TypeOK /\ [Next]_vars => Queued'
<1> SUFFICES ASSUME TypeOK, [Next]_vars PROVE Queued'
  OBVIOUS
<1>1. ASSUME NEW c \in Callers, Send(c) PROVE Queued'
  <2>1. queue' = Append(queue, c) /\ pc' = [pc EXCEPT ![c] = "queued"] /\ mint' = mint
        /\ pc[c] = "idle"
    BY <1>1 DEF Send
  <2>2. \A i \in DOMAIN queue : queue[i] # c BY <2>1 DEF TypeOK, Queued
  <2>3. \A i, j \in DOMAIN queue' : i # j => queue'[i] # queue'[j]
    BY <2>1, <2>2, AppendTo DEF TypeOK, Queued
  <2>4. ASSUME NEW d \in Callers
        PROVE  pc'[d] = "queued" <=> \E i \in DOMAIN queue' : queue'[i] = d
    <3>1. CASE d = c
      <4>1. Len(queue) + 1 \in DOMAIN queue' /\ queue'[Len(queue) + 1] = d BY <2>1, <3>1, AppendTo
      <4>2. pc'[d] = "queued" BY <2>1, <3>1 DEF TypeOK, Typed
      <4> QED BY <4>1, <4>2
    <3>2. CASE d # c
      <4>1. pc'[d] = pc[d] BY <2>1, <3>2 DEF TypeOK, Typed
      <4>2. (\E i \in DOMAIN queue' : queue'[i] = d) <=> \E i \in DOMAIN queue : queue[i] = d
        BY <2>1, <3>2, AppendTo
      <4> QED BY <4>1, <4>2 DEF TypeOK, Queued
    <3> QED BY <3>1, <3>2
  <2>5. queue' # << >> BY <2>1 DEF TypeOK, Typed
  <2> QED BY <2>3, <2>4, <2>5 DEF Queued
<1>2. ASSUME NEW c \in Callers, Reuse(c) PROVE Queued'
  BY <1>2, HeadLeaves DEF Reuse, HandOut
<1>3. ASSUME NEW c \in Callers, Mint(c) PROVE Queued'
  BY <1>3 DEF Mint, Holds, TypeOK, Queued
<1>4. CASE Issue
  BY <1>4 DEF Issue, TypeOK, Queued
<1>5. ASSUME NEW c \in Callers, Minted(c) PROVE Queued'
  BY <1>5, HeadLeaves DEF Minted, HandOut, NoMint
<1>6. ASSUME NEW c \in Callers, MintFails(c) PROVE Queued'
  BY <1>6, HeadLeaves DEF MintFails, EndRequest, NoMint
<1>7. ASSUME NEW c \in Callers, Deliver(c) \/ Fail(c) PROVE Queued'
  <2>1. pc[c] = "sent" /\ pc' = [pc EXCEPT ![c] = "idle"] /\ UNCHANGED <<queue, mint>>
    BY <1>7 DEF Deliver, Fail, EndRequest
  <2> QED BY <2>1 DEF TypeOK, Typed, Queued
<1>8. CASE Tick
  <2>1. mint'.state = mint.state
    <3>1. CASE mint.state = "none" BY <1>8, <3>1 DEF Tick
    <3>2. CASE mint.state # "none" BY <1>8, <3>2 DEF Tick, TypeOK, Typed
    <3> QED BY <3>1, <3>2
  <2> QED BY <1>8, <2>1 DEF Tick, TypeOK, Queued
<1>9. CASE UNCHANGED vars BY <1>9 DEF vars, TypeOK, Queued
<1> QED BY <1>1, <1>2, <1>3, <1>4, <1>5, <1>6, <1>7, <1>8, <1>9 DEF Next, Step

\* Every state has its type, the queue holds those who wait, once each, and a mint has a
\* caller at the head of the queue: no end of a request or of a mint leaves the source's
\* lock with nobody to let go of it.
THEOREM TypeCorrect == Spec => []TypeOK
<1>1. TypeOK /\ [Next]_vars => TypeOK' BY NextTyped, NextQueued DEF TypeOK
<1> QED BY InitType, <1>1, PTL DEF Spec

------------------------------------------------------------------------------
(* How long a request waits                                                *)

\* The time of i mints that reach their deadline.
Mints(i) == i * T

\* The one at place i has seen at most N - i mints end, and the one in progress.
Patience ==
  /\ mint.state = "none" => mint.age = 0
  /\ \A i \in DOMAIN queue : age[queue[i]] + Mints(i) <= QueueTime + mint.age
  /\ QueueBounded

LEMMA Product ==
  /\ \A i \in Nat : Mints(i) \in Nat /\ Mints(i + 1) = Mints(i) + T
  /\ \A i, j \in Nat : i <= j => Mints(i) <= Mints(j)
  /\ Mints(1) = T /\ Mints(N) = QueueTime
<1>1. T \in Nat BY Constants
<1>2. ASSUME NEW i \in Nat PROVE Mints(i) \in Nat /\ Mints(i + 1) = Mints(i) + T
  BY <1>1 DEF Mints
<1>3. ASSUME NEW i \in Nat, NEW j \in Nat, i <= j PROVE Mints(i) <= Mints(j)
  <2>1. PICK d \in Nat : j = i + d BY <1>3, j - i \in Nat /\ j = i + (j - i)
  <2>2. j * T = i * T + d * T BY <1>1, <2>1
  <2>3. d * T \in Nat /\ i * T \in Nat BY <1>1
  <2> QED BY <2>2, <2>3 DEF Mints
<1>4. Mints(1) = T BY <1>1 DEF Mints
<1>5. Mints(N) = QueueTime BY Constants DEF Mints
<1> QED BY <1>2, <1>3, <1>4, <1>5

LEMMA AgeTypes ==
  ASSUME TypeOK
  PROVE  /\ \A c \in Callers : age[c] \in Nat
         /\ mint.age \in Nat /\ mint.age <= T
BY Constants DEF TypeOK, Typed

\* When the head leaves, those behind it move up by one mint, which lasted T at most.
LEMMA MoveUp ==
  ASSUME TypeOK, Patience, queue # << >>, queue' = Tail(queue), mint' = NoMint, age' = age
  PROVE  Patience'
<1>1. ASSUME NEW i \in DOMAIN queue' PROVE age'[queue'[i]] + Mints(i) <= QueueTime + mint'.age
  <2>1. i \in Nat /\ i + 1 \in DOMAIN queue /\ queue'[i] = queue[i + 1] /\ queue[i + 1] \in Callers
    BY TailOf DEF TypeOK, Typed
  <2>2. age[queue[i + 1]] + Mints(i + 1) <= QueueTime + mint.age BY <2>1 DEF Patience
  <2>3. Mints(i + 1) = Mints(i) + T /\ Mints(i) \in Nat BY <2>1, Constants, Product
  <2>4. mint'.age = 0 BY DEF NoMint
  <2> QED BY <2>1, <2>2, <2>3, <2>4, AgeTypes, Constants
<1>2. QueueBounded' BY DEF Patience, QueueBounded
<1> QED BY <1>1, <1>2 DEF Patience, NoMint

LEMMA NextPatience == TypeOK /\ Patience /\ [Next]_vars => Patience'
<1> SUFFICES ASSUME TypeOK, Patience, [Next]_vars PROVE Patience'
  OBVIOUS
<1>1. ASSUME NEW c \in Callers, Send(c) PROVE Patience'
  <2>1. /\ pc[c] = "idle" /\ queue' = Append(queue, c) /\ age' = [age EXCEPT ![c] = 0]
        /\ mint' = mint
    BY <1>1 DEF Send
  <2>2. \A i \in DOMAIN queue : queue[i] # c /\ queue[i] \in Callers
    <3>1. \A i \in DOMAIN queue : queue[i] \in Callers BY DEF TypeOK, Typed
    <3>2. pc[c] # "queued" BY <2>1
    <3> QED BY <3>1, <3>2 DEF TypeOK, Queued
  <2>3. Len(queue) + 1 <= N /\ Len(queue) \in Nat
    BY <2>1, QueueLength, Constants DEF TypeOK
  <2>4. Mints(Len(queue) + 1) <= QueueTime BY <2>3, Constants, Product
  <2>5. age'[c] = 0 /\ \A d \in Callers \ {c} : age'[d] = age[d]
    BY <2>1 DEF TypeOK, Typed
  <2>6. ASSUME NEW i \in DOMAIN queue' PROVE age'[queue'[i]] + Mints(i) <= QueueTime + mint'.age
    <3>1. CASE i \in DOMAIN queue
      BY <2>1, <2>2, <2>5, <3>1, AppendTo DEF Patience
    <3>2. CASE i = Len(queue) + 1
      <4>1. Mints(Len(queue) + 1) \in Nat BY <2>3, Constants, Product
      <4> QED BY <2>1, <2>4, <2>5, <3>2, <4>1, AppendTo, AgeTypes, Constants
    <3> QED BY <2>1, <3>1, <3>2, AppendTo
  <2>7. QueueBounded' BY <2>5, Constants DEF Patience, QueueBounded
  <2> QED BY <2>1, <2>6, <2>7 DEF Patience
<1>2. ASSUME NEW c \in Callers, Reuse(c) PROVE Patience'
  <2>1. mint.state = "none" /\ queue # << >> /\ queue' = Tail(queue) /\ age' = age /\ mint' = mint
    BY <1>2 DEF Reuse, Holds, HandOut
  <2>2. mint.age = 0 BY <2>1 DEF Patience
  <2>3. ASSUME NEW i \in DOMAIN queue' PROVE age'[queue'[i]] + Mints(i) <= QueueTime + mint'.age
    <3>1. i \in Nat /\ i + 1 \in DOMAIN queue /\ queue'[i] = queue[i + 1] /\ queue[i + 1] \in Callers
      BY <2>1, TailOf DEF TypeOK, Typed
    <3>2. age[queue[i + 1]] + Mints(i + 1) <= QueueTime + mint.age BY <3>1 DEF Patience
    <3>3. Mints(i + 1) = Mints(i) + T /\ Mints(i) \in Nat BY <3>1, Constants, Product
    <3> QED BY <2>1, <3>1, <3>2, <3>3, AgeTypes, Constants
  <2> QED BY <2>1, <2>2, <2>3 DEF Patience, QueueBounded
<1>3. ASSUME NEW c \in Callers, Mint(c) PROVE Patience'
  <2>1. mint'.age = 0 /\ mint.age = 0 /\ mint'.state = "asked" /\ UNCHANGED <<queue, age>>
    BY <1>3 DEF Mint, NoMint, Patience
  <2> QED BY <2>1 DEF Patience, QueueBounded
<1>4. CASE Issue
  <2>1. mint'.age = mint.age /\ mint'.state = "issued" /\ UNCHANGED <<queue, age>>
    BY <1>4 DEF Issue, TypeOK, Typed
  <2> QED BY <2>1 DEF Patience, QueueBounded
<1>5. ASSUME NEW c \in Callers, Minted(c) \/ MintFails(c) PROVE Patience'
  <2>1. queue # << >> /\ queue' = Tail(queue) /\ mint' = NoMint /\ age' = age
    BY <1>5 DEF Minted, MintFails, Holds, HandOut, EndRequest
  <2> QED BY <2>1, MoveUp
<1>6. ASSUME NEW c \in Callers, Deliver(c) \/ Fail(c) PROVE Patience'
  <2>1. UNCHANGED <<queue, mint, age>> BY <1>6 DEF Deliver, Fail, EndRequest
  <2> QED BY <2>1 DEF Patience, QueueBounded
<1>7. CASE Tick
  <2>1. \A c \in Callers : age'[c] = IF pc[c] = "idle" THEN age[c] ELSE Aged(age[c])
    BY <1>7 DEF Tick
  <2>2. \A c \in Callers : age'[c] \in Nat /\ age'[c] <= age[c] + 1
    BY <2>1, AgeTypes DEF Aged
  <2>3. queue' = queue /\ (queue # << >> => mint.state # "none" /\ mint.age < T)
    BY <1>7 DEF Tick, MintDeadline, T
  <2>4. mint.state = "none" => mint' = mint BY <1>7 DEF Tick
  <2>5. mint.state # "none" => mint'.age = mint.age + 1 /\ mint'.state = mint.state
    <3>1. mint.state # "none" => queue # << >> BY DEF TypeOK, Queued
    <3> QED BY <1>7, <2>3, <3>1 DEF Tick, TypeOK, Typed, T
  <2>6. ASSUME NEW i \in DOMAIN queue' PROVE age'[queue'[i]] + Mints(i) <= QueueTime + mint'.age
    <3>1. i \in Nat \ {0} /\ queue[i] \in Callers /\ queue # << >> /\ i \in DOMAIN queue
      BY <2>3 DEF TypeOK, Typed
    <3>2. age[queue[i]] + Mints(i) <= QueueTime + mint.age BY <3>1 DEF Patience
    <3>3. Mints(i) \in Nat BY <3>1, Constants, Product
    <3>4. mint'.age = mint.age + 1 BY <2>3, <2>5, <3>1
    <3> QED BY <2>2, <2>3, <3>1, <3>2, <3>3, <3>4, AgeTypes, Constants
  <2>7. ASSUME NEW c \in Callers PROVE age'[c] <= QueueTime
    <3>1. CASE pc[c] = "idle" BY <2>1, <3>1, Constants DEF Patience, QueueBounded
    <3>2. CASE pc[c] = "queued"
      <4>1. PICK i \in DOMAIN queue : queue[i] = c BY <3>2 DEF TypeOK, Queued
      <4>2. i \in Nat \ {0} /\ queue # << >> BY <4>1 DEF TypeOK, Typed
      <4>3. age'[c] + Mints(i) <= QueueTime + mint'.age BY <2>3, <2>6, <4>1
      <4>4. T <= Mints(i) /\ Mints(i) \in Nat
        <5>1. i \in Nat /\ 1 <= i /\ 1 \in Nat BY <4>2
        <5> QED BY <5>1, Product
      <4>5. mint'.age = mint.age + 1 /\ mint.age < T BY <2>3, <2>5, <4>2
      <4> QED BY <2>2, <4>3, <4>4, <4>5, AgeTypes, Constants
    <3>3. CASE pc[c] = "sent"
      <4>1. age[c] < T BY <1>7, <3>3 DEF Tick, T
      <4>2. T <= QueueTime BY Constants
      <4> QED BY <2>2, <4>1, <4>2, AgeTypes, Constants
    <3> QED BY <3>1, <3>2, <3>3 DEF TypeOK, Typed
  <2>8. QueueBounded' BY <2>7, Constants DEF QueueBounded
  <2>9. mint'.state = "none" => mint'.age = 0 BY <2>4, <2>5 DEF Patience
  <2> QED BY <2>6, <2>8, <2>9 DEF Patience
<1>8. CASE UNCHANGED vars BY <1>8 DEF vars, Patience, QueueBounded, QueueTime
<1> QED BY <1>1, <1>2, <1>3, <1>4, <1>5, <1>6, <1>7, <1>8 DEF Next, Step

\* No request waits for longer than one mint's deadline for each caller, its own included:
\* failing mints delay the queue behind the lock and never stop it.
THEOREM WaitIsBounded == Spec => []QueueBounded
<1>1. Init => Patience
  BY Constants DEF Init, NoMint, Patience, QueueBounded
<1>2. TypeOK /\ Patience /\ [Next]_vars => Patience'
  BY NextPatience
<1>3. Patience => QueueBounded
  BY DEF Patience
<1> QED BY <1>1, <1>2, <1>3, TypeCorrect, PTL DEF Spec

------------------------------------------------------------------------------
(* When a token is refused                                                 *)

\* What is left of a sent token and the time its request took make up the margin.
Covered(c) == carried[c].life < T \/ Left(carried[c]) + age[c] >= T

Margin ==
  /\ \A c \in Callers : pc[c] # "idle" => outcome[c] = "none"
  /\ \A c \in Callers : pc[c] = "sent" => Covered(c)
  /\ RefusedOnlyLate

LEMMA NextMargin == TypeOK /\ Margin /\ [Next]_vars => Margin'
<1> SUFFICES ASSUME TypeOK, Margin, [Next]_vars PROVE Margin'
  OBVIOUS
<1> DEFINE Late(c) == \/ carried[c].life < HTTPTimeout
                      \/ carried[c].transit + age[c] >= HTTPTimeout
           Kept(c) == /\ pc[c] # "idle" => outcome[c] = "none"
                      /\ pc[c] = "sent" => Covered(c)
                      /\ outcome[c] = "refused" => Late(c)
<1>a. \A c \in Callers : Kept(c) BY DEF Margin, RefusedOnlyLate
<1>b. (\A c \in Callers : Kept(c)') => Margin' BY DEF Margin, RefusedOnlyLate
<1>c. \A c \in Callers : carried[c] \in Token /\ age[c] \in Nat
  BY AgeTypes DEF TypeOK, Typed
<1> DEFINE Same(d) == /\ pc'[d] = pc[d] /\ age'[d] = age[d]
                      /\ outcome'[d] = outcome[d] /\ carried'[d] = carried[d]
<1>d. ASSUME NEW d \in Callers, Same(d) PROVE Kept(d)'
  <2>1. Kept(d) BY <1>a
  <2> QED BY <1>d, <2>1 DEF Covered, Left
<1>1. ASSUME NEW c \in Callers, Send(c) PROVE Margin'
  <2>1. pc'[c] = "queued" /\ outcome'[c] = "none" BY <1>1 DEF Send, TypeOK, Typed
  <2>2. Kept(c)' BY <2>1
  <2>3. \A d \in Callers \ {c} : Same(d) BY <1>1 DEF Send, TypeOK, Typed
  <2> QED BY <1>b, <1>d, <2>2, <2>3
<1>2. ASSUME NEW c \in Callers, NEW token \in Token, HandOut(c, token), pc[c] = "queued",
             token.life < T \/ Left(token) >= T
      PROVE  Margin'
  <2>1. /\ pc'[c] = "sent" /\ outcome'[c] = outcome[c] /\ age'[c] = age[c]
        /\ carried'[c] = token
    BY <1>2 DEF HandOut, TypeOK, Typed
  <2>2. outcome[c] = "none" BY <1>2 DEF Margin
  <2>3. Covered(c)' BY <1>2, <1>c, <2>1, Aging, Constants DEF Covered, Left
  <2>4. Kept(c)' BY <2>1, <2>2, <2>3
  <2>5. \A d \in Callers \ {c} : Same(d) BY <1>2 DEF HandOut, TypeOK, Typed
  <2> QED BY <1>b, <1>d, <2>4, <2>5
<1>h. ASSUME NEW c \in Callers, Holds(c) PROVE pc[c] = "queued"
  <2>1. 1 \in DOMAIN queue /\ queue[1] = c BY <1>h DEF Holds, TypeOK, Typed
  <2> QED BY <2>1 DEF TypeOK, Queued
<1>3. ASSUME NEW c \in Callers, Reuse(c) PROVE Margin'
  <2>1. HandOut(c, cached) /\ Left(cached) >= T /\ Holds(c) BY <1>3 DEF Reuse, Valid, T
  <2>2. cached \in Token BY DEF TypeOK, Typed
  <2> QED BY <1>2, <1>h, <2>1, <2>2
<1>4. ASSUME NEW c \in Callers, Minted(c) PROVE Margin'
  <2> DEFINE token == [mint.token EXCEPT !.transit = mint.token.age]
  <2>1. HandOut(c, token) /\ cached' = token /\ Holds(c) BY <1>4 DEF Minted
  <2>2. token \in Token BY <1>4, <2>1, NextTyped DEF Typed
  <2>3. mint.token \in Token BY DEF TypeOK, Typed
  <2>4. token.life = mint.token.life /\ token.age = mint.token.age
        /\ token.transit = mint.token.age
    BY <2>3 DEF Token
  <2>5. Left(token) = token.life /\ token.life \in Nat BY <2>3, <2>4, TokenParts DEF Left
  <2>6. token.life < T \/ Left(token) >= T BY <2>5, Constants
  <2> HIDE DEF token
  <2> QED BY <1>2, <1>h, <2>1, <2>2, <2>6
<1>5. ASSUME NEW c \in Callers, NEW result \in {"noToken", "failed", "accepted", "refused"},
             EndRequest(c, result), result = "refused" => Late(c)
      PROVE  Margin'
  <2>1. /\ pc'[c] = "idle" /\ outcome'[c] = result /\ age' = age /\ carried' = carried
    BY <1>5 DEF EndRequest, TypeOK, Typed
  <2>2. Kept(c)' BY <1>5, <2>1
  <2>3. \A d \in Callers \ {c} : Same(d) BY <1>5 DEF EndRequest, TypeOK, Typed
  <2> QED BY <1>b, <1>d, <2>2, <2>3
<1>6. ASSUME NEW c \in Callers, MintFails(c) \/ Fail(c) PROVE Margin'
  BY <1>5, <1>6 DEF MintFails, Fail
<1>7. ASSUME NEW c \in Callers, Deliver(c) PROVE Margin'
  <2>1. CASE Accepted(carried[c]) BY <1>5, <1>7, <2>1 DEF Deliver
  <2>2. CASE ~Accepted(carried[c])
    <3>1. Covered(c) BY <1>7 DEF Deliver, Margin
    <3>2. carried[c].age >= carried[c].life BY <1>c, <2>2, TokenParts DEF Accepted
    <3>3. Late(c) BY <1>c, <3>1, <3>2, TokenParts, Constants DEF Covered, Left, T
    <3> QED BY <1>5, <1>7, <2>2, <3>3 DEF Deliver
  <2> QED BY <2>1, <2>2
<1>8. ASSUME NEW c \in Callers, Mint(c) PROVE Margin'
  BY <1>8, <1>b, <1>d DEF Mint
<1>9. CASE Issue BY <1>9, <1>b, <1>d DEF Issue
<1>10. CASE Tick
  <2> SUFFICES ASSUME NEW c \in Callers PROVE Kept(c)'
    BY <1>b
  <2>1. pc'[c] = pc[c] /\ outcome'[c] = outcome[c] BY <1>10 DEF Tick
  <2>2. CASE pc[c] = "idle" BY <1>10, <1>d, <2>1, <2>2 DEF Tick
  <2>3. CASE pc[c] # "idle"
    <3>1. outcome[c] = "none" BY <2>3 DEF Margin
    <3>2. ASSUME pc[c] = "sent" PROVE Covered(c)'
      <4>1. age[c] < T /\ age'[c] = Aged(age[c]) /\ carried'[c] = Older(carried[c])
        BY <1>10, <3>2 DEF Tick, T
      <4>2. T <= QueueTime /\ QueueTime \in Nat BY Constants
      <4>3. age'[c] = age[c] + 1 BY <1>c, <4>1, <4>2, Constants DEF Aged
      <4>4. /\ carried'[c].life = carried[c].life /\ Left(carried[c]) \in Int
            /\ Left(carried'[c]) >= Left(carried[c]) - 1
        BY <1>c, <4>1, Aging
      <4>5. Left(carried'[c]) \in Int
        BY <1>c, <4>1, Tokens, Aging
      <4>6. Covered(c) BY <3>2 DEF Margin
      <4>7. carried[c].life \in Nat /\ T \in Nat /\ age[c] \in Nat BY <1>c, TokenParts, Constants
      <4>8. carried'[c].life < T \/ Left(carried'[c]) + age'[c] >= T
        BY <4>3, <4>4, <4>5, <4>6, <4>7 DEF Covered
      <4> QED BY <4>8 DEF Covered, Left, T
    <3> QED BY <2>1, <3>1, <3>2
  <2> QED BY <2>2, <2>3
<1>11. CASE UNCHANGED vars BY <1>11, <1>b, <1>d DEF vars
<1> QED BY <1>1, <1>3, <1>4, <1>6, <1>7, <1>8, <1>9, <1>10, <1>11 DEF Next, Step

\* The API refuses a token of a request that is in time only if the issuer gave it less
\* than the margin to live, or its answer and the request together took the margin.
THEOREM RefusedLate == Spec => []RefusedOnlyLate
<1>1. Init => Margin
  BY DEF Init, Margin, RefusedOnlyLate
<1>2. TypeOK /\ Margin /\ [Next]_vars => Margin'
  BY NextMargin
<1>3. Margin => RefusedOnlyLate
  BY DEF Margin
<1> QED BY <1>1, <1>2, <1>3, TypeCorrect, PTL DEF Spec
=============================================================================
