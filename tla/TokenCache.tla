----------------------------- MODULE TokenCache -----------------------------
(***************************************************************************)
(* The tokens of one human: the requests of one process's client, each of  *)
(* which asks the human's source for a token (authTransport.RoundTrip,     *)
(* pkg/client/client.go), the source's cache behind its lock, and the mint *)
(* (pkg/identity/mock.go).  Requests run concurrently in the specs that    *)
(* create resources from goroutines.  Time is discrete and relative: a     *)
(* token and a request have ages.  MockIssuer.TokenSource makes one source *)
(* for each human, under a lock held for no call, so the humans' sources   *)
(* do not meet and one of them is modelled.                                *)
(***************************************************************************)
EXTENDS Integers, Sequences, FiniteSets

CONSTANTS
  Callers,        (* goroutines that send requests                                      *)
  HTTPTimeout,    (* DefaultHTTPTimeout: of a request, of a mint, and the refresh margin *)
  Lifetimes       (* the lifetimes the issuer may give a token                          *)

ASSUME TokenCacheAssumption ==
  /\ IsFiniteSet(Callers)
  /\ HTTPTimeout \in Nat \ {0}
  /\ Lifetimes \subseteq Nat \ {0}
  /\ \E longest \in Lifetimes : \A l \in Lifetimes : l <= longest

VARIABLES
  pc,             \* of each caller: "idle", "queued" at the source, or "sent" to the API
  age,            \* how long ago each caller's last request began; stops when it ends
  outcome,        \* of that request: "none" yet, "accepted", "refused", "noToken", "failed"
  carried,        \* the token of that request
  queue,          \* the callers at the source's lock, its holder first
  mint,           \* the holder's call of the issuer
  cached          \* the source's token

vars == <<pc, age, outcome, carried, queue, mint, cached>>

------------------------------------------------------------------------------
(* A token has a lifetime, its age, and the transit from the issuer to the *)
(* source.  The issuer counts the lifetime from when it made the token,    *)
(* the source from when the answer came.                                   *)

Longest == CHOOSE longest \in Lifetimes : \A l \in Lifetimes : l <= longest
OldAge  == Longest + HTTPTimeout          \* where a token's age stops counting

Token == [life : Lifetimes \union {0}, age : 0..OldAge, transit : 0..HTTPTimeout]
NoToken == [life |-> 0, age |-> OldAge, transit |-> 0]

Left(token) == token.life + token.transit - token.age
Accepted(token) == token.age < token.life
Older(token) == [token EXCEPT !.age = IF @ < OldAge THEN @ + 1 ELSE @]

\* oauth2's Valid, with the margin that TokenSource gives ReuseTokenSourceWithExpiry.
Valid_NoMargin(token) == Left(token) > 0

Valid(token) == token # NoToken /\ Left(token) >= HTTPTimeout

NoMint == [state |-> "none", age |-> 0, token |-> NoToken]

\* How long a request may take that queues behind every other caller's failing mint. Its
\* age saturates one beyond it, for the models that break the bound.
QueueTime == Cardinality(Callers) * HTTPTimeout
Aged(n) == IF n <= QueueTime THEN n + 1 ELSE n

------------------------------------------------------------------------------
(* The requests                                                            *)

\* RoundTrip begins: t.src.Token() waits for the source's lock.
Send(c) ==
  /\ pc[c] = "idle"
  /\ pc' = [pc EXCEPT ![c] = "queued"]
  /\ age' = [age EXCEPT ![c] = 0]
  /\ outcome' = [outcome EXCEPT ![c] = "none"]
  /\ carried' = [carried EXCEPT ![c] = NoToken]
  /\ queue' = Append(queue, c)
  /\ UNCHANGED <<mint, cached>>

Holds(c) == queue # << >> /\ Head(queue) = c

\* The source gives the holder a token and lets go of the lock.
HandOut(c, token) ==
  /\ pc' = [pc EXCEPT ![c] = "sent"]
  /\ carried' = [carried EXCEPT ![c] = token]
  /\ queue' = Tail(queue)
  /\ UNCHANGED <<age, outcome>>

EndRequest(c, result) ==
  /\ pc' = [pc EXCEPT ![c] = "idle"]
  /\ outcome' = [outcome EXCEPT ![c] = result]
  /\ UNCHANGED <<age, carried>>

Reuse(c) ==
  /\ Holds(c) /\ mint.state = "none"
  /\ Valid(cached)
  /\ HandOut(c, cached)
  /\ UNCHANGED <<mint, cached>>

Mint(c) ==
  /\ Holds(c) /\ mint.state = "none"
  /\ ~Valid(cached)
  /\ mint' = [NoMint EXCEPT !.state = "asked"]
  /\ UNCHANGED <<pc, age, outcome, carried, queue, cached>>

\* The issuer makes a token; its answer is on the way.
Issue ==
  /\ mint.state = "asked"
  /\ \E l \in Lifetimes :
       mint' = [mint EXCEPT !.state = "issued", !.token = [life |-> l, age |-> 0, transit |-> 0]]
  /\ UNCHANGED <<pc, age, outcome, carried, queue, cached>>

\* The answer comes in time: the token is cached and given out, however short its life.
Minted(c) ==
  /\ Holds(c) /\ mint.state = "issued" /\ mint.age < HTTPTimeout
  /\ LET token == [mint.token EXCEPT !.transit = mint.token.age]
     IN  cached' = token /\ HandOut(c, token)
  /\ mint' = NoMint

\* The mint fails or reaches its deadline: nothing is cached, RoundTrip returns the error.
MintFails_KeepsLock(c) ==
  /\ Holds(c) /\ mint.state # "none"
  /\ EndRequest(c, "noToken")
  /\ mint' = [NoMint EXCEPT !.state = "asked"]
  /\ UNCHANGED <<queue, cached>>

MintFails(c) ==
  /\ Holds(c) /\ mint.state # "none"
  /\ EndRequest(c, "noToken")
  /\ mint' = NoMint
  /\ queue' = Tail(queue)
  /\ UNCHANGED cached

\* The request reaches the API in time, which looks at the token.
Deliver(c) ==
  /\ pc[c] = "sent" /\ age[c] < HTTPTimeout
  /\ EndRequest(c, IF Accepted(carried[c]) THEN "accepted" ELSE "refused")
  /\ UNCHANGED <<queue, mint, cached>>

\* The request fails on the way, or its time is over. The wait for a token counts, but
\* does not end with it: a request that is late by then fails when it is sent.
Fail(c) ==
  /\ pc[c] = "sent"
  /\ EndRequest(c, "failed")
  /\ UNCHANGED <<queue, mint, cached>>

------------------------------------------------------------------------------
(* Time passes when nothing is due: a free lock is taken at once, a mint   *)
(* and a request that was sent do not outlive their deadlines.             *)

MintDeadline_None == TRUE

MintDeadline == mint.age < HTTPTimeout

Tick ==
  /\ queue # << >> => mint.state # "none" /\ MintDeadline
  /\ \A c \in Callers : pc[c] = "sent" => age[c] < HTTPTimeout
  /\ age' = [c \in Callers |-> IF pc[c] = "idle" THEN age[c] ELSE Aged(age[c])]
  /\ carried' = [c \in Callers |-> IF pc[c] = "sent" THEN Older(carried[c]) ELSE carried[c]]
  /\ cached' = Older(cached)
  /\ mint' = IF mint.state = "none" THEN mint
             ELSE [mint EXCEPT !.age = IF @ < HTTPTimeout THEN @ + 1 ELSE @,
                               !.token = Older(@)]
  /\ UNCHANGED <<pc, outcome, queue>>

------------------------------------------------------------------------------
(* The specification                                                       *)

Init ==
  /\ pc = [c \in Callers |-> "idle"]
  /\ age = [c \in Callers |-> 0]
  /\ outcome = [c \in Callers |-> "none"]
  /\ carried = [c \in Callers |-> NoToken]
  /\ queue = << >> /\ mint = NoMint /\ cached = NoToken

Step(c) ==
  \/ Send(c) \/ Reuse(c) \/ Mint(c) \/ Minted(c) \/ MintFails(c) \/ Deliver(c) \/ Fail(c)

Next == Tick \/ Issue \/ \E c \in Callers : Step(c)

Spec == Init /\ [][Next]_vars

------------------------------------------------------------------------------
(* Properties                                                              *)

Outcomes == {"none", "accepted", "refused", "noToken", "failed"}

Typed ==
  /\ pc \in [Callers -> {"idle", "queued", "sent"}]
  /\ age \in [Callers -> 0..(QueueTime + 1)]
  /\ outcome \in [Callers -> Outcomes]
  /\ carried \in [Callers -> Token]
  /\ queue \in Seq(Callers)
  /\ mint \in [state : {"none", "asked", "issued"}, age : 0..HTTPTimeout, token : Token]
  /\ mint.state = "issued" => mint.token.age <= mint.age
  /\ cached \in Token

\* The queue holds those who wait, once each; a mint has a caller to give its token to.
Queued ==
  /\ \A i, j \in DOMAIN queue : i # j => queue[i] # queue[j]
  /\ \A c \in Callers : pc[c] = "queued" <=> \E i \in DOMAIN queue : queue[i] = c
  /\ mint.state # "none" => queue # << >>

TypeOK == Typed /\ Queued

\* "a token cannot expire mid-request" (client.go:27), with the two exceptions the code
\* has: the API refuses a token in time only if it was minted with less than the margin
\* to live, or if its answer was on the way for as long as the request left of the margin.
RefusedOnlyLate ==
  \A c \in Callers : outcome[c] = "refused" =>
    \/ carried[c].life < HTTPTimeout
    \/ carried[c].transit + age[c] >= HTTPTimeout

\* A request is over once every caller ahead of it has had one mint's deadline, and its
\* own: no failing mint makes the others wait without end.
QueueBounded == \A c \in Callers : age[c] <= QueueTime

\* "DefaultHTTPTimeout bounds every API request" (client.go:26).
TimeoutBounds == \A c \in Callers : age[c] <= HTTPTimeout
==============================================================================
