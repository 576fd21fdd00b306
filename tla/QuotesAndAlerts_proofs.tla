------------------------ MODULE QuotesAndAlerts_proofs ------------------------
(***************************************************************************)
(* Proofs about what a user of the application is told: the live quotes,   *)
(* for any connections, tickers and losses of the upstream connection, and *)
(* the price alerts, for any rules, cooldown and faults.  The two keep     *)
(* their state apart, and nothing here relates them.                       *)
(*                                                                         *)
(* The quotes' upstream side rests on two facts: what is cached is wanted, *)
(* so a reconnect asks for all of it; and what a resubscription has still  *)
(* to send is wanted or known as strayed.  The clients' side says, for     *)
(* every place a reader can be in, where the tickers it is subscribed to   *)
(* are remembered, so that they are given back.                            *)
(*                                                                         *)
(* An alert tick judges the cooldown by last_fired_at, while the property  *)
(* is about the mails: the invariant that carries the proof ties the two   *)
(* together, the row being at least as recent as the last recorded mail.   *)
(***************************************************************************)
EXTENDS LiveQuotes, AlertChecker, TLAPS

-------------------------------------------------------------------------------
(* The live quotes: type correctness.                                      *)

Work == [release : SUBSET Tickers, add : SUBSET Tickers, resend : SUBSET Tickers]

LEMMA ReleaseTypes ==
  ASSUME TypeOK, NEW c \in Clients, NEW t \in Tickers, Release(c, t)
  PROVE  /\ subscribers' \in [Tickers -> SUBSET Clients]
         /\ cache' \subseteq Tickers /\ upstream' \subseteq Tickers
         /\ orphaned' \subseteq Tickers /\ strayed' \subseteq Tickers
BY DEF TypeOK, Release, GiveUp

LEMMA ActivateTypes ==
  ASSUME TypeOK, NEW c \in Clients, Activate(c)
  PROVE  TypeOK'
<1> USE QuotesAssumption
<1> DEFINE t == fetching[c]
<1>1. t \in Tickers
  BY DEF Activate, TypeOK
<1>2. fetching' = [fetching EXCEPT ![c] = None]
  BY DEF Activate
<1>3. /\ fetching' \in [Clients -> Tickers \cup {None}]
      /\ \A d \in Clients : fetching'[d] # None => reader[d] = "subscribing"
  BY <1>2 DEF TypeOK
<1>4. UNCHANGED <<reader, todo, link, resending, drops, cutOff, orphaned, asks>>
  BY DEF Activate
<1>5. \A S : S \subseteq Clients => Tell(S, t) \in [Clients -> SUBSET Tickers]
  BY <1>1 DEF Tell, TypeOK
<1>6. /\ subscribers' \in [Tickers -> SUBSET Clients]
      /\ clientTickers' \in [Clients -> SUBSET Tickers]
      /\ told' \in [Clients -> SUBSET Tickers]
      /\ cache' \subseteq Tickers /\ upstream' \subseteq Tickers /\ strayed' \subseteq Tickers
  <2>1. CASE subscribers[t] = {}
    BY <2>1, <1>1 DEF Activate, TypeOK, manager
  <2>2. CASE subscribers[t] # {} /\ t \in Unknown
    <3>1. /\ told' = Tell(subscribers[t], t)
          /\ clientTickers' = [d \in Clients |-> IF d \in subscribers[t]
                                                 THEN clientTickers[d] \ {t}
                                                 ELSE clientTickers[d]]
          /\ subscribers' = [subscribers EXCEPT ![t] = {}]
          /\ strayed' = strayed \cup ({t} \cap (upstream \cup resending))
          /\ UNCHANGED <<cache, upstream>>
      BY <2>2 DEF Activate
    <3>2. QED
      BY <3>1, <1>1, <1>5 DEF TypeOK
  <2>3. CASE subscribers[t] # {} /\ t \notin Unknown
    <3>1. /\ cache' = cache \cup {t}
          /\ told' = Tell(subscribers[t], t)
          /\ upstream' = IF link THEN upstream \cup {t} ELSE upstream
          /\ UNCHANGED <<subscribers, clientTickers, strayed>>
      BY <2>3 DEF Activate
    <3>2. QED
      BY <3>1, <1>1, <1>5 DEF TypeOK
  <2>4. QED
    BY <2>1, <2>2, <2>3
<1>7. QED
  BY <1>3, <1>4, <1>6 DEF TypeOK

\* Every record of the manager, the readers and the connection keeps its type
\* and only a working reader waits for a snapshot: manager.py:25-30,
\* routers/live_quotes.py:28-58.
THEOREM TypeCorrect == Spec => []TypeOK
<1> USE QuotesAssumption
<1>1. Init => TypeOK
  <2> SUFFICES ASSUME Init PROVE TypeOK
    OBVIOUS
  <2>1. NoWork \in Work
    BY DEF NoWork, Work
  <2>2. todo \in [Clients -> Work]
    BY <2>1 DEF Init
  <2>3. /\ fetching \in [Clients -> Tickers \cup {None}]
        /\ \A c \in Clients : fetching[c] # None => reader[c] = "subscribing"
    BY DEF Init
  <2>4. link \in BOOLEAN
    BY Zenon DEF Init
  <2>5. drops \in 0 .. MaxDrops /\ asks \in 0 .. MaxAsks
    BY DEF Init
  <2>6. QED
    BY <2>2, <2>3, <2>4, <2>5 DEF Init, TypeOK, Work
<1>2. TypeOK /\ [Next]_vars => TypeOK'
  <2> SUFFICES ASSUME TypeOK, [Next]_vars PROVE TypeOK'
    OBVIOUS
  <2> USE DEF manager, connection, finnhub, history
  <2>1. ASSUME NEW c \in Clients, Connect(c) PROVE TypeOK'
    BY <2>1 DEF Connect, TypeOK
  <2>2. ASSUME NEW c \in Clients, NEW tickers \in SUBSET Tickers, Subscribe(c, tickers) PROVE TypeOK'
    <3>1. todo' \in [Clients -> Work]
      BY <2>2 DEF Subscribe, TypeOK, Work
    <3>2. QED
      BY <2>2, <3>1 DEF Subscribe, TypeOK, Work
  <2>3. ASSUME NEW c \in Clients, NEW t \in Tickers, ReleaseOne(c, t) \/ LeaveOne(c, t) PROVE TypeOK'
    <3>1. todo' = [todo EXCEPT ![c].release = @ \ {t}] /\ Release(c, t)
      BY <2>3 DEF ReleaseOne, LeaveOne
    <3>2. todo' \in [Clients -> Work]
      <4>1. todo \in [Clients -> Work]
        BY DEF TypeOK, Work
      <4>2. [todo[c] EXCEPT !.release = @ \ {t}] \in Work
        BY <4>1 DEF Work
      <4>3. todo' = [todo EXCEPT ![c] = [todo[c] EXCEPT !.release = @ \ {t}]]
        BY <3>1
      <4>4. QED
        BY <4>1, <4>2, <4>3
    <3>3. UNCHANGED <<clientTickers, told, reader, fetching, link, resending, drops, cutOff, asks>>
      BY <2>3 DEF ReleaseOne, LeaveOne
    <3>4. /\ subscribers' \in [Tickers -> SUBSET Clients]
          /\ cache' \subseteq Tickers /\ upstream' \subseteq Tickers
          /\ orphaned' \subseteq Tickers /\ strayed' \subseteq Tickers
      BY <3>1, ReleaseTypes
    <3>5. /\ fetching' \in [Clients -> Tickers \cup {None}]
          /\ \A d \in Clients : fetching'[d] # None => reader'[d] = "subscribing"
          /\ reader' \in [Clients -> {"gone", "reading", "subscribing", "leaving"}]
      BY <3>3 DEF TypeOK
    <3>6. /\ clientTickers' \in [Clients -> SUBSET Tickers]
          /\ told' \in [Clients -> SUBSET Tickers]
          /\ link' \in BOOLEAN /\ resending' \subseteq Tickers
          /\ drops' \in 0 .. MaxDrops /\ asks' \in 0 .. MaxAsks
          /\ cutOff' \subseteq Clients \X Tickers
      BY <3>3 DEF TypeOK
    <3>7. QED
      BY <3>2, <3>4, <3>5, <3>6 DEF TypeOK, Work
  <2>4. ASSUME NEW c \in Clients, NEW t \in Tickers, AddOne(c, t) PROVE TypeOK'
    <3>0. todo \in [Clients -> Work] /\ todo' = [todo EXCEPT ![c].add = @ \ {t}]
      BY <2>4 DEF AddOne, TypeOK, Work
    <3>1. todo' \in [Clients -> Work]
      <4>1. [todo[c] EXCEPT !.add = @ \ {t}] \in Work
        BY <3>0 DEF Work
      <4>2. todo' = [todo EXCEPT ![c] = [todo[c] EXCEPT !.add = @ \ {t}]]
        BY <3>0
      <4>3. QED
        BY <3>0, <4>1, <4>2
    <3>2. told' \in [Clients -> SUBSET Tickers]
      BY <2>4 DEF AddOne, TypeOK, Tell
    <3>3. subscribers' \in [Tickers -> SUBSET Clients]
      BY <2>4 DEF AddOne, TypeOK
    <3>4. fetching' = [fetching EXCEPT ![c] = t] \/ fetching' = fetching
      BY <2>4 DEF AddOne
    <3>5. /\ fetching' \in [Clients -> Tickers \cup {None}]
          /\ \A d \in Clients : fetching'[d] # None => reader'[d] = "subscribing"
      BY <2>4, <3>4 DEF AddOne, TypeOK
    <3>6. UNCHANGED <<clientTickers, cache, reader, finnhub, history, asks>>
      BY <2>4 DEF AddOne
    <3>7. QED
      BY <3>1, <3>2, <3>3, <3>5, <3>6 DEF TypeOK, Work
  <2>5. ASSUME NEW c \in Clients, Activate(c) PROVE TypeOK'
    BY <2>5, ActivateTypes
  <2>6. ASSUME NEW c \in Clients, ResendAll(c) PROVE TypeOK'
    BY <2>6 DEF ResendAll, TypeOK, NoWork
  <2>7. ASSUME NEW c \in Clients, End(c) PROVE TypeOK'
    <3>1. todo' \in [Clients -> Work]
      BY <2>7 DEF End, TypeOK, Work, NoWork
    <3>2. cutOff' \subseteq Clients \X Tickers /\ orphaned' \subseteq Tickers
      BY <2>7 DEF End, TypeOK
    <3>3. /\ fetching' \in [Clients -> Tickers \cup {None}]
          /\ \A d \in Clients : fetching'[d] # None => reader'[d] = "subscribing"
      BY <2>7 DEF End, TypeOK
    <3>4. /\ reader' \in [Clients -> {"gone", "reading", "subscribing", "leaving"}]
          /\ clientTickers' \in [Clients -> SUBSET Tickers]
          /\ told' \in [Clients -> SUBSET Tickers]
      BY <2>7 DEF End, TypeOK
    <3>5. UNCHANGED <<subscribers, cache, finnhub, strayed, asks>>
      BY <2>7 DEF End
    <3>6. QED
      BY <3>1, <3>2, <3>3, <3>4, <3>5 DEF TypeOK, Work
  <2>8. ASSUME NEW c \in Clients, Left(c) PROVE TypeOK'
    BY <2>8 DEF Left, TypeOK
  <2>9. CASE LinkStep \/ LinkDown
    <3>1. link' \in BOOLEAN
      BY <2>9 DEF LinkStep, LinkUp, ResendUpstream, LinkDown, TypeOK
    <3>2. /\ upstream' \subseteq Tickers /\ resending' \subseteq Tickers
          /\ strayed' \subseteq Tickers
      BY <2>9 DEF LinkStep, LinkUp, ResendUpstream, LinkDown, Wanted, TypeOK
    <3>3. drops' \in 0 .. MaxDrops
      BY <2>9 DEF LinkStep, LinkUp, ResendUpstream, LinkDown, TypeOK
    <3>4. UNCHANGED <<manager, connection, cutOff, orphaned, asks>>
      BY <2>9 DEF LinkStep, LinkUp, ResendUpstream, LinkDown
    <3>5. QED
      BY <3>1, <3>2, <3>3, <3>4 DEF TypeOK
  <2>10. ASSUME NEW t \in Tickers, OnUpstreamTrade(t) PROVE TypeOK'
    BY <2>10 DEF OnUpstreamTrade, Tell, TypeOK
  <2>11. CASE UNCHANGED vars
    BY <2>11 DEF vars, TypeOK
  <2>12. QED
    BY <2>1, <2>2, <2>3, <2>4, <2>5, <2>6, <2>7, <2>8, <2>9, <2>10, <2>11
    DEF Next, ClientStep, ReaderStep
<1>3. QED
  BY <1>1, <1>2, PTL DEF Spec

-------------------------------------------------------------------------------
(* The upstream connection.                                                *)

\* What is cached is wanted, and known to the provider.
CacheWanted == cache \subseteq Wanted \ Unknown

\* Nothing is subscribed, or about to be, without a connection.
DownIsEmpty == ~link => upstream = {} /\ resending = {}

\* What is still to be asked for is wanted, or known as strayed.
ResendingWanted == resending \subseteq Wanted \cup strayed

Upstream == CacheWanted /\ DownIsEmpty /\ ResendingWanted /\ NothingMissed /\ UpstreamWanted

LEMMA ReleaseKeepsUpstream ==
  ASSUME TypeOK, Upstream, NEW c \in Clients, NEW t \in Tickers, Release(c, t),
         UNCHANGED <<link, resending>>
  PROVE  Upstream'
<1> USE DEF Upstream, CacheWanted, DownIsEmpty, ResendingWanted, NothingMissed, UpstreamWanted
<1>1. CASE subscribers[t] = {c}
  <2>1. Wanted' = Wanted \ {t}
    BY <1>1 DEF Release, Wanted, TypeOK
  <2>2. /\ cache' = cache \ {t} /\ upstream' = upstream \ {t}
        /\ strayed' = (strayed \ {t}) \cup ({t} \cap resending)
    BY <1>1 DEF Release, GiveUp
  <2>3. QED
    BY <2>1, <2>2
<1>2. CASE subscribers[t] # {c}
  <2>1. Wanted' = Wanted
    BY <1>2 DEF Release, Wanted, TypeOK
  <2>2. UNCHANGED <<cache, upstream, strayed>>
    BY <1>2 DEF Release
  <2>3. QED
    BY <2>1, <2>2
<1>3. QED
  BY <1>1, <1>2

LEMMA ActivateKeepsUpstream ==
  ASSUME TypeOK, Upstream, NEW c \in Clients, Activate(c)
  PROVE  Upstream'
<1> USE DEF Upstream, CacheWanted, DownIsEmpty, ResendingWanted, NothingMissed, UpstreamWanted
<1> DEFINE t == fetching[c]
<1>1. t \in Tickers
  BY QuotesAssumption DEF Activate, TypeOK
<1>2. UNCHANGED <<link, resending>>
  BY DEF Activate
<1>3. CASE subscribers[t] = {}
  <2>1. UNCHANGED <<subscribers, cache, upstream, strayed>>
    BY <1>3 DEF Activate, manager
  <2>2. QED
    BY <1>2, <2>1 DEF Wanted
<1>4. CASE subscribers[t] # {} /\ t \in Unknown
  <2>1. /\ subscribers' = [subscribers EXCEPT ![t] = {}]
        /\ strayed' = strayed \cup ({t} \cap (upstream \cup resending))
        /\ UNCHANGED <<cache, upstream>>
    BY <1>4 DEF Activate
  <2>2. Wanted' = Wanted \ {t}
    BY <2>1, <1>1 DEF Wanted, TypeOK
  <2>3. QED
    BY <1>2, <1>4, <2>1, <2>2
<1>5. CASE subscribers[t] # {} /\ t \notin Unknown
  <2>1. /\ cache' = cache \cup {t}
        /\ upstream' = IF link THEN upstream \cup {t} ELSE upstream
        /\ UNCHANGED <<subscribers, strayed>>
    BY <1>5 DEF Activate
  <2>2. Wanted' = Wanted /\ t \in Wanted
    BY <1>1, <1>5, <2>1 DEF Wanted
  <2>3. QED
    BY <1>2, <1>5, <2>1, <2>2
<1>6. QED
  BY <1>3, <1>4, <1>5

LEMMA UpstreamHolds == Spec => []Upstream
<1>1. Init => Upstream
  BY DEF Init, Upstream, CacheWanted, DownIsEmpty, ResendingWanted, NothingMissed, UpstreamWanted
<1>2. TypeOK /\ Upstream /\ [Next]_vars => Upstream'
  <2> SUFFICES ASSUME TypeOK, Upstream, [Next]_vars PROVE Upstream'
    OBVIOUS
  <2> USE DEF manager, connection, finnhub, history
  <2> DEFINE Kept == UNCHANGED <<cache, link, upstream, resending, strayed>> /\ Wanted \subseteq Wanted'
  <2>1. Kept => Upstream'
    BY DEF Upstream, CacheWanted, DownIsEmpty, ResendingWanted, NothingMissed, UpstreamWanted
  <2>2. ASSUME NEW c \in Clients, Connect(c) \/ ResendAll(c) \/ End(c) \/ Left(c) PROVE Upstream'
    BY <2>1, <2>2 DEF Connect, ResendAll, End, Left, Wanted
  <2>3. ASSUME NEW c \in Clients, NEW tickers \in SUBSET Tickers, Subscribe(c, tickers) PROVE Upstream'
    BY <2>1, <2>3 DEF Subscribe, Wanted
  <2>4. ASSUME NEW c \in Clients, NEW t \in Tickers, ReleaseOne(c, t) \/ LeaveOne(c, t) PROVE Upstream'
    BY <2>4, ReleaseKeepsUpstream DEF ReleaseOne, LeaveOne
  <2>5. ASSUME NEW c \in Clients, NEW t \in Tickers, AddOne(c, t) PROVE Upstream'
    <3>1. subscribers' = [subscribers EXCEPT ![t] = @ \cup {c}] /\ UNCHANGED <<cache, finnhub, history>>
      BY <2>5 DEF AddOne
    <3>2. Wanted \subseteq Wanted'
      BY <3>1 DEF Wanted, TypeOK
    <3>3. QED
      BY <2>1, <3>1, <3>2
  <2>6. ASSUME NEW c \in Clients, Activate(c) PROVE Upstream'
    BY <2>6, ActivateKeepsUpstream
  <2>7. CASE LinkUp
    BY <2>7 DEF LinkUp, Wanted, Upstream, CacheWanted, DownIsEmpty, ResendingWanted, NothingMissed, UpstreamWanted
  <2>8. ASSUME NEW t \in Tickers, ResendUpstream(t) PROVE Upstream'
    BY <2>8 DEF ResendUpstream, Wanted, Upstream, CacheWanted, DownIsEmpty, ResendingWanted, NothingMissed,
                UpstreamWanted
  <2>9. CASE LinkDown
    BY <2>9 DEF LinkDown, Wanted, Upstream, CacheWanted, DownIsEmpty, ResendingWanted, NothingMissed,
                UpstreamWanted
  <2>10. ASSUME NEW t \in Tickers, OnUpstreamTrade(t) PROVE Upstream'
    BY <2>1, <2>10 DEF OnUpstreamTrade, Wanted
  <2>11. CASE UNCHANGED vars
    BY <2>1, <2>11 DEF vars, Wanted
  <2>12. QED
    BY <2>2, <2>3, <2>4, <2>5, <2>6, <2>7, <2>8, <2>9, <2>10, <2>11
    DEF Next, ClientStep, ReaderStep, LinkStep
<1>3. QED
  BY <1>1, <1>2, TypeCorrect, PTL DEF Spec

\* While connected, what is shown as live is subscribed or about to be, over
\* any losses, reconnects and activations: manager.py:99-115 and
\* finnhub_ws_client.py:30-66.
THEOREM NothingIsMissed == Spec => []NothingMissed
BY UpstreamHolds, PTL DEF Upstream

\* No upstream subscription without a subscriber, those of tickers apart that
\* were released or found unknown once a reconnect had listed them:
\* manager.py:87-97.
THEOREM NothingIsLeftOver == Spec => []UpstreamWanted
BY UpstreamHolds, PTL DEF Upstream

-------------------------------------------------------------------------------
(* The subscribers.                                                        *)

\* Where a reader remembers a ticker it is subscribed to.
Remembered(c, t) ==
  /\ reader[c] = "gone" => <<c, t>> \in cutOff
  /\ reader[c] = "reading" => t \in clientTickers[c]
  /\ reader[c] = "subscribing" => t \in (clientTickers[c] \ todo[c].add) \cup todo[c].release
  /\ reader[c] = "leaving" => t \in todo[c].release \/ <<c, t>> \in cutOff

\* What a subscribe message has still to add is asked for, and not also to be
\* released.
AddsAreWanted ==
  \A c \in Clients : reader[c] = "subscribing" =>
     todo[c].add \subseteq clientTickers[c] \ todo[c].release

AllRemembered == \A t \in Tickers : \A c \in subscribers[t] : Remembered(c, t)

Memory == AddsAreWanted /\ AllRemembered

\* Nothing is forgotten of a connection that stays as it is.
LEMMA OthersRemember ==
  ASSUME Memory, NEW c \in Clients, NEW t \in Tickers, NEW d \in Clients, d # c,
         reader'[d] = reader[d], todo'[d] = todo[d], clientTickers'[d] = clientTickers[d],
         cutOff \subseteq cutOff', d \in subscribers[t]
  PROVE  Remembered(d, t)'
BY DEF Memory, AllRemembered, Remembered

LEMMA ReleaseKeepsMemory ==
  ASSUME TypeOK, Memory, NEW c \in Clients, NEW t \in Tickers, Release(c, t),
         todo' = [todo EXCEPT ![c].release = @ \ {t}],
         UNCHANGED <<reader, clientTickers, cutOff>>
  PROVE  Memory'
<1>1. /\ subscribers' = [subscribers EXCEPT ![t] = @ \ {c}]
      /\ \A d \in Clients : todo'[d].add = todo[d].add
      /\ \A d \in Clients : todo'[d].release = IF d = c THEN todo[d].release \ {t} ELSE todo[d].release
  BY DEF Release, TypeOK
<1>2. AddsAreWanted'
  BY <1>1 DEF Memory, AddsAreWanted
<1>3. ASSUME NEW u \in Tickers, NEW d \in subscribers'[u] PROVE Remembered(d, u)'
  <2>1. d \in subscribers[u] /\ d \in Clients /\ (d # c \/ u # t)
    BY <1>1, <1>3 DEF TypeOK
  <2>2. Remembered(d, u)
    BY <2>1 DEF Memory, AllRemembered
  <2>3. u \in todo[d].release => u \in todo'[d].release
    BY <1>1, <2>1
  <2>4. QED
    BY <1>1, <2>1, <2>2, <2>3 DEF Remembered
<1>4. QED
  BY <1>2, <1>3 DEF Memory, AllRemembered

LEMMA ActivateKeepsMemory ==
  ASSUME TypeOK, Memory, NEW c \in Clients, Activate(c)
  PROVE  Memory'
<1> DEFINE t == fetching[c]
<1>1. t \in Tickers /\ UNCHANGED <<reader, todo, cutOff>>
  BY QuotesAssumption DEF Activate, TypeOK
<1>2. CASE UNCHANGED <<subscribers, clientTickers>>
  BY <1>1, <1>2 DEF Memory, AddsAreWanted, AllRemembered, Remembered
<1>3. CASE subscribers[t] # {} /\ t \in Unknown
  <2>1. /\ subscribers' = [subscribers EXCEPT ![t] = {}]
        /\ clientTickers' = [d \in Clients |-> IF d \in subscribers[t]
                                               THEN clientTickers[d] \ {t}
                                               ELSE clientTickers[d]]
    BY <1>3 DEF Activate
  <2>2. AddsAreWanted'
    <3>1. ASSUME NEW d \in Clients, reader[d] = "subscribing"
          PROVE  todo[d].add \subseteq clientTickers'[d] \ todo[d].release
      <4>1. todo[d].add \subseteq clientTickers[d] \ todo[d].release
        BY <3>1 DEF Memory, AddsAreWanted
      <4>2. d \in subscribers[t] => t \notin todo[d].add
        BY <1>1, <3>1, <4>1 DEF Memory, AllRemembered, Remembered
      <4>3. QED
        BY <2>1, <4>1, <4>2
    <3>2. QED
      BY <1>1, <3>1 DEF AddsAreWanted
  <2>3. ASSUME NEW u \in Tickers, NEW d \in subscribers'[u] PROVE Remembered(d, u)'
    <3>1. u # t /\ d \in subscribers[u] /\ d \in Clients
      BY <2>1, <2>3 DEF TypeOK
    <3>2. u \in clientTickers[d] => u \in clientTickers'[d]
      BY <2>1, <3>1
    <3>3. QED
      BY <1>1, <3>1, <3>2 DEF Memory, AllRemembered, Remembered
  <2>4. QED
    BY <2>2, <2>3 DEF Memory, AllRemembered
<1>4. QED
  BY <1>2, <1>3 DEF Activate, manager

LEMMA MemoryHolds == Spec => []Memory
<1>1. Init => Memory
  BY DEF Init, Memory, AddsAreWanted, AllRemembered
<1>2. TypeOK /\ Memory /\ [Next]_vars => Memory'
  <2> SUFFICES ASSUME TypeOK, Memory, [Next]_vars PROVE Memory'
    OBVIOUS
  <2> USE DEF manager, connection, finnhub, history
  <2>1. UNCHANGED <<subscribers, clientTickers, reader, todo, cutOff>> => Memory'
    BY DEF Memory, AddsAreWanted, AllRemembered, Remembered
  <2>2. ASSUME NEW c \in Clients, Connect(c) \/ ResendAll(c) \/ Left(c) PROVE Memory'
    <3>1. UNCHANGED <<subscribers, cutOff>> /\ reader'[c] # "subscribing"
      BY <2>2 DEF Connect, ResendAll, Left, TypeOK
    <3>2. \A d \in Clients \ {c} : /\ reader'[d] = reader[d] /\ todo'[d] = todo[d]
                                   /\ clientTickers'[d] = clientTickers[d]
      BY <2>2 DEF Connect, ResendAll, Left, TypeOK
    <3>3. AddsAreWanted'
      BY <3>1, <3>2 DEF Memory, AddsAreWanted
    <3>4. ASSUME NEW t \in Tickers, c \in subscribers[t] PROVE Remembered(c, t)'
      <4>1. Remembered(c, t)
        BY <3>4 DEF Memory, AllRemembered
      <4>2. CASE Connect(c)
        BY <3>4, <4>2 DEF Connect
      <4>3. CASE ResendAll(c)
        BY <4>1, <4>3 DEF ResendAll, Remembered, TypeOK
      <4>4. CASE Left(c)
        BY <4>1, <4>4 DEF Left, Remembered, TypeOK
      <4>5. QED
        BY <2>2, <4>2, <4>3, <4>4
    <3>5. ASSUME NEW t \in Tickers, NEW d \in subscribers'[t] PROVE Remembered(d, t)'
      <4>1. d \in subscribers[t] /\ d \in Clients
        BY <3>1, <3>5 DEF TypeOK
      <4>2. QED
        BY <3>1, <3>2, <3>4, <4>1, OthersRemember
    <3>6. QED
      BY <3>3, <3>5 DEF Memory, AllRemembered
  <2>3. ASSUME NEW c \in Clients, NEW tickers \in SUBSET Tickers, Subscribe(c, tickers) PROVE Memory'
    <3>1. /\ UNCHANGED <<subscribers, cutOff>> /\ reader[c] = "reading"
          /\ reader' = [reader EXCEPT ![c] = "subscribing"]
          /\ clientTickers' = [clientTickers EXCEPT ![c] = tickers]
          /\ todo' = [todo EXCEPT ![c] = [release |-> clientTickers[c] \ tickers,
                                          add |-> tickers \ clientTickers[c],
                                          resend |-> tickers \cap clientTickers[c]]]
      BY <2>3 DEF Subscribe
    <3>2. /\ reader'[c] = "subscribing" /\ clientTickers'[c] = tickers
          /\ todo'[c].release = clientTickers[c] \ tickers
          /\ todo'[c].add = tickers \ clientTickers[c]
      BY <3>1 DEF TypeOK
    <3>3. \A d \in Clients \ {c} : /\ reader'[d] = reader[d] /\ todo'[d] = todo[d]
                                   /\ clientTickers'[d] = clientTickers[d]
      BY <3>1 DEF TypeOK
    <3>4. AddsAreWanted'
      BY <3>2, <3>3 DEF Memory, AddsAreWanted
    <3>5. ASSUME NEW t \in Tickers, c \in subscribers[t] PROVE Remembered(c, t)'
      <4>1. t \in clientTickers[c]
        BY <3>1, <3>5 DEF Memory, AllRemembered, Remembered
      <4>2. QED
        BY <3>2, <4>1 DEF Remembered
    <3>6. ASSUME NEW t \in Tickers, NEW d \in subscribers'[t] PROVE Remembered(d, t)'
      <4>1. d \in subscribers[t] /\ d \in Clients
        BY <3>1, <3>6 DEF TypeOK
      <4>2. QED
        BY <3>1, <3>3, <3>5, <4>1, OthersRemember
    <3>7. QED
      BY <3>4, <3>6 DEF Memory, AllRemembered
  <2>4. ASSUME NEW c \in Clients, NEW t \in Tickers, ReleaseOne(c, t) \/ LeaveOne(c, t) PROVE Memory'
    BY <2>4, ReleaseKeepsMemory DEF ReleaseOne, LeaveOne
  <2>5. ASSUME NEW c \in Clients, NEW t \in Tickers, AddOne(c, t) PROVE Memory'
    <3>1. /\ UNCHANGED <<clientTickers, reader, cutOff>> /\ reader[c] = "subscribing"
          /\ t \in todo[c].add
          /\ subscribers' = [subscribers EXCEPT ![t] = @ \cup {c}]
          /\ todo' = [todo EXCEPT ![c].add = @ \ {t}]
      BY <2>5 DEF AddOne
    <3>2. \A d \in Clients : /\ todo'[d].release = todo[d].release
                             /\ todo'[d].add = IF d = c THEN todo[d].add \ {t} ELSE todo[d].add
      BY <3>1 DEF TypeOK
    <3>3. AddsAreWanted'
      BY <3>1, <3>2 DEF Memory, AddsAreWanted
    <3>4. ASSUME NEW u \in Tickers, NEW d \in subscribers'[u] PROVE Remembered(d, u)'
      <4>1. d \in Clients /\ (d \in subscribers[u] \/ (d = c /\ u = t))
        BY <3>1, <3>4 DEF TypeOK
      <4>2. CASE d = c /\ u = t
        BY <3>1, <3>2, <4>2 DEF Memory, AddsAreWanted, Remembered
      <4>3. CASE d \in subscribers[u]
        <5>1. Remembered(d, u)
          BY <4>3 DEF Memory, AllRemembered
        <5>2. QED
          BY <3>1, <3>2, <4>1, <5>1 DEF Remembered
      <4>4. QED
        BY <4>1, <4>2, <4>3
    <3>5. QED
      BY <3>3, <3>4 DEF Memory, AllRemembered
  <2>6. ASSUME NEW c \in Clients, Activate(c) PROVE Memory'
    BY <2>6, ActivateKeepsMemory
  <2>7. ASSUME NEW c \in Clients, End(c) PROVE Memory'
    <3>1. /\ UNCHANGED subscribers
          /\ reader' = [reader EXCEPT ![c] = "leaving"]
          /\ clientTickers' = [clientTickers EXCEPT ![c] = {}]
          /\ todo' = [todo EXCEPT ![c] = [NoWork EXCEPT !.release = clientTickers[c]]]
          /\ cutOff' = cutOff \cup {<<c, t>> : t \in {t \in todo[c].release : c \in subscribers[t]}}
      BY <2>7 DEF End
    <3>2. reader'[c] = "leaving" /\ todo'[c].release = clientTickers[c]
      BY <3>1 DEF TypeOK, NoWork
    <3>3. \A d \in Clients \ {c} : /\ reader'[d] = reader[d] /\ todo'[d] = todo[d]
                                   /\ clientTickers'[d] = clientTickers[d]
      BY <3>1 DEF TypeOK
    <3>4. AddsAreWanted'
      BY <3>2, <3>3 DEF Memory, AddsAreWanted
    <3>5. ASSUME NEW t \in Tickers, c \in subscribers[t] PROVE Remembered(c, t)'
      <4>1. t \in clientTickers[c] \/ t \in todo[c].release
        BY <2>7, <3>5 DEF Memory, AllRemembered, Remembered, End
      <4>2. t \in todo[c].release => <<c, t>> \in cutOff'
        BY <3>1, <3>5
      <4>3. QED
        BY <3>2, <4>1, <4>2 DEF Remembered
    <3>6. ASSUME NEW t \in Tickers, NEW d \in subscribers'[t] PROVE Remembered(d, t)'
      <4>1. d \in subscribers[t] /\ d \in Clients /\ cutOff \subseteq cutOff'
        BY <3>1, <3>6 DEF TypeOK
      <4>2. QED
        BY <3>3, <3>5, <4>1, OthersRemember
    <3>7. QED
      BY <3>4, <3>6 DEF Memory, AllRemembered
  <2>8. CASE LinkStep \/ LinkDown
    BY <2>1, <2>8 DEF LinkStep, LinkUp, ResendUpstream, LinkDown
  <2>9. ASSUME NEW t \in Tickers, OnUpstreamTrade(t) PROVE Memory'
    BY <2>1, <2>9 DEF OnUpstreamTrade
  <2>10. CASE UNCHANGED vars
    BY <2>1, <2>10 DEF vars
  <2>11. QED
    BY <2>2, <2>3, <2>4, <2>5, <2>6, <2>7, <2>8, <2>9, <2>10
    DEF Next, ClientStep, ReaderStep
<1>3. QED
  BY <1>1, <1>2, TypeCorrect, PTL DEF Spec

\* Every subscriber wants its ticker or is about to give it back, but for
\* releases that a cancellation cut off: manager.py:44-70 and
\* routers/live_quotes.py:45-58.
THEOREM NoSubscriberForgotten == Spec => []SubscribersAreClients
<1>1. TypeOK /\ Memory => SubscribersAreClients
  BY DEF TypeOK, Memory, AllRemembered, Remembered, SubscribersAreClients
<1>2. QED
  BY <1>1, TypeCorrect, MemoryHolds, PTL

-------------------------------------------------------------------------------
(* The alerts: type correctness.                                           *)

\* The rules a tick holds are of the kind it works on, and all ages within
\* their limits: checker.py:83-133.
THEOREM AlertTypes == AlertSpec => []AlertTypeOK
<1>1. AlertInit => AlertTypeOK
  BY AlertAssumption DEF AlertInit, AlertTypeOK, OfPhase, AllRules
<1>2. AlertTypeOK /\ [AlertNext]_alertVars => AlertTypeOK'
  <2> SUFFICES ASSUME AlertTypeOK, [AlertNext]_alertVars PROVE AlertTypeOK'
    OBVIOUS
  <2> USE AlertAssumption
  <2> DEFINE Ages == /\ firedAge \in [AllRules -> 0 .. Cooldown]
                     /\ checkedAge \in [Risk -> 0 .. StaleAfter]
                     /\ mailedAge \in [AllRules -> 0 .. Cooldown]
             Tick == /\ phase \in {"idle", "price", "risk", "macro"}
                     /\ observed \subseteq pending /\ pending \subseteq OfPhase[phase]
             Sets == /\ rules \subseteq AllRules /\ crossed \subseteq AllRules
                     /\ unrecorded \subseteq AllRules /\ early \subseteq AllRules
                     /\ faults \in 0 .. MaxFaults
  <2>0. AlertTypeOK <=> Ages /\ Tick /\ Sets
    BY DEF AlertTypeOK, OfPhase
  <2>1. AlertTypeOK' <=> Ages' /\ Tick' /\ Sets'
    BY DEF AlertTypeOK, OfPhase
  <2>2. \A r \in AllRules : Mail(r) => mailedAge' \in [AllRules -> 0 .. Cooldown] /\ early' \subseteq AllRules
    BY <2>0 DEF Mail
  <2>3. \A r \in AllRules : Fire(r) => /\ mailedAge' \in [AllRules -> 0 .. Cooldown]
                                      /\ firedAge' \in [AllRules -> 0 .. Cooldown]
                                      /\ unrecorded' \subseteq AllRules /\ early' \subseteq AllRules
    BY <2>0, <2>2 DEF Fire
  <2>4. \A r \in AllRules : NextRule(r) => Tick'
    BY <2>0 DEF NextRule
  <2>5. Abort => Tick'
    BY DEF Abort, Enter, OfPhase
  <2>6. CASE LoadPrices
    BY <2>0, <2>1, <2>6 DEF LoadPrices, Enter, OfPhase, table, mails
  <2>7. CASE LoadRisk
    BY <2>0, <2>1, <2>7 DEF LoadRisk, Enter, StaleRules, OfPhase, table, mails
  <2>8. CASE LoadMacro
    BY <2>0, <2>1, <2>8 DEF LoadMacro, Enter, OfPhase, table, mails
  <2>9. CASE TickEnds
    BY <2>0, <2>1, <2>5, <2>9 DEF TickEnds, table, mails
  <2>10. ASSUME NEW r \in AllRules, Judge(r) PROVE AlertTypeOK'
    BY <2>0, <2>1, <2>3, <2>4, <2>10 DEF Judge, mails
  <2>11. ASSUME NEW r \in AllRules, Evaluate(r) PROVE AlertTypeOK'
    <3>0. checkedAge' = [checkedAge EXCEPT ![r] = 0] \/ checkedAge' = checkedAge
      BY <2>11 DEF Evaluate
    <3>1. checkedAge' \in [Risk -> 0 .. StaleAfter]
      BY <2>0, <3>0
    <3>2. QED
      BY <2>0, <2>1, <2>3, <2>4, <2>11, <3>1 DEF Evaluate, mails
  <2>12. CASE Die
    BY <2>0, <2>1, <2>5, <2>12 DEF Die, table, mails
  <2>13. ASSUME NEW r \in AllRules, NoValue(r) PROVE AlertTypeOK'
    BY <2>0, <2>1, <2>13 DEF NoValue, table, mails
  <2>14. ASSUME NEW r \in AllRules, MailUnrecorded(r) PROVE AlertTypeOK'
    BY <2>0, <2>1, <2>2, <2>5, <2>14 DEF MailUnrecorded, table
  <2>15. ASSUME NEW r \in Risk, NotComputable(r) PROVE AlertTypeOK'
    <3>1. r \in AllRules
      BY DEF AllRules
    <3>2. QED
      BY <2>0, <2>1, <2>4, <2>15, <3>1 DEF NotComputable, mails
  <2>16. CASE TimePasses
    BY <2>0, <2>1, <2>16 DEF TimePasses, Older, tick
  <2>17. ASSUME NEW r \in AllRules, Create(r) PROVE AlertTypeOK'
    BY <2>0, <2>1, <2>17 DEF Create, tick
  <2>18. ASSUME NEW r \in AllRules, Delete(r) PROVE AlertTypeOK'
    BY <2>0, <2>1, <2>18 DEF Delete, tick, mails
  <2>19. ASSUME NEW r \in AllRules, Cross(r) PROVE AlertTypeOK'
    BY <2>0, <2>1, <2>19 DEF Cross, table, tick, mails
  <2>20. CASE UNCHANGED alertVars
    BY <2>0, <2>1, <2>20 DEF alertVars, table, tick, mails
  <2>21. QED
    BY <2>6, <2>7, <2>8, <2>9, <2>10, <2>11, <2>12, <2>13, <2>14, <2>15, <2>16, <2>17, <2>18,
       <2>19, <2>20 DEF AlertNext, TickStep, Fault
<1>3. QED
  BY <1>1, <1>2, PTL DEF AlertSpec

-------------------------------------------------------------------------------
(* The alerts: the cooldown.                                               *)

\* What last_fired_at says is at least as recent as the last recorded mail.
RowRemembers ==
  \A r \in AllRules : mailedAge[r] < Cooldown /\ r \notin unrecorded => firedAge[r] <= mailedAge[r]

AlertInv == AlertTypeOK /\ RowRemembers /\ CooldownHolds

LEMMA MailIsTimely ==
  ASSUME AlertInv, NEW r \in AllRules, Due(r), Mail(r)
  PROVE  /\ CooldownHolds'
         /\ mailedAge' = [mailedAge EXCEPT ![r] = 0]
<1>1. mailedAge[r] = Cooldown \/ r \in unrecorded
  BY AlertAssumption DEF AlertInv, RowRemembers, AlertTypeOK, Due, InCooldown
<1>2. QED
  BY <1>1, AlertAssumption DEF AlertInv, CooldownHolds, Mail

LEMMA FireKeeps ==
  ASSUME AlertInv, NEW r \in AllRules, Fire(r) \/ (~Due(r) /\ UNCHANGED <<firedAge, mails>>)
  PROVE  RowRemembers' /\ CooldownHolds'
<1>1. CASE Fire(r)
  <2>1. CooldownHolds' /\ mailedAge' = [mailedAge EXCEPT ![r] = 0]
    BY <1>1, MailIsTimely DEF Fire
  <2>2. RowRemembers'
    BY <1>1, <2>1 DEF Fire, AlertInv, AlertTypeOK, RowRemembers
  <2>3. QED
    BY <2>1, <2>2
<1>2. CASE UNCHANGED <<firedAge, mails>>
  BY <1>2 DEF mails, AlertInv, RowRemembers, CooldownHolds
<1>3. QED
  BY <1>1, <1>2

\* Two recorded mails of one rule are never within a cooldown of each other:
\* _in_cooldown and the three places that fire, checker.py:104-107,
\* 128-131 and 358-379.
THEOREM MailsKeepTheirDistance == AlertSpec => []CooldownHolds
<1>1. AlertInit => RowRemembers /\ CooldownHolds
  BY AlertAssumption DEF AlertInit, RowRemembers, CooldownHolds
<1>2. AlertTypeOK /\ RowRemembers /\ CooldownHolds /\ [AlertNext]_alertVars => RowRemembers' /\ CooldownHolds'
  <2> SUFFICES ASSUME AlertInv, [AlertNext]_alertVars PROVE RowRemembers' /\ CooldownHolds'
    BY DEF AlertInv
  <2> DEFINE Kept == UNCHANGED <<firedAge, mailedAge, unrecorded, early>>
  <2>1. CASE Kept
    BY <2>1 DEF AlertInv, RowRemembers, CooldownHolds
  <2>2. ASSUME NEW r \in AllRules, Judge(r) \/ Evaluate(r) PROVE RowRemembers' /\ CooldownHolds'
    BY <2>2, FireKeeps DEF Judge, Evaluate
  <2>3. ASSUME NEW r \in AllRules, MailUnrecorded(r) PROVE RowRemembers' /\ CooldownHolds'
    <3>1. CooldownHolds' /\ mailedAge' = [mailedAge EXCEPT ![r] = 0]
      BY <2>3, MailIsTimely DEF MailUnrecorded
    <3>2. unrecorded' = unrecorded \cup {r} /\ firedAge' = firedAge
      BY <2>3 DEF MailUnrecorded, table
    <3>3. RowRemembers'
      BY <3>1, <3>2 DEF AlertInv, AlertTypeOK, RowRemembers
    <3>4. QED
      BY <3>1, <3>3
  <2>4. CASE TimePasses
    BY <2>4, AlertAssumption DEF TimePasses, Older, AlertInv, AlertTypeOK, RowRemembers, CooldownHolds
  <2>5. ASSUME NEW r \in AllRules, Create(r) PROVE RowRemembers' /\ CooldownHolds'
    BY <2>5, AlertAssumption DEF Create, AlertInv, AlertTypeOK, RowRemembers, CooldownHolds
  <2>6. LoadPrices \/ LoadRisk \/ LoadMacro \/ TickEnds \/ Die => Kept
    BY DEF LoadPrices, LoadRisk, LoadMacro, TickEnds, Die, table, mails
  <2>7. \A r \in AllRules : NoValue(r) \/ NotComputable(r) \/ Delete(r) \/ Cross(r) => Kept
    BY DEF NoValue, NotComputable, Delete, Cross, table, mails
  <2>8. UNCHANGED alertVars => Kept
    BY DEF alertVars, table, mails
  <2>9. Risk \subseteq AllRules
    BY DEF AllRules
  <2>10. QED
    BY <2>1, <2>2, <2>3, <2>4, <2>5, <2>6, <2>7, <2>8, <2>9 DEF AlertNext, TickStep, Fault
<1>3. QED
  BY <1>1, <1>2, AlertTypes, PTL DEF AlertSpec
===============================================================================
