------------------------------ MODULE LiveQuotes ------------------------------
(***************************************************************************)
(* Live quotes: one upstream websocket to Finnhub, fanned out to browser   *)
(* clients and counted by ticker (LiveQuoteManager), kept connected by     *)
(* FinnhubWebSocketClient, with one reader per browser connection.         *)
(*                                                                         *)
(* Everything runs on one event loop: a step goes from one await to the    *)
(* next.  Awaits that may suspend are the REST snapshot of a ticker's      *)
(* first subscriber, and every message sent upstream; a put on a client's  *)
(* unbounded queue does not.  Prices are left out: a client is told of a   *)
(* ticker, by a quote or by an error, or it is not.                        *)
(***************************************************************************)
EXTENDS FiniteSets, Naturals

CONSTANTS Clients,       \* browser connections; one that left nothing behind may come back
          Tickers,
          Unknown,       \* tickers the provider has no data for
          None,          \* no snapshot under way
          MaxDrops,      \* bound on losses of the upstream connection
          MaxAsks        \* bound on subscribe messages

ASSUME QuotesAssumption == Unknown \subseteq Tickers /\ None \notin Tickers
                    /\ MaxDrops \in Nat /\ MaxAsks \in Nat

VARIABLES subscribers,   \* LiveQuoteManager.subscribers; no key is no subscriber
          clientTickers, \* LiveQuoteManager.client_tickers
          cache,         \* tickers in snapshot_cache
          reader,        \* where each connection's coroutine is
          todo,          \* what is left of its loops
          fetching,      \* the ticker whose snapshot it waits for
          told,          \* tickers the client has been sent a message about
          link,          \* is the upstream connection up
          upstream,      \* tickers Finnhub sends trades of
          resending,     \* what _resubscribe_all has still to send
          drops,
          asks,
          cutOff,        \* history: releases a cancellation cut off, <<client, ticker>>
          orphaned,      \* history: tickers whose activation was cut off
          strayed        \* history: tickers dropped with no unsubscribe, or before a resubscription

manager == <<subscribers, clientTickers, cache, told>>
connection == <<reader, todo, fetching>>
finnhub == <<link, upstream, resending, drops>>
history == <<cutOff, orphaned, strayed>>
vars == <<manager, connection, finnhub, asks, history>>

NoWork == [release |-> {}, add |-> {}, resend |-> {}]

\* A snapshot is waited for only while a subscribe message is worked on.
TypeOK ==
  /\ subscribers \in [Tickers -> SUBSET Clients]
  /\ clientTickers \in [Clients -> SUBSET Tickers]
  /\ cache \subseteq Tickers
  /\ reader \in [Clients -> {"gone", "reading", "subscribing", "leaving"}]
  /\ todo \in [Clients -> [release : SUBSET Tickers, add : SUBSET Tickers, resend : SUBSET Tickers]]
  /\ fetching \in [Clients -> Tickers \cup {None}]
  /\ \A c \in Clients : fetching[c] # None => reader[c] = "subscribing"
  /\ told \in [Clients -> SUBSET Tickers]
  /\ link \in BOOLEAN /\ upstream \subseteq Tickers /\ resending \subseteq Tickers
  /\ drops \in 0 .. MaxDrops /\ asks \in 0 .. MaxAsks
  /\ cutOff \subseteq Clients \X Tickers /\ orphaned \subseteq Tickers /\ strayed \subseteq Tickers

Init ==
  /\ subscribers = [t \in Tickers |-> {}]
  /\ clientTickers = [c \in Clients |-> {}]
  /\ cache = {}
  /\ reader = [c \in Clients |-> "gone"]
  /\ todo = [c \in Clients |-> NoWork]
  /\ fetching = [c \in Clients |-> None]
  /\ told = [c \in Clients |-> {}]
  /\ link = FALSE /\ upstream = {} /\ resending = {} /\ drops = 0 /\ asks = 0
  /\ cutOff = {} /\ orphaned = {} /\ strayed = {}

\* currently_wanted_tickers
Wanted == {t \in Tickers : subscribers[t] # {}}

\* _broadcast and _send_cached put on the queues of registered clients.
Tell(S, t) == [c \in Clients |-> IF c \in S /\ reader[c] \in {"reading", "subscribing"}
                                 THEN told[c] \cup {t} ELSE told[c]]

-------------------------------------------------------------------------------
(* A browser connection: the reader's subscribe, and unsubscribe_all.      *)

Connect(c) ==
  /\ reader[c] = "gone" /\ \A t \in Tickers : c \notin subscribers[t]
  /\ reader' = [reader EXCEPT ![c] = "reading"]
  /\ clientTickers' = [clientTickers EXCEPT ![c] = {}]
  /\ told' = [told EXCEPT ![c] = {}]
  /\ UNCHANGED <<subscribers, cache, todo, fetching, finnhub, history, asks>>

\* A subscribe message replaces the client's tickers.
Subscribe(c, tickers) ==
  LET previous == clientTickers[c]
  IN  /\ reader[c] = "reading" /\ asks < MaxAsks /\ asks' = asks + 1
      /\ reader' = [reader EXCEPT ![c] = "subscribing"]
      /\ clientTickers' = [clientTickers EXCEPT ![c] = tickers]
      /\ told' = [told EXCEPT ![c] = @ \ (previous \ tickers)]
      /\ todo' = [todo EXCEPT ![c] = [release |-> previous \ tickers, add |-> tickers \ previous,
                                      resend |-> tickers \cap previous]]
      /\ UNCHANGED <<subscribers, cache, fetching, finnhub, history>>

\* The last subscriber takes the ticker's cache entry and its upstream
\* subscription along; the unsubscribe is lost while the link is down, and is
\* sent before the subscribe of a resubscription that has the ticker still to
\* ask for: that one strays.
GiveUp(t) ==
  /\ cache' = cache \ {t} /\ upstream' = upstream \ {t}
  /\ orphaned' = orphaned \ {t}
  /\ strayed' = (strayed \ {t}) \cup ({t} \cap resending)

\* Mutation: the last subscriber keeps the upstream subscription.
ReleaseQuietly(c, t) ==
  /\ subscribers' = [subscribers EXCEPT ![t] = @ \ {c}]
  /\ IF subscribers[t] = {c}
       THEN /\ cache' = cache \ {t} /\ orphaned' = orphaned \ {t}
            /\ UNCHANGED <<upstream, strayed>>
       ELSE UNCHANGED <<cache, upstream, orphaned, strayed>>

\* _release
Release(c, t) ==
  /\ subscribers' = [subscribers EXCEPT ![t] = @ \ {c}]
  /\ IF subscribers[t] = {c}
       THEN GiveUp(t) ELSE UNCHANGED <<cache, upstream, orphaned, strayed>>

ReleaseOne(c, t) ==
  /\ reader[c] = "subscribing" /\ t \in todo[c].release
  /\ Release(c, t)
  /\ todo' = [todo EXCEPT ![c].release = @ \ {t}]
  /\ UNCHANGED <<clientTickers, told, reader, fetching, link, resending, drops, cutOff, asks>>

\* Mutation: a subscriber that is not the first is not sent what is cached.
AddOneSilent(c, t) ==
  /\ reader[c] = "subscribing" /\ fetching[c] = None
  /\ todo[c].release = {} /\ t \in todo[c].add
  /\ subscribers' = [subscribers EXCEPT ![t] = @ \cup {c}]
  /\ todo' = [todo EXCEPT ![c].add = @ \ {t}]
  /\ fetching' = IF subscribers[t] = {} THEN [fetching EXCEPT ![c] = t] ELSE fetching
  /\ UNCHANGED <<clientTickers, told, cache, reader, finnhub, history, asks>>

\* The first subscriber of a ticker asks for its snapshot and waits for it;
\* another is sent what is cached, which may be nothing yet.
AddOne(c, t) ==
  /\ reader[c] = "subscribing" /\ fetching[c] = None
  /\ todo[c].release = {} /\ t \in todo[c].add
  /\ subscribers' = [subscribers EXCEPT ![t] = @ \cup {c}]
  /\ todo' = [todo EXCEPT ![c].add = @ \ {t}]
  /\ IF subscribers[t] = {}
       THEN fetching' = [fetching EXCEPT ![c] = t] /\ UNCHANGED told
       ELSE /\ told' = IF t \in cache THEN Tell({c}, t) ELSE told
            /\ UNCHANGED fetching
  /\ UNCHANGED <<clientTickers, cache, reader, finnhub, history, asks>>

\* The rest of _activate_ticker, from the snapshot's arrival on.  A ticker found
\* unknown loses its subscribers with no unsubscribe: a reconnect that asked for
\* it, or is about to, leaves it subscribed upstream, strayed.
Activate(c) ==
  LET t == fetching[c]
  IN  /\ reader[c] = "subscribing" /\ t # None
      /\ fetching' = [fetching EXCEPT ![c] = None]
      /\ CASE subscribers[t] = {} -> UNCHANGED <<manager, upstream, strayed>>
           [] subscribers[t] # {} /\ t \in Unknown ->
                /\ told' = Tell(subscribers[t], t)
                /\ clientTickers' = [d \in Clients |-> IF d \in subscribers[t]
                                                       THEN clientTickers[d] \ {t}
                                                       ELSE clientTickers[d]]
                /\ subscribers' = [subscribers EXCEPT ![t] = {}]
                /\ strayed' = strayed \cup ({t} \cap (upstream \cup resending))
                /\ UNCHANGED <<cache, upstream>>
           [] OTHER ->
                /\ cache' = cache \cup {t}
                /\ told' = Tell(subscribers[t], t)
                /\ upstream' = IF link THEN upstream \cup {t} ELSE upstream
                /\ UNCHANGED <<subscribers, clientTickers, strayed>>
      /\ UNCHANGED <<reader, todo, link, resending, drops, cutOff, orphaned, asks>>

ResendAll(c) ==
  /\ reader[c] = "subscribing" /\ fetching[c] = None
  /\ todo[c].release = {} /\ todo[c].add = {}
  /\ reader' = [reader EXCEPT ![c] = "reading"]
  /\ todo' = [todo EXCEPT ![c] = NoWork]
  /\ told' = [told EXCEPT ![c] = @ \cup (todo[c].resend \cap cache)]
  /\ UNCHANGED <<subscribers, clientTickers, cache, fetching, finnhub, history, asks>>

\* Mutation: the connection's tickers are not given back.
EndSilent(c) ==
  /\ reader[c] \in {"reading", "subscribing"}
  /\ reader' = [reader EXCEPT ![c] = "leaving"]
  /\ todo' = [todo EXCEPT ![c] = NoWork]
  /\ clientTickers' = [clientTickers EXCEPT ![c] = {}]
  /\ told' = [told EXCEPT ![c] = {}]
  /\ fetching' = [fetching EXCEPT ![c] = None]
  /\ UNCHANGED <<subscribers, cache, finnhub, history, asks>>

\* The connection ends: the browser is gone, the writer failed, or the
\* snapshot request raised.  The reader is cancelled at whatever await it is,
\* and unsubscribe_all takes the client's tickers.
End(c) ==
  /\ reader[c] \in {"reading", "subscribing"}
  /\ reader' = [reader EXCEPT ![c] = "leaving"]
  /\ todo' = [todo EXCEPT ![c] = [NoWork EXCEPT !.release = clientTickers[c]]]
  /\ clientTickers' = [clientTickers EXCEPT ![c] = {}]
  /\ told' = [told EXCEPT ![c] = {}]
  /\ fetching' = [fetching EXCEPT ![c] = None]
  /\ cutOff' = cutOff \cup {<<c, t>> : t \in {t \in todo[c].release : c \in subscribers[t]}}
  /\ orphaned' = IF fetching[c] = None THEN orphaned ELSE orphaned \cup {fetching[c]}
  /\ UNCHANGED <<subscribers, cache, finnhub, strayed, asks>>

LeaveOne(c, t) ==
  /\ reader[c] = "leaving" /\ t \in todo[c].release
  /\ Release(c, t)
  /\ todo' = [todo EXCEPT ![c].release = @ \ {t}]
  /\ UNCHANGED <<clientTickers, told, reader, fetching, link, resending, drops, cutOff, asks>>

Left(c) ==
  /\ reader[c] = "leaving" /\ todo[c].release = {}
  /\ reader' = [reader EXCEPT ![c] = "gone"]
  /\ UNCHANGED <<manager, todo, fetching, finnhub, history, asks>>

-------------------------------------------------------------------------------
(* The upstream connection.                                                *)

\* Mutation: a reconnect forgets what was subscribed before it.
LinkUpBare ==
  /\ ~link
  /\ link' = TRUE
  /\ UNCHANGED <<manager, connection, upstream, resending, drops, history, asks>>

\* A connection is made: _resubscribe_all copies what is wanted.
LinkUp ==
  /\ ~link
  /\ link' = TRUE /\ resending' = Wanted
  /\ UNCHANGED <<manager, connection, upstream, drops, history, asks>>

ResendUpstream(t) ==
  /\ t \in resending
  /\ resending' = resending \ {t} /\ upstream' = upstream \cup {t}
  /\ UNCHANGED <<manager, connection, link, drops, history, asks>>

LinkDown ==
  /\ link /\ drops < MaxDrops
  /\ link' = FALSE /\ upstream' = {} /\ resending' = {}
  /\ drops' = drops + 1 /\ strayed' = {}
  /\ UNCHANGED <<manager, connection, cutOff, orphaned, asks>>

\* A trade, read after the resubscription, goes to every subscriber; one for
\* a ticker without a cache entry is ignored.
OnUpstreamTrade(t) ==
  /\ link /\ resending = {} /\ t \in upstream \cap cache
  /\ told' = Tell(subscribers[t], t)
  /\ UNCHANGED <<subscribers, clientTickers, cache, connection, finnhub, history, asks>>

-------------------------------------------------------------------------------
\* What a connection's coroutine does of itself, once told to.
ReaderStep(c) ==
  \/ \E t \in Tickers : ReleaseOne(c, t) \/ AddOne(c, t) \/ LeaveOne(c, t)
  \/ Activate(c) \/ ResendAll(c) \/ Left(c)

ClientStep(c) ==
  \/ Connect(c)
  \/ \E tickers \in SUBSET Tickers : Subscribe(c, tickers)
  \/ ReaderStep(c)
  \/ End(c)

LinkStep == LinkUp \/ \E t \in Tickers : ResendUpstream(t)

Next ==
  \/ \E c \in Clients : ClientStep(c)
  \/ LinkStep \/ LinkDown
  \/ \E t \in Tickers : OnUpstreamTrade(t)

Spec == Init /\ [][Next]_vars

\* A coroutine that can go on does (the snapshot request has a timeout), and
\* the client reconnects for as long as the process lives.
FairSpec == Spec /\ WF_vars(LinkStep) /\ \A c \in Clients : WF_vars(ReaderStep(c))

-------------------------------------------------------------------------------
(* Properties.                                                             *)

\* While connected, Finnhub sends the trades of every ticker that is shown
\* as live, except those the reconnect has still to ask for: no subscription
\* falls between a drop, a reconnect and an activation under way.
NothingMissed == link => cache \ resending \subseteq upstream

\* Finnhub sends trades of no ticker nobody wants, except of one that was
\* released, or found unknown, once a reconnect had copied it to its list: the
\* unsubscribe went out before that subscribe, or never.  Both exceptions are
\* against what the code says of itself, ReconnectNeverStale and
\* LastSubscriberUnsubscribes below; nothing else leaves a subscription behind.
UpstreamWanted == upstream \subseteq Wanted \cup strayed

\* Whoever counts as subscriber of a ticker is a connection that wants it or
\* is about to give it back; only a reader cancelled between two releases
\* leaves its connection behind.
SubscribersAreClients ==
  \A t \in Tickers : \A c \in subscribers[t] :
     t \in clientTickers[c] \cup todo[c].release \/ <<c, t>> \in cutOff

\* A client that asks for a ticker is told of it, by a quote or an error, or
\* asks for it no more, unless another's activation of it was cut off.
Served ==
  \A c \in Clients : \A t \in Tickers :
     (t \in clientTickers[c]) ~> (t \in told[c] \/ t \notin clientTickers[c] \/ t \in orphaned)

-------------------------------------------------------------------------------
(* What a comment says, and the code does not do.                          *)

\* manager.py:121 "activation is still in flight (or the ticker turned out
\* invalid and was already reported)": a subscriber that found no cached
\* quote has an activation to wait for.
NobodyWaitsForNothing ==
  \A t \in Wanted \ cache : \E c \in Clients :
     fetching[c] = t \/ (reader[c] = "leaving" /\ subscribers[t] = {c})

\* finnhub_ws_client.py:22 "so a reconnect can never subscribe to something
\* stale": what the resubscription sends is wanted when it is sent.
ReconnectNeverStale == [][\A t \in Tickers : ResendUpstream(t) => subscribers[t] # {}]_vars

\* manager.py:16 "ref-counted per ticker so Finnhub only gets a subscribe while
\* at least one connected client wants that ticker": with its last subscriber a
\* ticker loses its upstream subscription.
LastSubscriberUnsubscribes ==
  [][\A t \in Tickers : (subscribers[t] # {} /\ subscribers'[t] = {}) => t \notin upstream']_vars
===============================================================================
